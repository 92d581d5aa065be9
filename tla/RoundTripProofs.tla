--------------------------- MODULE RoundTripProofs ---------------------------
(***************************************************************************)
(* Proofs about RoundTrip for any servers, statuses, number of redirects,  *)
(* 10 among them, and any Proxy-Status headers: first what                 *)
(* proxyStatusError finds in whatever a proxy reports, then the chain of   *)
(* requests.                                                               *)
(***************************************************************************)
EXTENDS RoundTrip, TLAPS, SequenceTheorems, WellFoundedInduction

\* The least number that has a property.
LEMMA Least ==
    ASSUME NEW S \in SUBSET Nat, S # {}
    PROVE  \E i \in S : \A j \in S : i <= j
<1>1. PICK i \in S : \A j \in S : <<j, i>> \notin OpToRel(<, Nat)
  BY NatLessThanWellFounded, WFMin
<1>2. ASSUME NEW j \in S PROVE i <= j
  <2>1. <<j, i>> \in Nat \X Nat /\ <<j, i>>[1] = j /\ <<j, i>>[2] = i
    OBVIOUS
  <2>2. ~(j < i)
    BY <1>1, <2>1 DEF OpToRel
  <2> QED  BY <2>2
<1> QED  BY <1>2

-----------------------------------------------------------------------------
\* FlattenSeq: what has been joined after each piece.

Joins(f, q, n, T) ==
    /\ f[0] = <<>>
    /\ \A k \in 0..n : f[k] \in Seq(T)
    /\ \A k \in 1..n : f[k] = f[k - 1] \o q[k]

\* The folding function of FlattenSeq joins one piece after the other.
LEMMA FlattenIs ==
    ASSUME NEW T, NEW q, NEW n \in Nat, n >= 1, Len(q) = n, \A k \in 1..n : q[k] \in Seq(T)
    PROVE  \E f : Joins(f, q, n, T) /\ FlattenSeq(q) = f[n]
<1> DEFINE Flat(g, m) == g = [i \in 1..m |-> IF i = 1 THEN q[i] ELSE g[i - 1] \o q[i]]
           flatten == CHOOSE g : Flat(g, n)
           f == [k \in 0..n |-> IF k = 0 THEN <<>> ELSE flatten[k]]
           missing == {m \in 1..n : ~ \E g : Flat(g, m)}
<1>1. ASSUME missing # {} PROVE FALSE
  <2>1. PICK m \in missing : \A j \in missing : m <= j
    <3>1. missing \in SUBSET Nat
      <4> HIDE DEF Flat
      <4> QED  OBVIOUS
    <3> HIDE DEF missing
    <3> QED  BY <1>1, <3>1, Least
  <2>2. m # 1
    <3> DEFINE one == [i \in 1..1 |-> q[i]]
    <3>1. \A i \in 1..1 : one[i] = IF i = 1 THEN q[i] ELSE one[i - 1] \o q[i]
      OBVIOUS
    <3>2. Flat(one, 1)
      <4>1. one = [i \in 1..1 |-> one[i]]
        OBVIOUS
      <4> HIDE DEF one
      <4> QED  BY <3>1, <4>1
    <3> HIDE DEF Flat
    <3> QED  BY <2>1, <3>2
  <2>3. m - 1 \in 1..n /\ m - 1 \notin missing /\ m \in 1..n
    <3>1. m \in 1..n
      BY <2>1
    <3>2. m - 1 \in 1..n /\ ~(m <= m - 1)
      BY <2>2, <3>1
    <3> HIDE DEF missing
    <3> QED  BY <2>1, <3>1, <3>2
  <2>4. PICK g : Flat(g, m - 1)
    BY <2>3
  <2> DEFINE h == [i \in 1..m |-> IF i < m THEN g[i] ELSE g[m - 1] \o q[m]]
  <2>5. ASSUME NEW i \in 1..m PROVE h[i] = IF i = 1 THEN q[i] ELSE h[i - 1] \o q[i]
    <3>1. CASE i = m
      <4>1. m \in 1..m /\ m - 1 \in 1..m /\ ~(m < m) /\ m - 1 < m
        BY <2>2, <2>3
      <4>2. h[m] = g[m - 1] \o q[m] /\ h[m - 1] = g[m - 1]
        BY <4>1
      <4> HIDE DEF h
      <4> QED  BY <2>2, <3>1, <4>2
    <3>2. CASE i < m
      <4>1. i \in 1..(m - 1)
        BY <2>3, <3>2
      <4>2. g[i] = IF i = 1 THEN q[i] ELSE g[i - 1] \o q[i]
        BY <2>4, <4>1
      <4> QED  BY <2>3, <3>2, <4>2
    <3> QED  BY <2>3, <3>1, <3>2
  <2>6. Flat(h, m)
    <3>1. h = [i \in 1..m |-> h[i]]
      OBVIOUS
    <3> HIDE DEF h
    <3> QED  BY <2>5, <3>1
  <2> QED  BY <2>1, <2>6
<1>2. Flat(flatten, n)
  <2>1. \E g : Flat(g, n)
    <3>1. n \in 1..n
      OBVIOUS
    <3> HIDE DEF Flat
    <3> QED  BY <1>1, <3>1
  <2> HIDE DEF Flat
  <2> QED  BY <2>1
<1>3. FlattenSeq(q) = flatten[n]
  BY DEF FlattenSeq
<1> HIDE DEF flatten
<1>4. \A i \in 1..n : flatten[i] = IF i = 1 THEN q[i] ELSE flatten[i - 1] \o q[i]
  BY <1>2
<1>5. f[0] = <<>> /\ f[n] = flatten[n]
  OBVIOUS
<1>6. ASSUME NEW k \in 1..n PROVE f[k] = f[k - 1] \o q[k]
  <2>1. k \in 0..n /\ k # 0 /\ k - 1 \in 0..n /\ f[k] = flatten[k]
    OBVIOUS
  <2>2. CASE k = 1
    <3>1. f[k - 1] = <<>> /\ flatten[k] = q[k] /\ q[k] \in Seq(T)
      BY <1>4, <2>2
    <3> HIDE DEF f
    <3>2. <<>> \o q[k] = q[k]
      BY <3>1, ConcatEmptySeq
    <3> QED  BY <2>1, <3>1, <3>2
  <2>3. CASE k # 1
    <3>1. f[k - 1] = flatten[k - 1]
      BY <2>3
    <3> QED  BY <1>4, <2>1, <2>3, <3>1
  <2> QED  BY <2>2, <2>3
<1> HIDE DEF f
<1> DEFINE wrong == {k \in 0..n : f[k] \notin Seq(T)}
<1>7. ASSUME wrong # {} PROVE FALSE
  <2>1. PICK k \in wrong : \A j \in wrong : k <= j
    <3>1. wrong \in SUBSET Nat
      OBVIOUS
    <3> HIDE DEF wrong
    <3> QED  BY <1>7, <3>1, Least
  <2>2. k \in 0..n /\ f[k] \notin Seq(T) /\ k # 0
    BY <1>5, <2>1, EmptySeq
  <2>3. k \in 1..n /\ k - 1 \in 0..n /\ ~(k <= k - 1)
    BY <2>2
  <2>4. f[k - 1] \in Seq(T)
    <3> HIDE DEF wrong
    <3>1. k - 1 \notin wrong
      BY <2>1, <2>3
    <3> QED  BY <2>3, <3>1 DEF wrong
  <2>5. f[k] = f[k - 1] \o q[k] /\ q[k] \in Seq(T)
    BY <1>6, <2>3
  <2> QED  BY <2>2, <2>4, <2>5, ConcatProperties
<1> QED  BY <1>3, <1>5, <1>6, <1>7 DEF Joins

-----------------------------------------------------------------------------
\* ReadOn: where the loop is after each token.

Reads(f, r, s, sep) ==
    /\ f[0] = r
    /\ \A n \in 1..Len(s) : f[n] = ReadToken(f[n - 1], s[n], sep)

\* There is such a function, and ReadOn is its last value.
LEMMA ReadOnIs ==
    ASSUME NEW r, NEW s, NEW sep, Len(s) \in Nat
    PROVE  \E f : Reads(f, r, s, sep) /\ ReadOn(r, s, sep) = f[Len(s)]
<1> DEFINE n == Len(s)
           After(g, m) == g = [i \in 0..m |-> IF i = 0 THEN r ELSE ReadToken(g[i - 1], s[i], sep)]
           after == CHOOSE g : After(g, n)
           missing == {m \in 0..n : ~ \E g : After(g, m)}
<1>1. ASSUME missing # {} PROVE FALSE
  <2>1. PICK m \in missing : \A j \in missing : m <= j
    <3>1. missing \in SUBSET Nat
      OBVIOUS
    <3> HIDE DEF missing
    <3> QED  BY <1>1, <3>1, Least
  <2>2. m # 0
    <3>1. After([i \in 0..0 |-> r], 0)
      OBVIOUS
    <3> QED  BY <2>1, <3>1
  <2>3. m - 1 \in 0..n /\ m - 1 \notin missing /\ m \in 0..n
    <3>1. m \in 0..n
      BY <2>1
    <3>2. m - 1 \in 0..n /\ ~(m <= m - 1)
      BY <2>2, <3>1
    <3> HIDE DEF missing
    <3> QED  BY <2>1, <3>1, <3>2
  <2>4. PICK g : After(g, m - 1)
    BY <2>3
  <2> DEFINE h == [i \in 0..m |-> IF i < m THEN g[i] ELSE ReadToken(g[m - 1], s[m], sep)]
  <2>5. ASSUME NEW i \in 0..m PROVE h[i] = IF i = 0 THEN r ELSE ReadToken(h[i - 1], s[i], sep)
    <3>1. CASE i = m
      BY <2>2, <2>3, <3>1
    <3>2. CASE i < m
      <4>1. i \in 0..(m - 1)
        BY <2>3, <3>2
      <4>2. g[i] = IF i = 0 THEN r ELSE ReadToken(g[i - 1], s[i], sep)
        BY <2>4, <4>1
      <4> QED  BY <2>3, <3>2, <4>2
    <3> QED  BY <2>3, <3>1, <3>2
  <2>6. After(h, m)
    <3>1. h = [i \in 0..m |-> h[i]]
      OBVIOUS
    <3> HIDE DEF h
    <3> QED  BY <2>5, <3>1
  <2> QED  BY <2>1, <2>6
<1>2. After(after, n)
  <2>1. \E g : After(g, n)
    <3>1. n \in 0..n
      OBVIOUS
    <3> QED  BY <1>1, <3>1
  <2> HIDE DEF After
  <2> QED  BY <2>1
<1>3. ReadOn(r, s, sep) = after[n]
  BY DEF ReadOn
<1> HIDE DEF after
<1>4. \A i \in 0..n : after[i] = IF i = 0 THEN r ELSE ReadToken(after[i - 1], s[i], sep)
  BY <1>2
<1>5. after[0] = r /\ \A i \in 1..n : after[i] = ReadToken(after[i - 1], s[i], sep)
  <2>1. 0 \in 0..n /\ \A i \in 1..n : i \in 0..n /\ i # 0
    OBVIOUS
  <2> QED  BY <1>4, <2>1
<1> QED  BY <1>3, <1>5 DEF Reads

\* And there is only one.
LEMMA ReadsOnce ==
    ASSUME NEW r, NEW s, NEW sep, Len(s) \in Nat, NEW f, Reads(f, r, s, sep)
    PROVE  ReadOn(r, s, sep) = f[Len(s)]
<1>1. PICK g : Reads(g, r, s, sep) /\ ReadOn(r, s, sep) = g[Len(s)]
  BY ReadOnIs
<1> DEFINE differ == {n \in 0..Len(s) : f[n] # g[n]}
<1>2. ASSUME differ # {} PROVE FALSE
  <2>1. PICK n \in differ : \A j \in differ : n <= j
    <3>1. differ \in SUBSET Nat
      OBVIOUS
    <3> HIDE DEF differ
    <3> QED  BY <1>2, <3>1, Least
  <2>2. n \in 0..Len(s) /\ f[n] # g[n] /\ n # 0
    BY <1>1, <2>1 DEF Reads
  <2>3. n \in 1..Len(s) /\ n - 1 \in 0..Len(s) /\ ~(n <= n - 1)
    BY <2>2
  <2>4. f[n - 1] = g[n - 1]
    <3> HIDE DEF differ
    <3>1. n - 1 \notin differ
      BY <2>1, <2>3
    <3> QED  BY <2>3, <3>1 DEF differ
  <2> QED  BY <1>1, <2>2, <2>3, <2>4 DEF Reads
<1> QED  BY <1>1, <1>2

\* An empty text changes nothing.
LEMMA ReadNothing ==
    ASSUME NEW r, NEW sep
    PROVE  ReadOn(r, <<>>, sep) = r
<1>1. Len(<<>>) = 0
  OBVIOUS
<1>2. Reads([n \in {0} |-> r], r, <<>>, sep)
  BY <1>1 DEF Reads
<1> QED  BY <1>1, <1>2, ReadsOnce

\* A text of one token is read in one step.
LEMMA ReadOne ==
    ASSUME NEW r, NEW c, NEW sep
    PROVE  ReadOn(r, <<c>>, sep) = ReadToken(r, c, sep)
<1> DEFINE f == [n \in 0..1 |-> IF n = 0 THEN r ELSE ReadToken(r, c, sep)]
<1>1. Len(<<c>>) = 1 /\ <<c>>[1] = c
  OBVIOUS
<1>2. Reads(f, r, <<c>>, sep)
  BY <1>1 DEF Reads
<1> QED  BY <1>1, <1>2, ReadsOnce

\* Reading one text after another.
LEMMA ReadBoth ==
    ASSUME NEW r, NEW s \in Seq(Tokens), NEW t \in Seq(Tokens), NEW sep
    PROVE  ReadOn(r, s \o t, sep) = ReadOn(ReadOn(r, s, sep), t, sep)
<1> DEFINE m == Len(s)
           n == Len(t)
           u == s \o t
<1>1. m \in Nat /\ n \in Nat
  OBVIOUS
<1>2. Len(u) = m + n /\ \A i \in 1..(m + n) : u[i] = IF i <= m THEN s[i] ELSE t[i - m]
  BY ConcatProperties
<1>3. PICK f : Reads(f, r, s, sep) /\ ReadOn(r, s, sep) = f[m]
  BY <1>1, ReadOnIs
<1>4. PICK g : Reads(g, f[m], t, sep) /\ ReadOn(f[m], t, sep) = g[n]
  BY <1>1, ReadOnIs
<1> HIDE DEF u
<1> DEFINE h == [i \in 0..(m + n) |-> IF i <= m THEN f[i] ELSE g[i - m]]
<1>5. h[0] = r
  BY <1>1, <1>3 DEF Reads
<1>6. ASSUME NEW i \in 1..(m + n) PROVE h[i] = ReadToken(h[i - 1], u[i], sep)
  <2>1. CASE i <= m
    <3>1. i \in 1..m /\ h[i] = f[i] /\ h[i - 1] = f[i - 1]
      BY <1>1, <2>1
    <3> QED  BY <1>2, <1>3, <2>1, <3>1 DEF Reads
  <2>2. CASE i > m
    <3>1. i - m \in 1..n /\ h[i] = g[i - m]
      BY <1>1, <2>2
    <3>2. h[i - 1] = g[i - m - 1]
      <4>1. CASE i = m + 1
        <5>1. g[0] = f[m]
          BY <1>4 DEF Reads
        <5>2. i - 1 = m /\ i - m - 1 = 0 /\ m \in 0..(m + n) /\ m <= m
          BY <1>1, <4>1
        <5>3. h[m] = f[m]
          BY <5>2
        <5> HIDE DEF h, m, n
        <5> QED  BY <5>1, <5>2, <5>3
      <4>2. CASE i # m + 1
        <5>1. i - 1 \in 0..(m + n) /\ ~(i - 1 <= m) /\ i - 1 - m = i - m - 1
          BY <1>1, <2>2, <4>2
        <5>2. h[i - 1] = g[i - 1 - m]
          BY <5>1
        <5> HIDE DEF h
        <5> QED  BY <5>1, <5>2
      <4> QED  BY <4>1, <4>2
    <3>3. u[i] = t[i - m]
      BY <1>1, <1>2, <2>2
    <3> QED  BY <1>4, <3>1, <3>2, <3>3 DEF Reads
  <2> QED  BY <1>1, <2>1, <2>2
<1> HIDE DEF h
<1>7. Reads(h, r, u, sep) /\ Len(u) \in Nat
  BY <1>1, <1>2, <1>5, <1>6 DEF Reads
<1>8. ReadOn(r, u, sep) = h[m + n]
  BY <1>2, <1>7, ReadsOnce
<1>9. h[m + n] = g[n]
  <2>1. CASE n = 0
    BY <1>1, <1>4, <2>1 DEF h, Reads
  <2>2. CASE n # 0
    BY <1>1, <2>2 DEF h
  <2> QED  BY <2>1, <2>2
<1> QED  BY <1>3, <1>4, <1>8, <1>9 DEF u

-----------------------------------------------------------------------------
\* Texts that are read without being split.

State == [parts : Seq(Seq(Tokens)), quoted : BOOLEAN, escaped : BOOLEAN]
Begun(q) == {r \in State : Len(r.parts) >= 1 /\ r.quoted = q /\ ~r.escaped}

\* The last part goes on with a text.
Longer(r, w) ==
    [parts |-> [r.parts EXCEPT ![Len(r.parts)] = @ \o w],
     quoted |-> r.quoted, escaped |-> r.escaped]

Passes(w, sep, q) == \A r \in Begun(q) : ReadOn(r, w, sep) = Longer(r, w)

\* Texts of tokens.
LEMMA OneToken ==
    ASSUME NEW c \in Tokens
    PROVE  <<c>> \in Seq(Tokens) /\ Len(<<c>>) = 1
OBVIOUS

\* A text of two tokens is one after the other.
LEMMA TwoTokens ==
    ASSUME NEW b \in Tokens, NEW c \in Tokens
    PROVE  <<b, c>> = <<b>> \o <<c>> /\ <<b, c>> \in Seq(Tokens)
<1> DEFINE s == <<b>>
           t == <<c>>
           u == <<b, c>>
<1>1. /\ s \in Seq(Tokens) /\ t \in Seq(Tokens) /\ u \in Seq(Tokens)
      /\ Len(s) = 1 /\ Len(t) = 1 /\ Len(u) = 2
      /\ s[1] = b /\ t[1] = c /\ u[1] = b /\ u[2] = c
  OBVIOUS
<1> HIDE DEF s, t, u
<1>2. /\ s \o t \in Seq(Tokens) /\ Len(s \o t) = 2
      /\ \A i \in 1..2 : (s \o t)[i] = IF i <= 1 THEN s[i] ELSE t[i - 1]
  <2>1. s \o t \in Seq(Tokens) /\ Len(s \o t) = Len(s) + Len(t)
        /\ \A i \in 1..(Len(s) + Len(t)) : (s \o t)[i] = IF i <= Len(s) THEN s[i] ELSE t[i - Len(s)]
    BY <1>1, ConcatProperties
  <2> QED  BY <1>1, <2>1
<1>3. (s \o t)[1] = b /\ (s \o t)[2] = c
  BY <1>1, <1>2
<1>4. ASSUME NEW i \in 1..Len(u) PROVE u[i] = (s \o t)[i]
  <2>1. i \in 1..2
    BY <1>1
  <2>2. i = 1 \/ i = 2
    BY <2>1
  <2> QED  BY <1>1, <1>3, <2>2
<1>5. u = s \o t
  BY <1>1, <1>2, <1>4, SeqEqual
<1> QED  BY <1>1, <1>5 DEF s, t, u

\* Texts may be joined in any order.
LEMMA JoinAssociates ==
    ASSUME NEW r \in Seq(Tokens), NEW s \in Seq(Tokens), NEW t \in Seq(Tokens)
    PROVE  r \o s \o t = r \o (s \o t)
BY ConcatAssociative, SMTT(30)

\* A state whose last part goes on is one of the same kind,
LEMMA LongerBegun ==
    ASSUME NEW q \in BOOLEAN, NEW r \in Begun(q), NEW w \in Seq(Tokens)
    PROVE  /\ Longer(r, w) \in Begun(q)
           /\ Len(Longer(r, w).parts) = Len(r.parts)
<1> DEFINE n == Len(r.parts)
           p == r.parts
<1>1. p \in Seq(Seq(Tokens)) /\ n \in 1..Len(p) /\ r.quoted = q /\ r.escaped = FALSE
  BY DEF Begun, State
<1>2. p[n] \in Seq(Tokens)
  BY <1>1, ElementOfSeq
<1>3. p[n] \o w \in Seq(Tokens)
  BY <1>2, ConcatProperties
<1>4. [p EXCEPT ![n] = p[n] \o w] \in Seq(Seq(Tokens)) /\ Len([p EXCEPT ![n] = p[n] \o w]) = Len(p)
  <2> DEFINE e == p[n] \o w
  <2>1. e \in Seq(Tokens)
    BY <1>3
  <2> HIDE DEF e, p, n
  <2>2. [p EXCEPT ![n] = e] \in Seq(Seq(Tokens)) /\ Len([p EXCEPT ![n] = e]) = Len(p)
    BY <1>1, <2>1, ExceptSeq
  <2> QED  BY <2>2 DEF e
<1> QED  BY <1>1, <1>4 DEF Longer, Begun, State

\* and going on with two texts is going on with both joined.
LEMMA LongerBoth ==
    ASSUME NEW q \in BOOLEAN, NEW r \in Begun(q), NEW v \in Seq(Tokens), NEW w \in Seq(Tokens)
    PROVE  Longer(Longer(r, v), w) = Longer(r, v \o w)
<1> DEFINE n == Len(r.parts)
           p == r.parts
           a == p[n]
           p1 == [p EXCEPT ![n] = a \o v]
<1>1. p \in Seq(Seq(Tokens)) /\ n \in 1..Len(p)
  BY DEF Begun, State
<1>2. a \in Seq(Tokens) /\ DOMAIN p = 1..Len(p)
  BY <1>1, ElementOfSeq
<1>3. (a \o v) \o w = a \o (v \o w)
  <2> HIDE DEF a
  <2> QED  BY <1>2, JoinAssociates
<1>4. Longer(r, v).parts = p1 /\ Len(p1) = n
  <2>1. Len(Longer(r, v).parts) = n
    BY LongerBegun
  <2> QED  BY <2>1 DEF Longer
<1>5. p1[n] = a \o v
  BY <1>1, <1>2
<1>6. [p1 EXCEPT ![n] = (a \o v) \o w] = [p EXCEPT ![n] = a \o (v \o w)]
  BY <1>1, <1>2, <1>3
<1> QED  BY <1>4, <1>5, <1>6 DEF Longer

\* The empty text passes;
LEMMA PassNothing ==
    ASSUME NEW q \in BOOLEAN, NEW sep
    PROVE  Passes(<<>>, sep, q)
<1> SUFFICES ASSUME NEW r \in Begun(q) PROVE Longer(r, <<>>) = r
  BY ReadNothing DEF Passes
<1> DEFINE n == Len(r.parts)
           p == r.parts
<1>1. p \in Seq(Seq(Tokens)) /\ n \in 1..Len(p) /\ r = [parts |-> p, quoted |-> r.quoted, escaped |-> r.escaped]
  BY DEF Begun, State
<1>2. p[n] \in Seq(Tokens)
  BY <1>1, ElementOfSeq
<1>3. p[n] \o <<>> = p[n]
  BY <1>2, ConcatEmptySeq
<1>4. [p EXCEPT ![n] = p[n]] = p
  BY <1>1
<1> QED  BY <1>1, <1>3, <1>4 DEF Longer

\* two texts that pass do so joined;
LEMMA PassBoth ==
    ASSUME NEW q \in BOOLEAN, NEW sep, NEW v \in Seq(Tokens), NEW w \in Seq(Tokens),
           Passes(v, sep, q), Passes(w, sep, q)
    PROVE  Passes(v \o w, sep, q)
<1> SUFFICES ASSUME NEW r \in Begun(q) PROVE ReadOn(r, v \o w, sep) = Longer(r, v \o w)
  BY DEF Passes
<1>1. ReadOn(r, v \o w, sep) = ReadOn(ReadOn(r, v, sep), w, sep)
  BY ReadBoth
<1>2. ReadOn(r, v, sep) = Longer(r, v)
  BY DEF Passes
<1>3. ReadOn(Longer(r, v), w, sep) = Longer(Longer(r, v), w)
  BY LongerBegun DEF Passes
<1> QED  BY <1>1, <1>2, <1>3, LongerBoth

\* Outside quotes only separators and quotes do more than that.
LEMMA PassOne ==
    ASSUME NEW sep, NEW c \in Tokens \ {sep, "quote"}
    PROVE  Passes(<<c>>, sep, FALSE)
<1> SUFFICES ASSUME NEW r \in Begun(FALSE) PROVE ReadOn(r, <<c>>, sep) = Longer(r, <<c>>)
  BY DEF Passes
<1> DEFINE n == Len(r.parts)
           p == r.parts
<1>1. p \in Seq(Seq(Tokens)) /\ n \in 1..Len(p) /\ r.quoted = FALSE /\ r.escaped = FALSE
  BY DEF Begun, State
<1>2. p[n] \in Seq(Tokens)
  BY <1>1, ElementOfSeq
<1>3. Append(p[n], c) = p[n] \o <<c>>
  BY <1>2, AppendIsConcat
<1>4. ReadToken(r, c, sep) = [parts |-> [p EXCEPT ![n] = Append(p[n], c)], quoted |-> FALSE, escaped |-> FALSE]
  BY <1>1 DEF ReadToken
<1> QED  BY <1>1, <1>3, <1>4, ReadOne DEF Longer

\* and so do any number of them.
LEMMA PassFlatten ==
    ASSUME NEW quoted \in BOOLEAN, NEW sep, NEW q, Len(q) \in Nat, NEW n \in Nat, Len(q) = n, n >= 1,
           \A k \in 1..n : q[k] \in Seq(Tokens) /\ Passes(q[k], sep, quoted)
    PROVE  Passes(FlattenSeq(q), sep, quoted) /\ FlattenSeq(q) \in Seq(Tokens)
<1>1. PICK f : Joins(f, q, n, Tokens) /\ FlattenSeq(q) = f[n]
  BY FlattenIs
<1> DEFINE wrong == {k \in 0..n : ~Passes(f[k], sep, quoted)}
<1>2. ASSUME wrong # {} PROVE FALSE
  <2>1. PICK k \in wrong : \A j \in wrong : k <= j
    <3>1. wrong \in SUBSET Nat
      OBVIOUS
    <3> HIDE DEF wrong
    <3> QED  BY <1>2, <3>1, Least
  <2>2. k \in 0..n /\ ~Passes(f[k], sep, quoted)
    BY <2>1
  <2>3. k # 0
    BY <1>1, <2>2, PassNothing DEF Joins
  <2>4. k \in 1..n /\ k - 1 \in 0..n /\ ~(k <= k - 1)
    BY <2>2, <2>3
  <2>5. Passes(f[k - 1], sep, quoted)
    <3> HIDE DEF wrong
    <3>1. k - 1 \notin wrong
      BY <2>1, <2>4
    <3> QED  BY <2>4, <3>1 DEF wrong
  <2>6. f[k] = f[k - 1] \o q[k] /\ f[k - 1] \in Seq(Tokens) /\ q[k] \in Seq(Tokens)
    BY <1>1, <2>4 DEF Joins
  <2>7. Passes(q[k], sep, quoted)
    BY <2>4
  <2>8. Passes(f[k - 1] \o q[k], sep, quoted)
    BY <2>5, <2>6, <2>7, PassBoth
  <2> QED  BY <2>2, <2>6, <2>8
<1>3. Passes(f[n], sep, quoted)
  <2>1. n \in 0..n
    OBVIOUS
  <2> QED  BY <1>2, <2>1
<1>4. f[n] \in Seq(Tokens)
  BY <1>1 DEF Joins
<1> QED  BY <1>1, <1>3, <1>4

Separators == {",", ";"}

\* A text without separators and quotes.
LEMMA PassPlain ==
    ASSUME NEW sep, NEW text \in Seq(Tokens),
           \A i \in 1..Len(text) : text[i] \in Tokens \ {sep, "quote"}
    PROVE  Passes(text, sep, FALSE)
<1> DEFINE n == Len(text)
           Right(k) == Passes(SubSeq(text, 1, k), sep, FALSE)
           wrong == {k \in 0..n : ~Right(k)}
<1>1. n \in Nat
  OBVIOUS
<1>2. ASSUME wrong # {} PROVE FALSE
  <2>1. PICK k \in wrong : \A j \in wrong : k <= j
    <3>1. wrong \in SUBSET Nat
      <4> HIDE DEF Right, n
      <4> QED  BY <1>1
    <3> HIDE DEF wrong
    <3> QED  BY <1>2, <3>1, Least
  <2>2. k \in 0..n /\ ~Right(k)
    <3> HIDE DEF Right
    <3> QED  BY <2>1
  <2>3. k # 0
    <3>1. SubSeq(text, 1, 0) = <<>>
      <4>1. 1 \in Int /\ 0 \in Int /\ 0 < 1
        OBVIOUS
      <4> QED  BY <4>1, SubSeqEmpty
    <3>2. Right(0)
      BY <3>1, PassNothing
    <3> HIDE DEF Right
    <3> QED  BY <2>2, <3>2
  <2>4. k \in 1..n /\ k - 1 \in 0..n /\ ~(k <= k - 1) /\ 1 \in 1..n
    <3> HIDE DEF Right, n
    <3> QED  BY <1>1, <2>2, <2>3
  <2> DEFINE v == SubSeq(text, 1, k - 1)
             one == <<text[k]>>
  <2>5. Passes(v, sep, FALSE)
    <3>1. k - 1 \notin wrong
      <4> HIDE DEF wrong
      <4> QED  BY <2>1, <2>4
    <3> QED  BY <2>4, <3>1
  <2>6. SubSeq(text, 1, k) = v \o one
    BY <1>1, <2>4, SubSeqRecursiveSecond
  <2>7. v \in Seq(Tokens)
    <3>1. \A i \in 1..(k - 1) : text[i] \in Tokens
      BY <1>1, <2>4, ElementOfSeq
    <3>2. 1 \in Int /\ k - 1 \in Int
      BY <2>4
    <3> QED  BY <3>1, <3>2, SubSeqProperties
  <2>8. text[k] \in Tokens \ {sep, "quote"}
    BY <2>4
  <2>9. one \in Seq(Tokens) /\ Passes(one, sep, FALSE)
    BY <2>8, PassOne, OneToken
  <2> HIDE DEF v, one
  <2>10. Right(k)
    BY <2>5, <2>6, <2>7, <2>9, PassBoth
  <2> QED  BY <2>2, <2>10
<1>3. Right(n)
  <2>1. n \in 0..n
    BY <1>1
  <2> HIDE DEF Right
  <2> QED  BY <1>2, <2>1
<1> QED  BY <1>3, SubSeqFull

\* An unquoted value.
LEMMA PassBare ==
    ASSUME NEW sep \in Separators, NEW text \in Seq(Tokens \ {",", ";", "quote"})
    PROVE  Passes(text, sep, FALSE) /\ text \in Seq(Tokens)
<1> DEFINE T == Tokens \ {",", ";", "quote"}
<1>1. T \subseteq Tokens /\ T \subseteq Tokens \ {sep, "quote"}
  BY DEF Separators
<1>2. text \in Seq(T)
  OBVIOUS
<1> HIDE DEF T
<1>3. text \in Seq(Tokens)
  BY <1>1, <1>2, SeqMonotonic
<1>4. \A i \in 1..Len(text) : text[i] \in Tokens \ {sep, "quote"}
  BY <1>1, <1>2, ElementOfSeq
<1> QED  BY <1>3, <1>4, PassPlain

\* How one token is written between quotes.
EscapedToken(c) == IF c \in {"quote", "backslash"} THEN <<"backslash", c>> ELSE <<c>>

\* Between quotes a token as it is escaped passes, quotes and separators
\* included.
LEMMA PassEscapedToken ==
    ASSUME NEW sep \in Separators, NEW c \in Tokens
    PROVE  Passes(EscapedToken(c), sep, TRUE) /\ EscapedToken(c) \in Seq(Tokens)
<1> SUFFICES ASSUME NEW r \in Begun(TRUE)
             PROVE  ReadOn(r, EscapedToken(c), sep) = Longer(r, EscapedToken(c)) /\ EscapedToken(c) \in Seq(Tokens)
  <2>1. EscapedToken(c) \in Seq(Tokens)
    <3>1. "backslash" \in Tokens
      BY DEF Tokens
    <3> QED  BY <3>1, OneToken, TwoTokens DEF EscapedToken
  <2> QED  BY <2>1 DEF Passes
<1> DEFINE n == Len(r.parts)
           p == r.parts
<1>1. p \in Seq(Seq(Tokens)) /\ n \in 1..Len(p) /\ r.quoted = TRUE /\ r.escaped = FALSE
  BY DEF Begun, State
<1>2. p[n] \in Seq(Tokens)
  BY <1>1, ElementOfSeq
<1>3. CASE c \notin {"quote", "backslash"}
  <2>1. Append(p[n], c) = p[n] \o <<c>>
    BY <1>2, AppendIsConcat
  <2>2. ReadToken(r, c, sep) = [parts |-> [p EXCEPT ![n] = Append(p[n], c)], quoted |-> TRUE, escaped |-> FALSE]
    BY <1>1, <1>3 DEF ReadToken
  <2>3. EscapedToken(c) = <<c>> /\ <<c>> \in Seq(Tokens)
    BY <1>3 DEF EscapedToken
  <2> QED  BY <1>1, <2>1, <2>2, <2>3, ReadOne DEF Longer
<1>4. CASE c \in {"quote", "backslash"}
  <2> DEFINE b == "backslash"
             p1 == [p EXCEPT ![n] = Append(p[n], b)]
             r1 == [parts |-> p1, quoted |-> TRUE, escaped |-> TRUE]
             p2 == [p1 EXCEPT ![n] = Append(p1[n], c)]
  <2>1. b \in Tokens /\ <<b>> \in Seq(Tokens) /\ <<c>> \in Seq(Tokens) /\ EscapedToken(c) = <<b>> \o <<c>>
        /\ EscapedToken(c) \in Seq(Tokens)
    <3>1. "backslash" \in Tokens
      BY DEF Tokens
    <3> QED  BY <1>4, <3>1, OneToken, TwoTokens DEF EscapedToken
  <2>2. sep # b /\ sep # c
    BY <1>4 DEF Separators
  <2>3. ReadToken(r, b, sep) = r1
    BY <1>1, <2>2 DEF ReadToken
  <2>4. Append(p[n], b) \in Seq(Tokens) /\ Append(p[n], b) = p[n] \o <<b>>
    BY <1>2, <2>1, AppendProperties, AppendIsConcat
  <2>5. p1 \in Seq(Seq(Tokens)) /\ Len(p1) = Len(p) /\ p1[n] = Append(p[n], b)
    <3> DEFINE e == Append(p[n], b)
    <3>1. e \in Seq(Tokens)
      BY <2>4
    <3> HIDE DEF e, p, n
    <3>2. [p EXCEPT ![n] = e] \in Seq(Seq(Tokens)) /\ Len([p EXCEPT ![n] = e]) = Len(p)
          /\ [p EXCEPT ![n] = e][n] = e
      BY <1>1, <3>1, ExceptSeq
    <3> QED  BY <3>2 DEF e
  <2>6. ReadToken(r1, c, sep) = [parts |-> p2, quoted |-> TRUE, escaped |-> FALSE]
    BY <1>1, <1>4, <2>2, <2>5 DEF ReadToken
  <2>7. Append(p1[n], c) = p[n] \o EscapedToken(c)
    <3>1. Append(p1[n], c) = (p[n] \o <<b>>) \o <<c>>
      BY <2>4, <2>5, AppendIsConcat
    <3>2. (p[n] \o <<b>>) \o <<c>> = p[n] \o (<<b>> \o <<c>>)
      <4> HIDE DEF b
      <4>1. p[n] \in Seq(Tokens) /\ <<b>> \in Seq(Tokens) /\ <<c>> \in Seq(Tokens)
        BY <1>2, <2>1
      <4> HIDE DEF p, n
      <4> QED  BY <4>1, JoinAssociates, Zenon
    <3> QED  BY <2>1, <3>1, <3>2
  <2>8. p2 = [p EXCEPT ![n] = p[n] \o EscapedToken(c)]
    BY <1>1, <2>7
  <2>9. ReadOn(r, EscapedToken(c), sep) = ReadToken(ReadToken(r, b, sep), c, sep)
    <3> HIDE DEF b
    <3>1. ReadOn(r, <<b>> \o <<c>>, sep) = ReadOn(ReadOn(r, <<b>>, sep), <<c>>, sep)
      <4> DEFINE s == <<b>>
                 t == <<c>>
      <4>1. s \in Seq(Tokens) /\ t \in Seq(Tokens)
        BY <2>1
      <4> HIDE DEF s, t
      <4>2. ReadOn(r, s \o t, sep) = ReadOn(ReadOn(r, s, sep), t, sep)
        BY <4>1, ReadBoth
      <4> QED  BY <4>2 DEF s, t
    <3> QED  BY <2>1, <3>1, ReadOne
  <2> QED  BY <1>1, <2>1, <2>3, <2>6, <2>8, <2>9 DEF Longer
<1> QED  BY <1>3, <1>4

\* A text between quotes, whatever is in it.
LEMMA EscapedIs ==
    ASSUME NEW text \in Seq(Tokens), NEW sep \in Separators
    PROVE  Escaped(text) \in Seq(Tokens) /\ Passes(Escaped(text), sep, TRUE)
<1> DEFINE n == Len(text)
           q == [i \in 1..n |-> EscapedToken(text[i])]
<1>1. n \in Nat /\ DOMAIN text = 1..n
  OBVIOUS
<1>2. Escaped(text) = FlattenSeq(q) /\ Len(q) = n
  BY <1>1 DEF Escaped, EscapedToken
<1>3. CASE n = 0
  <2>1. Escaped(text) = <<>>
    BY <1>2, <1>3 DEF FlattenSeq
  <2> QED  BY <2>1, PassNothing, EmptySeq
<1>4. CASE n # 0
  <2>1. \A k \in 1..n : q[k] \in Seq(Tokens) /\ Passes(q[k], sep, TRUE)
    <3>1. \A k \in 1..n : text[k] \in Tokens
      BY ElementOfSeq
    <3> QED  BY <3>1, PassEscapedToken
  <2>2. n >= 1
    BY <1>1, <1>4
  <2> HIDE DEF q, n
  <2> QED  BY <1>1, <1>2, <2>1, <2>2, PassFlatten
<1> QED  BY <1>3, <1>4

\* What passes between quotes passes outside with its quotes.
LEMMA PassQuoted ==
    ASSUME NEW sep \in Separators, NEW w \in Seq(Tokens), Passes(w, sep, TRUE)
    PROVE  Passes(<<"quote">> \o w \o <<"quote">>, sep, FALSE)
<1> DEFINE c == "quote"
           v == <<c>> \o w
<1> SUFFICES ASSUME NEW r \in Begun(FALSE)
             PROVE  ReadOn(r, v \o <<c>>, sep) = Longer(r, v \o <<c>>)
  BY DEF Passes
<1>1. c \in Tokens /\ <<c>> \in Seq(Tokens)
  <2>1. c \in Tokens
    BY DEF Tokens
  <2> QED  BY <2>1, OneToken
<1>2. sep # c
  BY DEF Separators
<1>3. v \in Seq(Tokens)
  BY <1>1, ConcatProperties
<1> DEFINE in(x) == [parts |-> x.parts, quoted |-> TRUE, escaped |-> FALSE]
           r1 == Longer(r, <<c>>)
           r2 == Longer(r, v)
<1>4. r1 \in Begun(FALSE) /\ in(r1) \in Begun(TRUE)
  <2>1. r1 \in Begun(FALSE)
    BY <1>1, LongerBegun
  <2> HIDE DEF r1
  <2> QED  BY <2>1 DEF Begun, State
<1>5. ReadToken(r, c, sep) = in(r1)
  <2> DEFINE n == Len(r.parts)
             p == r.parts
  <2>1. p \in Seq(Seq(Tokens)) /\ n \in 1..Len(p) /\ r.quoted = FALSE /\ r.escaped = FALSE
    BY DEF Begun, State
  <2>2. p[n] \in Seq(Tokens)
    BY <2>1, ElementOfSeq
  <2>3. Append(p[n], c) = p[n] \o <<c>>
    BY <1>1, <2>2, AppendIsConcat
  <2>4. ReadToken(r, c, sep) = [parts |-> [p EXCEPT ![n] = Append(p[n], c)], quoted |-> TRUE, escaped |-> FALSE]
    BY <1>2, <2>1 DEF ReadToken
  <2> QED  BY <2>3, <2>4 DEF Longer
<1>6. ReadOn(in(r1), w, sep) = in(r2)
  <2>1. ReadOn(in(r1), w, sep) = Longer(in(r1), w)
    BY <1>4 DEF Passes
  <2>2. Longer(in(r1), w) = in(Longer(r1, w))
    BY DEF Longer
  <2>3. Longer(r1, w) = r2
    <3> HIDE DEF c
    <3> QED  BY <1>1, LongerBoth
  <2> QED  BY <2>1, <2>2, <2>3
<1>7. r2 \in Begun(FALSE)
  BY <1>3, LongerBegun
<1>8. ReadToken(in(r2), c, sep) = Longer(r2, <<c>>)
  <2> HIDE DEF r2
  <2> DEFINE n == Len(r2.parts)
             p == r2.parts
  <2>1. p \in Seq(Seq(Tokens)) /\ n \in 1..Len(p) /\ r2.quoted = FALSE /\ r2.escaped = FALSE
    BY <1>7 DEF Begun, State
  <2>2. p[n] \in Seq(Tokens)
    BY <2>1, ElementOfSeq
  <2>3. Append(p[n], c) = p[n] \o <<c>>
    BY <1>1, <2>2, AppendIsConcat
  <2>4. ReadToken(in(r2), c, sep) = [parts |-> [p EXCEPT ![n] = Append(p[n], c)], quoted |-> FALSE, escaped |-> FALSE]
    BY <1>2, <2>1 DEF ReadToken
  <2> QED  BY <2>1, <2>3, <2>4 DEF Longer
<1>9. Longer(r2, <<c>>) = Longer(r, v \o <<c>>)
  <2> HIDE DEF c, v
  <2> QED  BY <1>1, <1>3, LongerBoth
<1>10. ReadOn(r, v \o <<c>>, sep) = ReadOn(ReadOn(ReadOn(r, <<c>>, sep), w, sep), <<c>>, sep)
  <2> HIDE DEF c
  <2>1. ReadOn(r, v, sep) = ReadOn(ReadOn(r, <<c>>, sep), w, sep)
    BY <1>1, ReadBoth
  <2> HIDE DEF v
  <2>2. ReadOn(r, v \o <<c>>, sep) = ReadOn(ReadOn(r, v, sep), <<c>>, sep)
    <3> DEFINE t == <<c>>
    <3>1. v \in Seq(Tokens) /\ t \in Seq(Tokens)
      BY <1>1, <1>3
    <3> HIDE DEF t
    <3>2. ReadOn(r, v \o t, sep) = ReadOn(ReadOn(r, v, sep), t, sep)
      BY <3>1, ReadBoth
    <3> QED  BY <3>2 DEF t
  <2> QED  BY <2>1, <2>2
<1>11. ReadOn(r, <<c>>, sep) = in(r1) /\ ReadOn(in(r2), <<c>>, sep) = Longer(r2, <<c>>)
  BY <1>5, <1>8, ReadOne
<1> HIDE DEF c, v, r1, r2, in
<1> QED  BY <1>6, <1>9, <1>10, <1>11

\* The value of a parameter as it is written.
Value(p) == IF p.quoted THEN <<"quote">> \o Escaped(p.text) \o <<"quote">> ELSE p.text

\* The value of a parameter is a text.
LEMMA ValueTyped ==
    ASSUME NEW p \in Parameters, NEW sep \in Separators
    PROVE  Value(p) \in Seq(Tokens) /\ Passes(Value(p), sep, FALSE)
<1>1. CASE p.quoted = TRUE
  <2>1. p.text \in Seq(Tokens)
    BY <1>1 DEF Parameters
  <2>2. Escaped(p.text) \in Seq(Tokens) /\ Passes(Escaped(p.text), sep, TRUE)
    BY <2>1, EscapedIs
  <2>3. <<"quote">> \in Seq(Tokens)
    <3>1. "quote" \in Tokens
      BY DEF Tokens
    <3> QED  BY <3>1, OneToken
  <2>4. <<"quote">> \o Escaped(p.text) \in Seq(Tokens)
    BY <2>2, <2>3, ConcatProperties
  <2>5. <<"quote">> \o Escaped(p.text) \o <<"quote">> \in Seq(Tokens)
    BY <2>3, <2>4, ConcatProperties
  <2> QED  BY <1>1, <2>2, <2>5, PassQuoted DEF Value
<1>2. CASE p.quoted = FALSE
  <2>1. p.text \in Seq(Tokens \ {",", ";", "quote"})
    BY <1>2 DEF Parameters
  <2> QED  BY <1>2, <2>1, PassBare DEF Value
<1> QED  BY <1>1, <1>2 DEF Parameters

\* A parameter passes as it is written: its separators are between quotes.
LEMMA WrittenIs ==
    ASSUME NEW p \in Parameters
    PROVE  /\ Written(p) = <<p.key>> \o Value(p)
           /\ Written(p) \in Seq(Tokens)
           /\ p.key \in Tokens
           /\ \A sep \in Separators : Passes(Written(p), sep, FALSE)
<1>1. p.key \in Tokens /\ p.key \notin Separators /\ p.key # "quote"
  BY DEF Parameters, Tokens, Separators
<1>2. Written(p) = <<p.key>> \o Value(p)
  BY DEF Written, Value
<1>3. ASSUME NEW sep \in Separators
      PROVE  Passes(Written(p), sep, FALSE) /\ Written(p) \in Seq(Tokens)
  <2>1. Value(p) \in Seq(Tokens) /\ Passes(Value(p), sep, FALSE)
    BY ValueTyped
  <2>2. <<p.key>> \in Seq(Tokens)
    BY <1>1, OneToken
  <2>3. Passes(<<p.key>>, sep, FALSE)
    <3>1. p.key \in Tokens \ {sep, "quote"}
      BY <1>1
    <3> QED  BY <3>1, PassOne
  <2> QED  BY <1>2, <2>1, <2>2, <2>3, PassBoth, ConcatProperties
<1>4. "," \in Separators
  BY DEF Separators
<1> QED  BY <1>1, <1>2, <1>3, <1>4

-----------------------------------------------------------------------------
\* What is split comes apart where it was put together.

\* Outside quotes, with these parts.
Split(p) == [parts |-> p, quoted |-> FALSE, escaped |-> FALSE]

\* A separator and a text that passes are read as one more part.
LEMMA SplitOne ==
    ASSUME NEW sep \in Separators, NEW parts \in Seq(Seq(Tokens)), NEW w \in Seq(Tokens),
           Passes(w, sep, FALSE)
    PROVE  ReadOn(Split(parts), <<sep>> \o w, sep) = Split(Append(parts, w))
<1> DEFINE e == <<>>
           s == <<sep>>
           p1 == Append(parts, e)
<1>1. s \in Seq(Tokens) /\ sep \in Tokens /\ e \in Seq(Tokens)
  <2>1. sep \in Tokens
    BY DEF Separators, Tokens
  <2> QED  BY <2>1, OneToken, EmptySeq
<1>2. ReadToken(Split(parts), sep, sep) = Split(p1)
  BY DEF ReadToken, Split
<1>3. ReadOn(Split(parts), s, sep) = Split(p1)
  BY <1>2, ReadOne
<1> HIDE DEF s, e
<1>4. ReadOn(Split(parts), s \o w, sep) = ReadOn(Split(p1), w, sep)
  BY <1>1, <1>3, ReadBoth
<1>5. /\ p1 \in Seq(Seq(Tokens)) /\ Len(p1) = Len(parts) + 1 /\ p1[Len(parts) + 1] = e
      /\ \A i \in 1..Len(parts) : p1[i] = parts[i]
  BY <1>1, AppendProperties
<1>6. ReadOn(Split(p1), w, sep) = Longer(Split(p1), w)
  <2>1. Split(p1) \in Begun(FALSE)
    <3> HIDE DEF p1
    <3>1. Len(p1) >= 1
      BY <1>5, LenProperties
    <3> QED  BY <1>5, <3>1 DEF Begun, State, Split
  <2> QED  BY <2>1 DEF Passes
<1>7. Longer(Split(p1), w) = Split([p1 EXCEPT ![Len(p1)] = e \o w])
  BY <1>5 DEF Longer, Split
<1>8. e \o w = w
  BY ConcatEmptySeq DEF e
<1>9. [p1 EXCEPT ![Len(p1)] = w] = Append(parts, w)
  <2> DEFINE a == Append(parts, w)
             n == Len(parts) + 1
             p2 == [p1 EXCEPT ![n] = w]
  <2>1. a \in Seq(Seq(Tokens)) /\ Len(a) = n /\ a[n] = w /\ \A i \in 1..Len(parts) : a[i] = parts[i]
    BY AppendProperties
  <2>2. n \in 1..Len(p1) /\ Len(p1) = n /\ n \in Nat
    BY <1>5, LenProperties
  <2> HIDE DEF a, p1, n
  <2>3. /\ p2 \in Seq(Seq(Tokens)) /\ Len(p2) = n
        /\ \A j \in 1..n : p2[j] = IF j = n THEN w ELSE p1[j]
    BY <1>5, <2>2, ExceptSeq
  <2> HIDE DEF p2
  <2>4. ASSUME NEW i \in 1..Len(a) PROVE a[i] = p2[i]
    <3>1. i \in 1..n /\ (i = n \/ i \in 1..Len(parts))
      BY <2>1, <2>2 DEF n
    <3>2. CASE i = n
      BY <2>1, <2>3, <3>1, <3>2
    <3>3. CASE i # n
      BY <1>5, <2>1, <2>3, <3>1, <3>3
    <3> QED  BY <3>2, <3>3
  <2>5. a = p2
    BY <2>1, <2>3, <2>4, SeqEqual
  <2> QED  BY <2>2, <2>5 DEF a, p2
<1> QED  BY <1>4, <1>6, <1>7, <1>8, <1>9 DEF s

\* Texts; texts that are not split; their list as it grows; and how they are
\* written from the k-th one on.
Among(w, n, T) == \A j \in 1..n : w[j] \in T
Whole(w, n, sep) == \A k \in 1..n : Passes(w[k], sep, FALSE)
Grows(parts, w, n) == \A k \in 1..n : parts[k] = Append(parts[k - 1], w[k])
Marked(q, w, sep, k, n) == \A j \in k..n : q[j] = <<sep>> \o w[j]

\* Reading q, of which all pieces but the first begin with a separator, adds
\* the texts w to the parts that were there first.
Adds(sep, first, n, w, q, r, parts) ==
    /\ sep \in Separators /\ first \in Seq(Seq(Tokens)) /\ n \in Nat /\ n >= 1 /\ Len(q) = n
    /\ Among(q, n, Seq(Tokens)) /\ Among(w, n, Seq(Tokens)) /\ Whole(w, n, sep)
    /\ parts[0] = first /\ Grows(parts, w, n)
    /\ ReadOn(r, q[1], sep) = Split(parts[1]) /\ Marked(q, w, sep, 2, n)

\* By induction over the pieces: the parts are what was put together.
LEMMA SplitMore ==
    ASSUME NEW sep, NEW first, NEW n, NEW w, NEW q, NEW r, NEW parts,
           Adds(sep, first, n, w, q, r, parts)
    PROVE  ReadOn(r, FlattenSeq(q), sep) = Split(parts[n]) /\ parts[n] \in Seq(Seq(Tokens))
           /\ FlattenSeq(q) \in Seq(Tokens)
<1>0. /\ \A k \in 1..n : q[k] \in Seq(Tokens) /\ w[k] \in Seq(Tokens) /\ Passes(w[k], sep, FALSE)
      /\ \A k \in 1..n : parts[k] = Append(parts[k - 1], w[k])
      /\ \A k \in 2..n : q[k] = <<sep>> \o w[k]
  <2> USE DEF Adds
  <2>1. \A k \in 1..n : q[k] \in Seq(Tokens) /\ w[k] \in Seq(Tokens) /\ Passes(w[k], sep, FALSE)
    BY DEF Among, Whole
  <2> QED  BY <2>1 DEF Grows, Marked
<1>9. /\ sep \in Separators /\ first \in Seq(Seq(Tokens)) /\ n \in Nat /\ n >= 1 /\ Len(q) = n
      /\ parts[0] = first /\ ReadOn(r, q[1], sep) = Split(parts[1])
  BY DEF Adds
<1>1. PICK f : Joins(f, q, n, Tokens) /\ FlattenSeq(q) = f[n]
  BY <1>0, <1>9, FlattenIs
<1>2. 1 \in 1..n /\ 0 \in 0..n /\ n \in 1..n /\ n \in 0..n
  BY <1>9
<1> DEFINE Right(k) == ReadOn(r, f[k], sep) = Split(parts[k]) /\ parts[k] \in Seq(Seq(Tokens))
           wrong == {k \in 1..n : ~Right(k)}
<1>3. Right(1)
  <2>1. f[1] = <<>> \o q[1]
    <3>1. f[0] = <<>> /\ \A k \in 1..n : f[k] = f[k - 1] \o q[k]
      BY <1>1 DEF Joins
    <3>2. f[1] = f[1 - 1] \o q[1]
      BY <1>2, <3>1
    <3>3. 1 - 1 = 0
      OBVIOUS
    <3> QED  BY <3>1, <3>2, <3>3
  <2>2. q[1] \in Seq(Tokens) /\ w[1] \in Seq(Tokens)
    BY <1>0, <1>2
  <2>3. f[1] = q[1]
    BY <2>1, <2>2, ConcatEmptySeq
  <2>4. parts[1] = Append(first, w[1])
    <3>1. parts[1] = Append(parts[1 - 1], w[1]) /\ 1 - 1 = 0
      BY <1>0, <1>2
    <3> QED  BY <1>9, <3>1
  <2>5. parts[1] \in Seq(Seq(Tokens))
    BY <1>9, <2>2, <2>4, AppendProperties
  <2> QED  BY <1>9, <2>3, <2>5
<1>4. ASSUME wrong # {} PROVE FALSE
  <2>1. PICK k \in wrong : \A j \in wrong : k <= j
    <3>1. wrong \in SUBSET Nat
      <4> HIDE DEF Right
      <4> QED  BY <1>9
    <3> HIDE DEF wrong
    <3> QED  BY <1>4, <3>1, Least
  <2>2. k \in 1..n /\ ~Right(k) /\ k # 1
    <3> HIDE DEF Right
    <3> QED  BY <1>3, <2>1
  <2>3. k - 1 \in 1..n /\ ~(k <= k - 1) /\ k - 1 \in 0..n /\ k \in 2..n /\ k \in 1..n
    <3> HIDE DEF Right
    <3> QED  BY <1>9, <2>2
  <2>4. Right(k - 1)
    <3>1. k - 1 \notin wrong
      <4> HIDE DEF wrong
      <4> QED  BY <2>1, <2>3
    <3> HIDE DEF Right
    <3> QED  BY <2>3, <3>1
  <2>5. /\ f[k] = f[k - 1] \o q[k] /\ f[k - 1] \in Seq(Tokens) /\ q[k] \in Seq(Tokens)
        /\ q[k] = <<sep>> \o w[k] /\ w[k] \in Seq(Tokens) /\ Passes(w[k], sep, FALSE)
        /\ parts[k] = Append(parts[k - 1], w[k])
    BY <1>0, <1>1, <2>3 DEF Joins
  <2>6. ReadOn(r, f[k], sep) = ReadOn(ReadOn(r, f[k - 1], sep), q[k], sep)
    <3> DEFINE s == f[k - 1]
               t == q[k]
    <3>1. f[k] = s \o t /\ s \in Seq(Tokens) /\ t \in Seq(Tokens)
      BY <2>5
    <3> HIDE DEF s, t
    <3>2. ReadOn(r, s \o t, sep) = ReadOn(ReadOn(r, s, sep), t, sep)
      BY <3>1, ReadBoth
    <3> QED  BY <3>1, <3>2 DEF s, t
  <2>7. ReadOn(Split(parts[k - 1]), <<sep>> \o w[k], sep) = Split(Append(parts[k - 1], w[k]))
    BY <1>9, <2>4, <2>5, SplitOne
  <2>8. Append(parts[k - 1], w[k]) \in Seq(Seq(Tokens))
    BY <2>4, <2>5, AppendProperties
  <2>9. Right(k)
    BY <2>4, <2>5, <2>6, <2>7, <2>8
  <2> QED  BY <2>2, <2>9
<1>5. Right(n)
  <2> HIDE DEF Right
  <2> QED  BY <1>2, <1>4
<1> QED  BY <1>1, <1>2, <1>5 DEF Joins

\* The parts after each piece, when the first one is there already.
Named(name, w, k) == [i \in 1..(k + 1) |-> IF i = 1 THEN name ELSE w[i - 1]]

NamedParts(name, w, n) == [k \in 0..n |-> Named(name, w, k)]
Listing(w, n) == [k \in 1..n |-> w[k]]

\* The lists of a name and the first k texts begin with the name alone, each
\* is the one before and one more text, and behind the name of the last are
\* all texts.
LEMMA NamedIs ==
    ASSUME NEW T, NEW n \in Nat, NEW name \in T, NEW w, Among(w, n, T)
    PROVE  /\ Named(name, w, 0) = <<name>>
           /\ \A k \in 0..n : Named(name, w, k) \in Seq(T) /\ Len(Named(name, w, k)) = k + 1
           /\ Grows(NamedParts(name, w, n), w, n)
           /\ Tail(Named(name, w, n)) = Listing(w, n)
<1>0. \A j \in 1..n : w[j] \in T
  BY DEF Among
<1>1. Named(name, w, 0) = <<name>>
  <2>1. Named(name, w, 0) = [i \in 1..1 |-> name]
    BY DEF Named
  <2> QED  BY <2>1
<1>2. ASSUME NEW k \in 0..n
      PROVE  /\ Named(name, w, k) \in Seq(T) /\ Len(Named(name, w, k)) = k + 1
             /\ Named(name, w, k)[1] = name
             /\ \A i \in 1..k : Named(name, w, k)[i + 1] = w[i]
  <2>1. \A i \in 1..(k + 1) : (IF i = 1 THEN name ELSE w[i - 1]) \in T
    BY <1>0
  <2>2. Named(name, w, k) \in Seq(T) /\ Len(Named(name, w, k)) = k + 1
    BY <2>1 DEF Named
  <2>3. Named(name, w, k)[1] = name
    BY DEF Named
  <2>4. ASSUME NEW i \in 1..k PROVE Named(name, w, k)[i + 1] = w[i]
    <3>1. i + 1 \in 1..(k + 1) /\ i + 1 # 1 /\ i + 1 - 1 = i
      OBVIOUS
    <3> QED  BY <3>1 DEF Named
  <2> QED  BY <2>2, <2>3, <2>4
<1>3. ASSUME NEW k \in 1..n PROVE Named(name, w, k) = Append(Named(name, w, k - 1), w[k])
  <2> DEFINE a == Named(name, w, k - 1)
             b == Named(name, w, k)
             c == Append(a, w[k])
  <2>1. k - 1 \in 0..n /\ k \in 0..n /\ w[k] \in T
    BY <1>0
  <2>2. /\ a \in Seq(T) /\ Len(a) = k /\ a[1] = name /\ \A i \in 1..(k - 1) : a[i + 1] = w[i]
        /\ b \in Seq(T) /\ Len(b) = k + 1 /\ b[1] = name /\ \A i \in 1..k : b[i + 1] = w[i]
    <3>1. k - 1 + 1 = k
      BY <2>1
    <3> QED  BY <1>2, <2>1, <3>1
  <2> HIDE DEF a, b
  <2>3. c \in Seq(T) /\ Len(c) = k + 1 /\ c[k + 1] = w[k] /\ \A i \in 1..k : c[i] = a[i]
    BY <2>1, <2>2, AppendProperties
  <2> HIDE DEF c
  <2>4. ASSUME NEW i \in 1..Len(b) PROVE b[i] = c[i]
    <3>1. CASE i = 1
      <4>1. 1 \in 1..k
        OBVIOUS
      <4> QED  BY <2>2, <2>3, <3>1, <4>1
    <3>2. CASE i = k + 1
      <4>1. k \in 1..k
        OBVIOUS
      <4>2. b[k + 1] = w[k]
        BY <2>2, <4>1
      <4> QED  BY <2>3, <3>2, <4>2
    <3>3. CASE i # 1 /\ i # k + 1
      <4>1. i - 1 \in 1..(k - 1) /\ i - 1 \in 1..k /\ i - 1 + 1 = i /\ i \in 1..k
        BY <2>2, <3>3
      <4>2. b[i - 1 + 1] = w[i - 1] /\ a[i - 1 + 1] = w[i - 1] /\ c[i] = a[i]
        BY <2>2, <2>3, <4>1
      <4> QED  BY <4>1, <4>2
    <3> QED  BY <3>1, <3>2, <3>3
  <2>5. b = c
    BY <2>2, <2>3, <2>4, SeqEqual
  <2> QED  BY <2>5 DEF a, b, c
<1>4. Tail(Named(name, w, n)) = Listing(w, n)
  <2> DEFINE b == Named(name, w, n)
             t == [i \in 1..n |-> w[i]]
  <2>1. b \in Seq(T) /\ Len(b) = n + 1 /\ \A i \in 1..n : b[i + 1] = w[i]
    BY <1>2
  <2>2. t \in Seq(T) /\ Len(t) = n /\ \A i \in 1..n : t[i] = w[i]
    BY <1>0
  <2> HIDE DEF b, t
  <2>3. b # <<>> /\ Len(b) - 1 = n
    BY <2>1
  <2>4. Tail(b) \in Seq(T) /\ Len(Tail(b)) = n /\ \A i \in 1..n : Tail(b)[i] = b[i + 1]
    BY <2>1, <2>3, HeadTailProperties
  <2>5. Tail(b) = t
    BY <2>1, <2>2, <2>4, SeqEqual
  <2> QED  BY <2>5 DEF b, t, Listing
<1>5. Grows(NamedParts(name, w, n), w, n)
  <2>1. \A k \in 1..n : k \in 0..n /\ k - 1 \in 0..n
    OBVIOUS
  <2> QED  BY <1>3, <2>1 DEF Grows, NamedParts
<1> QED  BY <1>1, <1>2, <1>4, <1>5

\* Where reading a header begins.
Nothing == Split(<<<<>>>>)

\* The first text is read as the only part.
LEMMA NothingRead ==
    ASSUME NEW sep \in Separators, NEW w \in Seq(Tokens), Passes(w, sep, FALSE)
    PROVE  ReadOn(Nothing, w, sep) = Split(<<w>>)
<1> DEFINE e == <<>>
           p == <<e>>
<1>1. e \in Seq(Tokens) /\ e \o w = w
  BY ConcatEmptySeq
<1> HIDE DEF e
<1>2. p \in Seq(Seq(Tokens)) /\ Len(p) = 1 /\ p[1] = e
  BY <1>1
<1>3. [p EXCEPT ![1] = w] = <<w>>
  <2> DEFINE s == [p EXCEPT ![1] = w]
             t == <<w>>
  <2>1. t \in Seq(Seq(Tokens)) /\ Len(t) = 1 /\ t[1] = w
    OBVIOUS
  <2> HIDE DEF t
  <2>2. 1 \in 1..Len(p)
    BY <1>2
  <2> HIDE DEF p
  <2>3. s \in Seq(Seq(Tokens)) /\ Len(s) = 1 /\ s[1] = w
    BY <1>2, <2>2, ExceptSeq
  <2> HIDE DEF s
  <2>4. s = t
    <3>1. \A i \in 1..Len(s) : i = 1
      BY <2>3
    <3> QED  BY <2>1, <2>3, <3>1, SeqEqual
  <2> QED  BY <2>4 DEF s, t
<1> HIDE DEF p
<1>4. Split(p) \in Begun(FALSE)
  BY <1>2 DEF Split, Begun, State
<1>5. ReadOn(Split(p), w, sep) = Longer(Split(p), w)
  BY <1>4 DEF Passes
<1>6. Longer(Split(p), w) = Split(<<w>>)
  BY <1>1, <1>2, <1>3 DEF Longer, Split
<1>7. Nothing = Split(p)
  BY DEF Nothing, p, e
<1> QED  BY <1>5, <1>6, <1>7

\* The parts of the last state are what splitOutsideQuotes returns.
LEMMA SplitIs ==
    ASSUME NEW s, NEW sep
    PROVE  \A p : ReadOn(Nothing, s, sep) = Split(p) => splitOutsideQuotes(s, sep) = p
BY DEF splitOutsideQuotes, Nothing, Split

\* Nothing follows a single part.
LEMMA TailOne ==
    ASSUME NEW e
    PROVE  Tail(<<e>>) = <<>>
OBVIOUS

\* The separators and what is never split.
LEMMA TokenKinds ==
    /\ "," \in Separators /\ ";" \in Separators
    /\ "," \in Tokens /\ ";" \in Tokens /\ "word" \in Tokens
    /\ ";" \in Tokens \ {",", "quote"}
    /\ \A sep \in Separators : "word" \in Tokens \ {sep, "quote"}
BY DEF Separators, Tokens

\* A parameter as it stands in a member.
LEMMA ParameterIs ==
    ASSUME NEW p \in Parameters
    PROVE  /\ <<";">> \o Written(p) \in Seq(Tokens)
           /\ Passes(<<";">> \o Written(p), ",", FALSE)
<1> DEFINE s == <<";">>
           v == Written(p)
<1>1. s \in Seq(Tokens) /\ Passes(s, ",", FALSE)
  BY TokenKinds, OneToken, PassOne
<1>2. v \in Seq(Tokens) /\ Passes(v, ",", FALSE)
  BY WrittenIs, TokenKinds
<1> HIDE DEF s, v
<1>3. s \o v \in Seq(Tokens) /\ Passes(s \o v, ",", FALSE)
  BY <1>1, <1>2, PassBoth, ConcatProperties
<1> QED  BY <1>3 DEF s, v

\* A list of one text is a list of texts.
LEMMA OneText ==
    ASSUME NEW e \in Seq(Tokens)
    PROVE  <<e>> \in Seq(Seq(Tokens))
OBVIOUS

\* A name, and pieces each of which begins with a separator.
Behind(sep, n, w, q) ==
    /\ Len(q) = n /\ n >= 1
    /\ Among(q, n, Seq(Tokens)) /\ Among(w, n, Seq(Tokens)) /\ Whole(w, n, sep)
    /\ Marked(q, w, sep, 1, n)

\* They come apart: behind the name are the texts.
LEMMA NamedSplit ==
    ASSUME NEW sep \in Separators, NEW name \in Seq(Tokens), Passes(name, sep, FALSE),
           NEW n \in Nat, NEW w, NEW q, Behind(sep, n, w, q)
    PROVE  /\ FlattenSeq(q) \in Seq(Tokens)
           /\ Tail(splitOutsideQuotes(name \o FlattenSeq(q), sep)) = Listing(w, n)
<1> DEFINE first == <<name>>
           parts == NamedParts(name, w, n)
           r == Split(first)
           t == FlattenSeq(q)
<1>1. first \in Seq(Seq(Tokens)) /\ ReadOn(Nothing, name, sep) = r /\ r = Split(first)
  BY OneText, NothingRead
<1>2. parts[0] = first /\ Grows(parts, w, n) /\ Tail(parts[n]) = Listing(w, n)
  <2> DEFINE T == Seq(Tokens)
  <2>1. name \in T /\ Among(w, n, T)
    BY DEF Behind
  <2> HIDE DEF T
  <2>2. /\ Named(name, w, 0) = first /\ Grows(parts, w, n)
        /\ Tail(Named(name, w, n)) = Listing(w, n)
    BY <2>1, NamedIs
  <2>3. 0 \in 0..n /\ n \in 0..n
    BY DEF Behind
  <2> QED  BY <2>2, <2>3 DEF NamedParts
<1>3. Marked(q, w, sep, 2, n) /\ q[1] = <<sep>> \o w[1] /\ w[1] \in Seq(Tokens) /\ Passes(w[1], sep, FALSE)
      /\ 1 \in 1..n
  <2>1. 1 \in 1..n /\ \A k \in 2..n : k \in 1..n
    BY DEF Behind
  <2> QED  BY <2>1 DEF Behind, Marked, Among, Whole
<1> HIDE DEF first, parts, r, t
<1>4. ReadOn(r, q[1], sep) = Split(parts[1])
  <2>1. parts[1] = Append(first, w[1])
    <3>1. parts[1] = Append(parts[1 - 1], w[1]) /\ 1 - 1 = 0
      BY <1>2, <1>3 DEF Grows
    <3> QED  BY <1>2, <3>1
  <2> QED  BY <1>1, <1>3, <2>1, SplitOne
<1>5. ReadOn(r, FlattenSeq(q), sep) = Split(parts[n]) /\ FlattenSeq(q) \in Seq(Tokens)
  <2>1. Adds(sep, first, n, w, q, r, parts)
    BY <1>1, <1>2, <1>3, <1>4 DEF Adds, Behind
  <2> QED  BY <2>1, SplitMore
<1>6. ReadOn(r, t, sep) = Split(parts[n]) /\ t \in Seq(Tokens)
  BY <1>5 DEF t
<1>7. ReadOn(Nothing, name \o t, sep) = ReadOn(ReadOn(Nothing, name, sep), t, sep)
  BY <1>6, ReadBoth
<1>8. splitOutsideQuotes(name \o t, sep) = parts[n]
  BY <1>1, <1>6, <1>7, SplitIs
<1> QED  BY <1>2, <1>6, <1>8 DEF t

\* A name alone has nothing behind it.
LEMMA NameSplit ==
    ASSUME NEW sep \in Separators, NEW name \in Seq(Tokens), Passes(name, sep, FALSE)
    PROVE  Tail(splitOutsideQuotes(name, sep)) = <<>>
<1>1. ReadOn(Nothing, name, sep) = Split(<<name>>)
  BY NothingRead
<1>2. splitOutsideQuotes(name, sep) = <<name>>
  BY <1>1, SplitIs
<1> QED  BY <1>2, TailOne

\* A member, read for the separator of members and for that of parameters.
LEMMA MemberIs ==
    ASSUME NEW params \in Seq(Parameters)
    PROVE  /\ Member(params) \in Seq(Tokens)
           /\ Passes(Member(params), ",", FALSE)
           /\ Tail(splitOutsideQuotes(Member(params), ";")) = [j \in 1..Len(params) |-> Written(params[j])]
<1> DEFINE n == Len(params)
           w == [j \in 1..n |-> Written(params[j])]
           q == [j \in 1..n |-> <<";">> \o Written(params[j])]
           name == <<"word">>
           t == FlattenSeq(q)
<1>1. n \in Nat /\ DOMAIN params = 1..n /\ Len(q) = n
  OBVIOUS
<1>2. Member(params) = name \o t
  BY <1>1 DEF Member
<1>3. name \in Seq(Tokens) /\ Passes(name, ",", FALSE) /\ Passes(name, ";", FALSE)
  BY TokenKinds, OneToken, PassOne
<1>4. ASSUME NEW k \in 1..n
      PROVE  /\ w[k] \in Seq(Tokens) /\ Passes(w[k], ";", FALSE)
             /\ q[k] \in Seq(Tokens) /\ Passes(q[k], ",", FALSE)
             /\ q[k] = <<";">> \o w[k]
  <2>1. params[k] \in Parameters
    BY ElementOfSeq
  <2>2. Written(params[k]) \in Seq(Tokens) /\ Passes(Written(params[k]), ";", FALSE)
    BY <2>1, WrittenIs, TokenKinds
  <2> QED  BY <2>1, <2>2, ParameterIs
<1>5. w = Listing(w, n)
  BY DEF Listing
<1>6. CASE n = 0
  <2>1. t = <<>>
    <3>1. Len(q) = 0 /\ q = <<>>
      BY <1>6
    <3> HIDE DEF q
    <3> QED  BY <3>1 DEF FlattenSeq
  <2>2. w = <<>>
    BY <1>6
  <2> HIDE DEF name, t, w
  <2>3. Member(params) = name
    BY <1>2, <1>3, <2>1, ConcatEmptySeq
  <2>4. Tail(splitOutsideQuotes(name, ";")) = <<>>
    BY <1>3, TokenKinds, NameSplit
  <2> QED  BY <1>3, <2>2, <2>3, <2>4 DEF w
<1>7. CASE n # 0
  <2>1. n >= 1
    BY <1>1, <1>7
  <2> HIDE DEF n, w, q, name, t
  <2>2. t \in Seq(Tokens) /\ Passes(t, ",", FALSE)
    <3>1. \A k \in 1..n : q[k] \in Seq(Tokens) /\ Passes(q[k], ",", FALSE)
      BY <1>4
    <3> QED  BY <1>1, <2>1, <3>1, PassFlatten DEF t
  <2>3. Member(params) \in Seq(Tokens) /\ Passes(Member(params), ",", FALSE)
    BY <1>2, <1>3, <2>2, PassBoth, ConcatProperties
  <2>4. Tail(splitOutsideQuotes(name \o FlattenSeq(q), ";")) = Listing(w, n)
    <3> DEFINE sep == ";"
    <3>1. Behind(sep, n, w, q) /\ sep \in Separators /\ Passes(name, sep, FALSE)
      BY <1>1, <1>3, <1>4, <2>1, TokenKinds DEF Behind, Among, Whole, Marked
    <3> HIDE DEF sep
    <3>2. n \in Nat /\ name \in Seq(Tokens)
      BY <1>1, <1>3
    <3>3. Tail(splitOutsideQuotes(name \o FlattenSeq(q), sep)) = Listing(w, n)
      BY <3>1, <3>2, NamedSplit
    <3> QED  BY <3>3 DEF sep
  <2>5. Tail(splitOutsideQuotes(Member(params), ";")) = w
    BY <1>2, <1>5, <2>4 DEF t
  <2> QED  BY <2>3, <2>5 DEF w, n
<1> QED  BY <1>6, <1>7

-----------------------------------------------------------------------------
\* What proxyStatusError finds in a header.

Beginning(w, k) == [i \in 1..k |-> w[i]]
Beginnings(w, n) == [k \in 0..n |-> Beginning(w, k)]

\* The beginnings of a list grow from the empty one, one text at a time.
LEMMA BeginningIs ==
    ASSUME NEW n \in Nat, NEW T, NEW w, Among(w, n, T)
    PROVE  /\ \A k \in 0..n : Beginnings(w, n)[k] = Beginning(w, k)
           /\ Beginning(w, 0) = <<>>
           /\ \A k \in 0..n : Beginning(w, k) \in Seq(T) /\ Len(Beginning(w, k)) = k
           /\ Grows(Beginnings(w, n), w, n)
<1>0. \A j \in 1..n : w[j] \in T
  BY DEF Among
<1>1. \A k \in 0..n : Beginnings(w, n)[k] = Beginning(w, k)
  BY DEF Beginnings
<1>2. Beginning(w, 0) = <<>>
  BY DEF Beginning
<1>3. ASSUME NEW k \in 0..n
      PROVE  Beginning(w, k) \in Seq(T) /\ Len(Beginning(w, k)) = k /\ \A i \in 1..k : Beginning(w, k)[i] = w[i]
  <2>1. \A i \in 1..k : w[i] \in T
    BY <1>0
  <2> QED  BY <2>1 DEF Beginning
<1>4. ASSUME NEW k \in 1..n PROVE Beginning(w, k) = Append(Beginning(w, k - 1), w[k])
  <2> DEFINE a == Beginning(w, k - 1)
             b == Beginning(w, k)
             c == Append(a, w[k])
  <2>1. k - 1 \in 0..n /\ k \in 0..n /\ w[k] \in T
    BY <1>0
  <2>2. /\ a \in Seq(T) /\ Len(a) = k - 1 /\ \A i \in 1..(k - 1) : a[i] = w[i]
        /\ b \in Seq(T) /\ Len(b) = k /\ \A i \in 1..k : b[i] = w[i]
    BY <1>3, <2>1
  <2> HIDE DEF a, b
  <2>3. c \in Seq(T) /\ Len(c) = k /\ c[k] = w[k] /\ \A i \in 1..(k - 1) : c[i] = a[i]
    <3>1. Len(a) + 1 = k
      BY <2>2
    <3> QED  BY <2>1, <2>2, <3>1, AppendProperties
  <2> HIDE DEF c
  <2>4. ASSUME NEW i \in 1..Len(b) PROVE b[i] = c[i]
    <3>1. i = k \/ i \in 1..(k - 1)
      BY <2>2
    <3>2. i \in 1..k
      BY <2>2
    <3> QED  BY <2>2, <2>3, <3>1, <3>2
  <2>5. b = c
    BY <2>2, <2>3, <2>4, SeqEqual
  <2> QED  BY <2>5 DEF a, b, c
<1>5. Grows(Beginnings(w, n), w, n)
  <2>1. \A k \in 1..n : k \in 0..n /\ k - 1 \in 0..n
    OBVIOUS
  <2> QED  BY <1>1, <1>4, <2>1 DEF Grows
<1> QED  BY <1>1, <1>2, <1>3, <1>5

\* The members come apart as they were rendered.
LEMMA MembersFound ==
    ASSUME NEW list \in Seq(Seq(Parameters)), Len(list) >= 1
    PROVE  splitOutsideQuotes(Render(list), ",") = [i \in 1..Len(list) |-> Member(list[i])]
<1> DEFINE n == Len(list)
           w == [i \in 1..n |-> Member(list[i])]
           q == [i \in 1..n |-> IF i = 1 THEN Member(list[i]) ELSE <<",">> \o Member(list[i])]
           parts == Beginnings(w, n)
           sep == ","
           first == <<>>
<1>1. n \in Nat /\ n >= 1 /\ DOMAIN list = 1..n /\ Len(q) = n /\ 1 \in 1..n
  OBVIOUS
<1>2. Render(list) = FlattenSeq(q)
  BY <1>1 DEF Render
<1>3. sep \in Separators /\ <<sep>> \in Seq(Tokens)
  BY TokenKinds, OneToken
<1>4. ASSUME NEW i \in 1..n
      PROVE  w[i] \in Seq(Tokens) /\ Passes(w[i], sep, FALSE) /\ q[i] \in Seq(Tokens)
             /\ q[i] = IF i = 1 THEN w[i] ELSE <<sep>> \o w[i]
  <2> DEFINE v == Member(list[i])
  <2>1. list[i] \in Seq(Parameters)
    BY ElementOfSeq
  <2>2. v \in Seq(Tokens) /\ Passes(v, sep, FALSE)
    BY <2>1, MemberIs
  <2>3. w[i] = v /\ q[i] = IF i = 1 THEN v ELSE <<sep>> \o v
    OBVIOUS
  <2> HIDE DEF v, w, q
  <2>4. <<sep>> \o v \in Seq(Tokens)
    BY <1>3, <2>2, ConcatProperties
  <2> QED  BY <2>2, <2>3, <2>4
<1>5. w = Beginning(w, n)
  BY DEF Beginning
<1> HIDE DEF n, w, q, sep
<1>6. Among(w, n, Seq(Tokens)) /\ Among(q, n, Seq(Tokens)) /\ Whole(w, n, sep) /\ Marked(q, w, sep, 2, n)
  <2>1. \A j \in 2..n : j \in 1..n /\ j # 1
    BY <1>1
  <2> QED  BY <1>4, <2>1 DEF Among, Whole, Marked
<1>7. parts[0] = first /\ parts[1] = <<w[1]>> /\ parts[n] = w /\ Grows(parts, w, n)
  <2> DEFINE T == Seq(Tokens)
  <2>1. Among(w, n, T)
    BY <1>6
  <2> HIDE DEF T
  <2>2. /\ \A k \in 0..n : Beginnings(w, n)[k] = Beginning(w, k)
        /\ Beginning(w, 0) = <<>> /\ Grows(Beginnings(w, n), w, n)
    BY <1>1, <2>1, BeginningIs
  <2>3. Beginning(w, 1) = <<w[1]>>
    BY DEF Beginning
  <2>4. 0 \in 0..n /\ 1 \in 0..n /\ n \in 0..n
    BY <1>1
  <2> QED  BY <1>5, <2>2, <2>3, <2>4
<1>8. ReadOn(Nothing, q[1], sep) = Split(parts[1])
  BY <1>1, <1>3, <1>4, <1>7, NothingRead
<1>9. first \in Seq(Seq(Tokens))
  OBVIOUS
<1> HIDE DEF parts, first
<1>10. Adds(sep, first, n, w, q, Nothing, parts)
  BY <1>1, <1>3, <1>6, <1>7, <1>8, <1>9 DEF Adds
<1>11. ReadOn(Nothing, FlattenSeq(q), sep) = Split(parts[n])
  BY <1>10, SplitMore
<1>12. splitOutsideQuotes(Render(list), sep) = w
  BY <1>2, <1>7, <1>11, SplitIs
<1> QED  BY <1>12 DEF w, n, sep

\* The parameters of a member as texts, and of two members.
Texts(ps) == [j \in 1..Len(ps) |-> Written(ps[j])]

\* They are texts, one for each parameter;
LEMMA TextsTyped ==
    ASSUME NEW ps \in Seq(Parameters)
    PROVE  /\ Texts(ps) \in Seq(Seq(Tokens))
           /\ Len(Texts(ps)) = Len(ps)
           /\ \A j \in 1..Len(ps) : Texts(ps)[j] = Written(ps[j])
<1>1. \A j \in 1..Len(ps) : Written(ps[j]) \in Seq(Tokens)
  <2>1. \A j \in 1..Len(ps) : ps[j] \in Parameters
    BY ElementOfSeq
  <2> QED  BY <2>1, WrittenIs
<1> QED  BY <1>1 DEF Texts

\* those of two lists of parameters are those of each;
LEMMA TextsBoth ==
    ASSUME NEW a \in Seq(Parameters), NEW b \in Seq(Parameters)
    PROVE  Texts(a \o b) = Texts(a) \o Texts(b)
<1> DEFINE m == Len(a)
           n == Len(b)
           c == a \o b
           l == Texts(c)
           ta == Texts(a)
           tb == Texts(b)
           r == ta \o tb
<1>1. m \in Nat /\ n \in Nat
  BY LenProperties
<1>2. c \in Seq(Parameters) /\ Len(c) = m + n /\ \A i \in 1..(m + n) : c[i] = IF i <= m THEN a[i] ELSE b[i - m]
  BY ConcatProperties
<1>3. /\ ta \in Seq(Seq(Tokens)) /\ Len(ta) = m /\ \A j \in 1..m : ta[j] = Written(a[j])
      /\ tb \in Seq(Seq(Tokens)) /\ Len(tb) = n /\ \A j \in 1..n : tb[j] = Written(b[j])
  BY TextsTyped
<1>4. l \in Seq(Seq(Tokens)) /\ Len(l) = m + n /\ \A j \in 1..(m + n) : l[j] = Written(c[j])
  <2> HIDE DEF c
  <2> QED  BY <1>2, TextsTyped
<1> HIDE DEF c, l, ta, tb, m, n
<1>5. /\ r \in Seq(Seq(Tokens)) /\ Len(r) = m + n
      /\ \A i \in 1..(m + n) : r[i] = IF i <= m THEN ta[i] ELSE tb[i - m]
  BY <1>3, ConcatProperties
<1> HIDE DEF r
<1>6. ASSUME NEW i \in 1..Len(l) PROVE l[i] = r[i]
  <2>1. i \in 1..(m + n)
    BY <1>4
  <2>2. CASE i <= m
    <3>1. i \in 1..m
      BY <1>1, <2>1, <2>2
    <3>2. l[i] = Written(a[i]) /\ r[i] = ta[i]
      BY <1>2, <1>4, <1>5, <2>1, <2>2
    <3> QED  BY <1>3, <3>1, <3>2
  <2>3. CASE ~(i <= m)
    <3>1. i - m \in 1..n
      BY <1>1, <2>1, <2>3
    <3>2. l[i] = Written(b[i - m]) /\ r[i] = tb[i - m]
      BY <1>2, <1>4, <1>5, <2>1, <2>3
    <3> QED  BY <1>3, <3>1, <3>2
  <2> QED  BY <2>2, <2>3
<1>7. l = r
  BY <1>4, <1>5, <1>6, SeqEqual
<1> QED  BY <1>7 DEF l, r, c, ta, tb

\* All of them.
TextsOf(list) == [i \in 1..Len(list) |-> Texts(list[i])]

\* and those of all members are those of the members one after the other.
LEMMA TextsFlatten ==
    ASSUME NEW list \in Seq(Seq(Parameters)), Len(list) >= 1
    PROVE  /\ FlattenSeq(TextsOf(list)) = Texts(FlattenSeq(list))
           /\ FlattenSeq(list) \in Seq(Parameters)
<1> DEFINE n == Len(list)
           w == TextsOf(list)
<1>1. n \in Nat /\ n >= 1 /\ \A i \in 1..n : list[i] \in Seq(Parameters)
  BY LenProperties, ElementOfSeq
<1>2. Len(w) = n /\ \A i \in 1..n : w[i] = Texts(list[i]) /\ w[i] \in Seq(Seq(Tokens))
  BY <1>1, TextsTyped DEF TextsOf
<1> HIDE DEF w, n
<1>3. PICK f : Joins(f, list, n, Parameters) /\ FlattenSeq(list) = f[n]
  <2>1. Len(list) = n
    BY DEF n
  <2> QED  BY <1>1, <2>1, FlattenIs
<1>4. PICK g : Joins(g, w, n, Seq(Tokens)) /\ FlattenSeq(w) = g[n]
  <2> DEFINE T == Seq(Tokens)
  <2>1. \A i \in 1..n : w[i] \in Seq(T)
    BY <1>2
  <2> HIDE DEF T
  <2>2. \E g : Joins(g, w, n, T) /\ FlattenSeq(w) = g[n]
    BY <1>1, <1>2, <2>1, FlattenIs
  <2> QED  BY <2>2 DEF T
<1> DEFINE wrong == {k \in 0..n : g[k] # Texts(f[k])}
<1>5. ASSUME wrong # {} PROVE FALSE
  <2>1. PICK k \in wrong : \A j \in wrong : k <= j
    <3>1. wrong \in SUBSET Nat
      BY <1>1
    <3> HIDE DEF wrong
    <3> QED  BY <1>5, <3>1, Least
  <2>2. k \in 0..n /\ g[k] # Texts(f[k])
    BY <2>1
  <2>3. k # 0
    <3>1. f[0] = <<>> /\ g[0] = <<>>
      BY <1>3, <1>4 DEF Joins
    <3>2. Texts(<<>>) = <<>>
      BY DEF Texts
    <3> QED  BY <2>2, <3>1, <3>2
  <2>4. k \in 1..n /\ k - 1 \in 0..n /\ ~(k <= k - 1)
    BY <1>1, <2>2, <2>3
  <2>5. g[k - 1] = Texts(f[k - 1])
    <3> HIDE DEF wrong
    <3>1. k - 1 \notin wrong
      BY <2>1, <2>4
    <3> QED  BY <2>4, <3>1 DEF wrong
  <2>6. f[k] = f[k - 1] \o list[k] /\ f[k - 1] \in Seq(Parameters) /\ list[k] \in Seq(Parameters)
    BY <1>1, <1>3, <2>4 DEF Joins
  <2>7. g[k] = g[k - 1] \o Texts(list[k])
    BY <1>2, <1>4, <2>4 DEF Joins
  <2> QED  BY <2>2, <2>5, <2>6, <2>7, TextsBoth
<1>6. g[n] = Texts(f[n])
  <2>1. n \in 0..n
    BY <1>1
  <2> QED  BY <1>5, <2>1
<1>7. f[n] \in Seq(Parameters)
  <2>1. n \in 0..n
    BY <1>1
  <2> QED  BY <1>3, <2>1 DEF Joins
<1> QED  BY <1>3, <1>4, <1>6, <1>7 DEF w

\* Pieces joined: a single one is what it was, and each adds its tokens.
LEMMA FlattenLong ==
    ASSUME NEW T, NEW q, NEW n \in Nat, n >= 1, Len(q) = n,
           \A k \in 1..n : q[k] \in Seq(T) /\ q[k] # <<>>
    PROVE  (n = 1 => FlattenSeq(q) = q[1]) /\ FlattenSeq(q) \in Seq(T) /\ Len(FlattenSeq(q)) >= n
<1>1. PICK f : Joins(f, q, n, T) /\ FlattenSeq(q) = f[n]
  <2>1. \A k \in 1..n : q[k] \in Seq(T)
    OBVIOUS
  <2> QED  BY <2>1, FlattenIs
<1>2. f[0] = <<>>
  BY <1>1 DEF Joins
<1>3. \A k \in 0..n : f[k] \in Seq(T)
  BY <1>1 DEF Joins
<1>4. \A k \in 1..n : f[k] = f[k - 1] \o q[k]
  BY <1>1 DEF Joins
<1>5. f[1] = q[1]
  <2>1. 1 \in 1..n /\ 1 - 1 = 0
    OBVIOUS
  <2>2. f[1] = f[0] \o q[1]
    BY <1>4, <2>1
  <2>3. q[1] \in Seq(T)
    BY <2>1
  <2>4. <<>> \o q[1] = q[1]
    BY <2>3, ConcatEmptySeq
  <2> QED  BY <1>2, <2>2, <2>4
<1>6. ASSUME NEW k \in 1..n
      PROVE  Len(f[k]) \in Nat /\ Len(f[k - 1]) \in Nat /\ Len(f[k]) >= Len(f[k - 1]) + 1
  <2> DEFINE a == f[k - 1]
             b == q[k]
  <2>1. a \in Seq(T) /\ b \in Seq(T) /\ b # <<>> /\ f[k] = a \o b
    <3>1. k - 1 \in 0..n
      OBVIOUS
    <3> QED  BY <1>3, <1>4, <3>1
  <2> HIDE DEF a, b
  <2>2. Len(a \o b) = Len(a) + Len(b)
    BY <2>1, ConcatProperties
  <2>3. Len(a) \in Nat /\ Len(b) \in Nat
    BY <2>1, LenProperties
  <2>4. Len(b) # 0
    BY <2>1, EmptySeq
  <2> QED  BY <2>1, <2>2, <2>3, <2>4 DEF a
<1> DEFINE short == {k \in 1..n : ~(Len(f[k]) >= k)}
<1>7. ASSUME short # {} PROVE FALSE
  <2>1. PICK k \in short : \A j \in short : k <= j
    <3>1. short \in SUBSET Nat
      OBVIOUS
    <3> HIDE DEF short
    <3> QED  BY <1>7, <3>1, Least
  <2>2. k \in 1..n /\ ~(Len(f[k]) >= k)
    BY <2>1
  <2>3. Len(f[k]) \in Nat /\ Len(f[k - 1]) \in Nat /\ Len(f[k]) >= Len(f[k - 1]) + 1
    BY <1>6, <2>2
  <2>4. k # 1
    BY <2>2, <2>3
  <2>5. k - 1 \in 1..n /\ ~(k <= k - 1)
    BY <2>2, <2>4
  <2>6. Len(f[k - 1]) >= k - 1
    <3> HIDE DEF short
    <3>1. k - 1 \notin short
      BY <2>1, <2>5
    <3> QED  BY <2>5, <3>1 DEF short
  <2> QED  BY <2>2, <2>3, <2>6
<1>8. Len(f[n]) >= n /\ f[n] \in Seq(T)
  <2>1. n \in 1..n /\ n \in 0..n
    OBVIOUS
  <2> QED  BY <1>3, <1>7, <2>1
<1> QED  BY <1>1, <1>5, <1>8

\* Between quotes only a text of one token is written with one token.
LEMMA EscapedTimeout ==
    ASSUME NEW text \in Seq(Tokens)
    PROVE  Escaped(text) = <<"timeout">> <=> text = <<"timeout">>
<1> DEFINE n == Len(text)
           q == [i \in 1..n |-> EscapedToken(text[i])]
           timeout == <<"timeout">>
<1>1. n \in Nat /\ DOMAIN text = 1..n
  OBVIOUS
<1>2. Escaped(text) = FlattenSeq(q) /\ Len(q) = n
  BY <1>1 DEF Escaped, EscapedToken
<1>3. timeout \in Seq(Tokens) /\ Len(timeout) = 1 /\ timeout[1] = "timeout"
  <2>1. "timeout" \in Tokens
    BY DEF Tokens
  <2> QED  BY <2>1, OneToken
<1>4. CASE n = 0
  <2>1. Escaped(text) = <<>> /\ text = <<>>
    BY <1>2, <1>4 DEF FlattenSeq
  <2> QED  BY <1>3, <2>1
<1>5. CASE n # 0
  <2>1. n >= 1 /\ 1 \in 1..n
    BY <1>1, <1>5
  <2>2. ASSUME NEW k \in 1..n
        PROVE  q[k] \in Seq(Tokens) /\ q[k] # <<>> /\ q[k] = EscapedToken(text[k])
    <3>1. text[k] \in Tokens
      BY ElementOfSeq
    <3>2. EscapedToken(text[k]) \in Seq(Tokens)
      BY <3>1, PassEscapedToken, TokenKinds
    <3>3. EscapedToken(text[k]) # <<>>
      BY DEF EscapedToken
    <3> QED  BY <3>2, <3>3
  <2>3. text[1] \in Tokens
    BY <2>1, ElementOfSeq
  <2> HIDE DEF q
  <2>4. (n = 1 => FlattenSeq(q) = q[1]) /\ FlattenSeq(q) \in Seq(Tokens) /\ Len(FlattenSeq(q)) >= n
    <3> HIDE DEF n
    <3> QED  BY <1>1, <1>2, <2>1, <2>2, FlattenLong
  <2>5. CASE n = 1
    <3>1. Escaped(text) = EscapedToken(text[1])
      BY <1>2, <2>1, <2>2, <2>4, <2>5
    <3>2. text = timeout <=> text[1] = "timeout"
      <4> HIDE DEF timeout
      <4>1. ASSUME text[1] = "timeout" PROVE text = timeout
        <5>1. \A i \in 1..Len(text) : text[i] = timeout[i]
          BY <1>3, <2>5, <4>1
        <5> QED  BY <1>3, <2>5, <5>1, SeqEqual
      <4> QED  BY <1>3, <4>1
    <3>3. EscapedToken(text[1]) = timeout <=> text[1] = "timeout"
      BY DEF EscapedToken
    <3> QED  BY <3>1, <3>2, <3>3
  <2>6. CASE n # 1
    <3> HIDE DEF timeout
    <3>1. Len(FlattenSeq(q)) # 1
      <4> DEFINE joined == FlattenSeq(q)
      <4>1. joined \in Seq(Tokens) /\ Len(joined) >= n
        BY <2>4
      <4> HIDE DEF joined, n
      <4>2. Len(joined) \in Nat
        BY <4>1, LenProperties
      <4>3. n \in Nat /\ n >= 1 /\ n # 1
        BY <1>1, <2>1, <2>6
      <4> DEFINE m == Len(joined)
      <4>4. m \in Nat /\ m >= n
        BY <4>1, <4>2
      <4> HIDE DEF m
      <4>5. m # 1
        BY <4>3, <4>4
      <4> QED  BY <4>5 DEF m, joined
    <3> QED  BY <1>2, <1>3, <2>6, <3>1 DEF timeout
  <2> QED  BY <2>5, <2>6
<1> QED  BY <1>4, <1>5

\* Quotes around a text do not make it another one.
LEMMA QuotedEqual ==
    ASSUME NEW c \in Tokens, NEW v \in Seq(Tokens), NEW w \in Seq(Tokens)
    PROVE  /\ <<c>> \o v \o <<c>> = <<c>> \o w \o <<c>> <=> v = w
           /\ Len(<<c>> \o v \o <<c>>) = Len(v) + 2
<1> DEFINE s == <<c>>
           T == Tokens
<1>1. s \in Seq(T) /\ Len(s) = 1 /\ v \in Seq(T) /\ w \in Seq(T)
  BY OneToken
<1> HIDE DEF s, T
<1>2. s \o v \in Seq(T) /\ s \o w \in Seq(T) /\ Len(s \o v) = 1 + Len(v)
  BY <1>1, ConcatProperties
<1>3. Len(s \o v \o s) = Len(v) + 2
  <2>1. Len(s \o v \o s) = Len(s \o v) + Len(s)
    BY <1>1, <1>2, ConcatProperties
  <2>2. Len(v) \in Nat
    BY LenProperties
  <2> QED  BY <1>1, <1>2, <2>1, <2>2
<1>4. ASSUME s \o v \o s = s \o w \o s PROVE v = w
  <2>1. s \o v = s \o w
    <3> DEFINE a == s \o v
               b == s \o w
    <3>1. a \in Seq(T) /\ b \in Seq(T) /\ a \o s = b \o s
      BY <1>2, <1>4
    <3> HIDE DEF a, b
    <3>2. \A S : \A x, y, z \in Seq(S) : x \o z = y \o z => x = y
      BY ConcatSimplifications
    <3>3. a = b
      BY <1>1, <3>1, <3>2, Zenon
    <3> QED  BY <3>3 DEF a, b
  <2>2. \A S : \A x, y, z \in Seq(S) : x \o y = x \o z => y = z
    BY ConcatSimplifications
  <2> QED  BY <1>1, <2>1, <2>2, Zenon
<1> QED  BY <1>3, <1>4 DEF s

\* The kind of the error that a parameter stands for.
LEMMA KindIs ==
    ASSUME NEW p \in Parameters
    PROVE  errorKind(Value(p)) = IF p.text = <<"timeout">> THEN "timeout" ELSE "other"
<1>0. "timeout" \in Tokens /\ "quote" \in Tokens
  BY DEF Tokens
<1> DEFINE c == "quote"
           u == <<"timeout">>
           quoted == <<"quote", "timeout", "quote">>
<1>1. u \in Seq(Tokens) /\ Len(u) = 1 /\ u[1] = "timeout"
  BY <1>0, OneToken
<1>2. quoted = <<c>> \o u \o <<c>> /\ Len(quoted) = 3 /\ quoted[1] = c /\ quoted \in Seq(Tokens)
  <2>1. <<c, "timeout">> = <<c>> \o u
    BY <1>0, TwoTokens
  <2>2. <<c, "timeout">> \o <<c>> = quoted
    <3> DEFINE a == <<c, "timeout">>
               b == <<c>>
               d == a \o b
    <3>1. a \in Seq(Tokens) /\ Len(a) = 2 /\ a[1] = c /\ a[2] = "timeout"
          /\ b \in Seq(Tokens) /\ Len(b) = 1 /\ b[1] = c
      BY <1>0
    <3>2. quoted \in Seq(Tokens) /\ Len(quoted) = 3
          /\ quoted[1] = c /\ quoted[2] = "timeout" /\ quoted[3] = c
      BY <1>0
    <3> HIDE DEF a, b, quoted, c
    <3>3. d \in Seq(Tokens) /\ Len(d) = Len(a) + Len(b)
          /\ \A i \in 1..(Len(a) + Len(b)) : d[i] = IF i <= Len(a) THEN a[i] ELSE b[i - Len(a)]
      BY <3>1, ConcatProperties
    <3>4. Len(d) = 3 /\ d[1] = c /\ d[2] = "timeout" /\ d[3] = c
      BY <3>1, <3>3
    <3> HIDE DEF d
    <3>5. \A i \in 1..Len(d) : d[i] = quoted[i]
      <4>1. \A i \in 1..Len(d) : i = 1 \/ i = 2 \/ i = 3
        BY <3>4
      <4> QED  BY <3>2, <3>4, <4>1
    <3>6. d = quoted
      BY <3>2, <3>3, <3>4, <3>5, SeqEqual
    <3> QED  BY <3>6 DEF d, a, b
  <2>3. Len(quoted) = 3 /\ quoted[1] = c /\ quoted \in Seq(Tokens)
    BY <1>0
  <2> QED  BY <2>1, <2>2, <2>3
<1>3. CASE p.quoted = TRUE
  <2> DEFINE v == Escaped(p.text)
  <2>1. p.text \in Seq(Tokens)
    BY <1>3 DEF Parameters
  <2>2. v \in Seq(Tokens)
    BY <2>1, EscapedIs, TokenKinds
  <2>3. v = u <=> p.text = u
    BY <2>1, EscapedTimeout
  <2>4. Value(p) = <<c>> \o v \o <<c>>
    BY <1>3 DEF Value
  <2> HIDE DEF v, u, quoted, c
  <2>5. c \in Tokens
    BY <1>0 DEF c
  <2>6. Value(p) = quoted <=> v = u
    BY <1>1, <1>2, <2>2, <2>4, <2>5, QuotedEqual
  <2>7. Value(p) # u
    <3>1. Len(Value(p)) = Len(v) + 2 /\ Len(v) \in Nat
      BY <1>1, <2>2, <2>4, <2>5, QuotedEqual, LenProperties
    <3>2. Len(u) # Len(v) + 2
      BY <1>1, <3>1
    <3> QED  BY <3>1, <3>2
  <2>8. errorKind(Value(p)) = IF Value(p) \in {u, quoted} THEN "timeout" ELSE "other"
    BY DEF errorKind, u, quoted
  <2>9. errorKind(Value(p)) = IF p.text = u THEN "timeout" ELSE "other"
    BY <2>3, <2>6, <2>7, <2>8
  <2> QED  BY <2>9 DEF u
<1>4. CASE p.quoted = FALSE
  <2> DEFINE T == Tokens \ {",", ";", "quote"}
  <2>1. p.text \in Seq(T)
    BY <1>4 DEF Parameters
  <2>2. Value(p) = p.text
    BY <1>4 DEF Value
  <2>3. c \notin T
    OBVIOUS
  <2> HIDE DEF u, quoted, c, T
  <2>4. p.text # quoted
    <3>1. SUFFICES ASSUME p.text = quoted PROVE FALSE
      OBVIOUS
    <3>2. 1 \in 1..Len(p.text)
      BY <1>2, <3>1
    <3>3. p.text[1] \in T
      BY <2>1, <3>2, ElementOfSeq
    <3> QED  BY <1>2, <2>3, <3>1, <3>3
  <2>5. errorKind(Value(p)) = IF Value(p) \in {u, quoted} THEN "timeout" ELSE "other"
    BY DEF errorKind, u, quoted
  <2>6. errorKind(Value(p)) = IF p.text = u THEN "timeout" ELSE "other"
    BY <2>2, <2>4, <2>5
  <2> QED  BY <2>6 DEF u
<1> QED  BY <1>3, <1>4 DEF Parameters

\* A parameter as it is found: its key, and what follows.
LEMMA WrittenParts ==
    ASSUME NEW p \in Parameters
    PROVE  Written(p) # <<>> /\ Head(Written(p)) = p.key /\ Tail(Written(p)) = Value(p)
<1> DEFINE s == <<p.key>>
           v == Value(p)
           w == s \o v
<1>1. Written(p) = w /\ p.key \in Tokens /\ v \in Seq(Tokens)
  BY WrittenIs, ValueTyped, TokenKinds
<1>2. s \in Seq(Tokens) /\ Len(s) = 1 /\ s[1] = p.key
  BY <1>1, OneToken
<1>3. Len(v) \in Nat
  BY <1>1, LenProperties
<1> HIDE DEF s, v
<1>4. w \in Seq(Tokens) /\ Len(w) = 1 + Len(v) /\ \A i \in 1..(1 + Len(v)) : w[i] = IF i <= 1 THEN s[i] ELSE v[i - 1]
  <2>1. w \in Seq(Tokens) /\ Len(w) = Len(s) + Len(v)
        /\ \A i \in 1..(Len(s) + Len(v)) : w[i] = IF i <= Len(s) THEN s[i] ELSE v[i - Len(s)]
    BY <1>1, <1>2, ConcatProperties
  <2> QED  BY <1>2, <2>1
<1> HIDE DEF w
<1>5. w # <<>> /\ w[1] = p.key
  BY <1>2, <1>3, <1>4
<1>6. Head(w) = p.key
  BY <1>4, <1>5
<1>7. Tail(w) \in Seq(Tokens) /\ Len(Tail(w)) = Len(v) /\ \A i \in 1..Len(v) : Tail(w)[i] = w[i + 1]
  <2>1. Len(w) - 1 = Len(v)
    BY <1>3, <1>4
  <2> QED  BY <1>4, <1>5, <2>1, HeadTailProperties
<1>8. ASSUME NEW i \in 1..Len(Tail(w)) PROVE Tail(w)[i] = v[i]
  <2>1. i \in 1..Len(v) /\ i + 1 \in 1..(1 + Len(v)) /\ ~(i + 1 <= 1) /\ i + 1 - 1 = i
    BY <1>3, <1>7
  <2> QED  BY <1>4, <1>7, <2>1
<1>9. Tail(w) = v
  BY <1>1, <1>7, <1>8, SeqEqual
<1> QED  BY <1>1, <1>5, <1>6, <1>9 DEF v

\* A header without members is one text without parameters.
LEMMA EmptyHeader ==
    LET members == splitOutsideQuotes(<<>>, ",")
    IN  FlattenSeq([i \in DOMAIN members |-> Tail(splitOutsideQuotes(members[i], ";"))]) = <<>>
<1> DEFINE e == <<>>
           p == <<e>>
           one == [i \in DOMAIN p |-> Tail(splitOutsideQuotes(p[i], ";"))]
<1>1. splitOutsideQuotes(e, ",") = p /\ splitOutsideQuotes(e, ";") = p
  <2>1. Nothing = Split(p)
    BY DEF Nothing
  <2>2. ReadOn(Nothing, e, ",") = Nothing /\ ReadOn(Nothing, e, ";") = Nothing
    BY ReadNothing
  <2> HIDE DEF p, e
  <2> QED  BY <2>1, <2>2, SplitIs
<1>2. Tail(p) = e
  BY TailOne
<1>3. DOMAIN p = 1..1 /\ p[1] = e
  OBVIOUS
<1>4. e \in Seq(Tokens) /\ e \o e = e
  OBVIOUS
<1> HIDE DEF p
<1>5. DOMAIN one = 1..1 /\ one[1] = e /\ Len(one) = 1
  <2>1. \A i \in 1..1 : i = 1
    OBVIOUS
  <2>2. one = [i \in 1..1 |-> e]
    BY <1>1, <1>2, <1>3, <2>1
  <2> HIDE DEF one, e
  <2> QED  BY <2>2
<1> HIDE DEF one, e
<1>6. FlattenSeq(one) = e
  <2>1. PICK f : Joins(f, one, 1, Tokens) /\ FlattenSeq(one) = f[1]
    <3> DEFINE n == 1
    <3>1. n \in Nat /\ n >= 1 /\ Len(one) = n
      BY <1>5
    <3>2. \A k \in 1..n : one[k] \in Seq(Tokens)
      BY <1>4, <1>5
    <3> HIDE DEF n
    <3>3. \E f : Joins(f, one, n, Tokens) /\ FlattenSeq(one) = f[n]
      BY <3>1, <3>2, FlattenIs
    <3> QED  BY <3>3 DEF n
  <2>2. f[0] = e /\ \A k \in 1..1 : f[k] = f[k - 1] \o one[k]
    BY <2>1 DEF Joins, e
  <2>3. 1 \in 1..1 /\ 1 - 1 = 0
    OBVIOUS
  <2>4. f[1] = f[0] \o one[1]
    BY <2>2, <2>3
  <2> QED  BY <1>4, <1>5, <2>1, <2>2, <2>4
<1> QED  BY <1>1, <1>6 DEF one, e

(* proxyStatusError finds in a header what the proxy reported in it: the    *)
(* first error of any member, whatever is quoted before, in or after it,    *)
(* and none if there is none.                                               *)
THEOREM ReportsAreRead ==
    ASSUME NEW list \in Seq(Seq(Parameters))
    PROVE  proxyStatusError(Render(list)) = ReportedError(list)
<1> DEFINE Found(params) ==
               LET errors == {k \in DOMAIN params : params[k] # <<>> /\ Head(params[k]) = "error="}
               IN  IF errors = {} THEN "none" ELSE errorKind(Tail(params[Min(errors)]))
           members == splitOutsideQuotes(Render(list), ",")
           found == FlattenSeq([i \in DOMAIN members |-> Tail(splitOutsideQuotes(members[i], ";"))])
<1>1. proxyStatusError(Render(list)) = Found(found)
  BY DEF proxyStatusError
<1>2. CASE Len(list) = 0
  <2>1. list = <<>>
    BY <1>2
  <2>2. Render(list) = <<>>
    <3>1. [i \in DOMAIN list |-> IF i = 1 THEN Member(list[i]) ELSE <<",">> \o Member(list[i])] = <<>>
      BY <2>1
    <3> QED  BY <3>1 DEF Render, FlattenSeq
  <2>3. found = <<>>
    BY <2>2, EmptyHeader
  <2>4. Found(found) = "none"
    <3>1. DOMAIN <<>> = {}
      OBVIOUS
    <3> HIDE DEF found
    <3>2. DOMAIN found = {}
      BY <2>3, <3>1
    <3> QED  BY <3>2
  <2>5. ReportedError(list) = "none"
    <3>1. FlattenSeq(list) = <<>>
      BY <2>1 DEF FlattenSeq
    <3> QED  BY <3>1 DEF ReportedError
  <2> HIDE DEF Found, found
  <2> QED  BY <1>1, <2>4, <2>5
<1>3. CASE Len(list) # 0
  <2>0. Len(list) \in Nat /\ Len(list) >= 1
    BY <1>3, LenProperties
  <2> DEFINE ps == FlattenSeq(list)
  <2>1. members = [i \in 1..Len(list) |-> Member(list[i])]
    BY <2>0, MembersFound
  <2>2. found = FlattenSeq(TextsOf(list))
    <3>1. [i \in DOMAIN members |-> Tail(splitOutsideQuotes(members[i], ";"))] = TextsOf(list)
      <4>1. ASSUME NEW i \in 1..Len(list)
            PROVE  Tail(splitOutsideQuotes(Member(list[i]), ";")) = Texts(list[i])
        <5>1. list[i] \in Seq(Parameters)
          BY ElementOfSeq
        <5> QED  BY <5>1, MemberIs DEF Texts
      <4> HIDE DEF members
      <4>2. DOMAIN members = 1..Len(list) /\ \A i \in 1..Len(list) : members[i] = Member(list[i])
        BY <2>1
      <4> QED  BY <4>1, <4>2 DEF TextsOf
    <3> QED  BY <3>1
  <2> HIDE DEF members, found
  <2>3. found = Texts(ps) /\ ps \in Seq(Parameters)
    BY <2>0, <2>2, TextsFlatten
  <2> HIDE DEF ps
  <2>4. /\ DOMAIN found = DOMAIN ps
        /\ \A k \in DOMAIN ps : ps[k] \in Parameters /\ found[k] = Written(ps[k])
    <3>1. DOMAIN found = 1..Len(ps) /\ DOMAIN ps = 1..Len(ps)
      BY <2>3, LenProperties DEF Texts
    <3> QED  BY <2>3, <3>1, TextsTyped, ElementOfSeq
  <2> DEFINE here == {k \in DOMAIN found : found[k] # <<>> /\ Head(found[k]) = "error="}
             there == {k \in DOMAIN ps : ps[k].key = "error="}
  <2>5. here = there
    BY <2>4, WrittenParts
  <2>6. ReportedError(list) = IF there = {} THEN "none"
             ELSE IF ps[Min(there)].text = <<"timeout">> THEN "timeout" ELSE "other"
    BY DEF ReportedError, ps
  <2>7. Found(found) = IF here = {} THEN "none" ELSE errorKind(Tail(found[Min(here)]))
    OBVIOUS
  <2>8. ASSUME there # {} PROVE Min(there) \in DOMAIN ps
    <3>1. there \in SUBSET Nat
      BY <2>3
    <3> HIDE DEF there
    <3>2. \E x \in there : \A y \in there : x <= y
      BY <2>8, <3>1, Least
    <3>3. Min(there) \in there
      BY <3>2 DEF Min
    <3> QED  BY <3>3 DEF there
  <2>9. CASE there = {}
    BY <1>1, <2>5, <2>6, <2>7, <2>9
  <2>10. CASE there # {}
    <3> DEFINE k == Min(there)
    <3>1. k \in DOMAIN ps
      BY <2>8, <2>10
    <3> HIDE DEF k, here, there, Found
    <3>2. ps[k] \in Parameters /\ found[k] = Written(ps[k])
      BY <2>4, <3>1
    <3>3. Tail(found[k]) = Value(ps[k])
      BY <3>2, WrittenParts
    <3>4. errorKind(Value(ps[k])) = IF ps[k].text = <<"timeout">> THEN "timeout" ELSE "other"
      BY <3>2, KindIs
    <3> QED  BY <1>1, <2>5, <2>6, <2>7, <2>10, <3>3, <3>4 DEF k
  <2> QED  BY <2>9, <2>10
<1> QED  BY <1>2, <1>3

-----------------------------------------------------------------------------
\* The chain of requests.

USE DEF setup, chain, result

\* The chain so far: one request for each hop, each of a URL that is on the
\* upstream or named by a server.
ChainInv ==
    /\ hop <= MaxRedirects
    /\ \A q \in sent : q.hop <= hop /\ (q.hop = hop => phase # "send")
    /\ target.origin \in named \cup {Home}
    /\ resp.location.kind = "absolute" => resp.location.url.origin \in named

\* No request leaves anything secret behind in the header of the next ones.
HeaderInv == header \cap {"Authorization", "Cookie"} = {}

\* What is known of the last response in each phase.
PhaseInv ==
    /\ unclosed = IF phase = "examine" \/ (phase = "answer" /\ outcome = "response")
                  THEN {hop} ELSE {}
    /\ phase \in {"answer", "done"} <=> outcome # "none"
    /\ phase # "done" => answer = NoAnswer /\ reply = NoReply
    /\ phase = "done" =>
          IF outcome = "response"
          THEN \/ succeeds(method, resp.status) /\ answer \in 200..304
               \/ answer \in {Silent, 502} /\ reply.header = propfindResponseHeaders
               \/ answer = errorStatus(resp.status) /\ reply.header = errorResponseHeaders
          ELSE answer \in {Silent, 502, 504} /\ reply = NoReply
    /\ reply.header \cap {"Set-Cookie", "WWW-Authenticate", "Location"} = {}
    /\ answer = 405 => reply.allow # {}

IInv == /\ TypeOK
        /\ ChainInv
        /\ HeaderInv
        /\ PhaseInv
        /\ CredentialsStayHome
        /\ HopsBounded
        /\ TargetsNamed

(* What errorStatus makes of a status is an error that says nothing of the  *)
(* credentials of webdav-mux, and never a success.                          *)
LEMMA ErrorStatusIsError ==
    ASSUME NEW code \in Int
    PROVE  errorStatus(code) \in 400..599 \ {401, 407}
  BY DEF errorStatus

(* A status that is passed on as a success is one.                          *)
LEMMA SuccessStatusIsSuccess ==
    ASSUME NEW m, NEW code \in Int, succeeds(m, code)
    PROVE  successStatus(m, code) \in 200..304
  BY DEF succeeds, successStatus

(* The next target is a URL on the upstream or named by a server.           *)
LEMMA ResolveNamed ==
    ASSUME TypeOK, ChainInv, resp.location.kind \in {"relative", "absolute"}
    PROVE  LET next == [Resolve(target, resp.location) EXCEPT !.fragment = FALSE]
           IN  next \in URL /\ next.origin \in named \cup {Home}
<1>1. resp.location.url \in URL
  <2>1. HomeURL \in URL
    BY OriginsAssumption DEF URL, HomeURL
  <2>2. CASE resp = NoResponse
    BY <2>1, <2>2 DEF NoResponse
  <2>3. CASE resp \in Responses
    <3>1. resp.location \in Locations
      BY <2>3 DEF Responses
    <3> QED
      BY <2>1, <3>1 DEF Locations
  <2> QED
    BY <2>2, <2>3 DEF TypeOK
<1>2. Resolve(target, resp.location) \in URL
  BY <1>1 DEF TypeOK, Resolve
<1>3. Resolve(target, resp.location).origin \in named \cup {Home}
  BY DEF ChainInv, Resolve
<1> QED
  BY <1>2, <1>3 DEF URL

(* A response has a status; before the first one it counts as 0.            *)
LEMMA ResponseStatus ==
    ASSUME TypeOK
    PROVE  resp.status \in Int
<1>1. CASE resp \in Responses
  <2>1. resp.status \in Statuses
    BY <1>1 DEF Responses
  <2>2. \A n \in 200..599 : n \in Int
    OBVIOUS
  <2> QED
    BY <2>1, <2>2, StatusesAssumption
<1>2. CASE resp = NoResponse
  <2>1. NoResponse.status = 0
    BY DEF NoResponse
  <2> QED
    BY <1>2, <2>1
<1> QED
  BY <1>1, <1>2 DEF TypeOK

\* What is forwarded of a client's header has nothing secret in it.
LEMMA ForwardedHarmless ==
    ASSUME NEW client \in ClientHeaders, NEW hasBody \in BOOLEAN
    PROVE  /\ Forwarded(client, hasBody) \subseteq HeaderNames
           /\ Forwarded(client, hasBody) \cap {"Authorization", "Cookie"} = {}
BY DEF Forwarded, HeaderNames, getRequestHeaders, propfindRequestHeaders

\* The invariant holds before the first request
LEMMA InitIInv == Init => IInv
<1> SUFFICES ASSUME Init PROVE IInv
  OBVIOUS
<1>0. header \subseteq HeaderNames /\ HeaderInv
  BY ForwardedHarmless DEF Init, HeaderInv
<1> USE DEF Init
<1>1. TypeOK
  <2>1. cancelled \in BOOLEAN
    OBVIOUS
  <2>2. target \in URL
    BY OriginsAssumption DEF URL, HomeURL
  <2>3. reply.allow \subseteq supportedMethods
    BY DEF NoReply
  <2> QED
    BY <1>0, <2>1, <2>2, <2>3 DEF TypeOK, NoAnswer, Silent, Outcomes
<1>2. ChainInv /\ CredentialsStayHome /\ HopsBounded /\ TargetsNamed
  BY MaxRedirectsAssumption
     DEF ChainInv, CredentialsStayHome, HopsBounded, TargetsNamed, NoResponse, HomeURL
<1>3. PhaseInv
  BY DEF PhaseInv, NoReply, NoAnswer
<1> QED
  BY <1>0, <1>1, <1>2, <1>3 DEF IInv

(* What the client is answered of a response, in each of the three ways.    *)
LEMMA AnswerKeeps ==
    IInv /\ (AnswerSuccess \/ AnswerUnrewritten \/ AnswerFailure) => TypeOK' /\ PhaseInv'
<1> SUFFICES ASSUME IInv, AnswerSuccess \/ AnswerUnrewritten \/ AnswerFailure
             PROVE  TypeOK' /\ PhaseInv'
  OBVIOUS
<1>1. /\ phase' = "done" /\ outcome' = "response" /\ unclosed' = unclosed \ {hop}
      /\ UNCHANGED <<setup, header, cancelled, chain, resp>>
  BY DEF AnswerSuccess, AnswerUnrewritten, AnswerFailure, AnswerResponse
<1>2. resp.status \in Int /\ unclosed = {hop}
  BY ResponseStatus DEF IInv, PhaseInv, AnswerSuccess, AnswerUnrewritten, AnswerFailure,
                        AnswerResponse
<1>3. errorStatus(resp.status) \in 400..599 \ {401, 407}
  BY <1>2, ErrorStatusIsError
<1>4. Responses' = Responses
  BY <1>1 DEF Responses, viaProxy
<1>a. ASSUME answer' \in {Silent} \cup 200..599, reply'.allow \subseteq supportedMethods
      PROVE  TypeOK'
  BY <1>1, <1>4, <1>a DEF IInv, TypeOK, Outcomes
<1>b. ASSUME \/ succeeds(method, resp.status) /\ answer' \in 200..304
             \/ answer' \in {Silent, 502} /\ reply'.header = propfindResponseHeaders
             \/ answer' = errorStatus(resp.status) /\ reply'.header = errorResponseHeaders,
             reply'.header \cap {"Set-Cookie", "WWW-Authenticate", "Location"} = {},
             answer' = 405 => reply'.allow # {}
      PROVE  PhaseInv'
  BY <1>1, <1>2, <1>b DEF PhaseInv
<1>5. CASE AnswerSuccess
  <2>1. succeeds(method, resp.status) /\ answer' \in 200..304
    BY <1>2, <1>5, SuccessStatusIsSuccess DEF AnswerSuccess
  <2>2. reply' = [header |-> successHeaders(method), allow |-> {}]
    BY <1>5 DEF AnswerSuccess
  <2>3. reply'.header \cap {"Set-Cookie", "WWW-Authenticate", "Location"} = {}
    BY <2>2 DEF successHeaders, propfindResponseHeaders, getResponseHeaders
  <2>4. answer' # 405 /\ reply'.allow = {}
    BY <2>1, <2>2
  <2> QED
    BY <1>a, <1>b, <2>1, <2>3, <2>4
<1>6. CASE AnswerUnrewritten
  <2>1. answer' \in {Silent, 502} /\ answer' # 405
    BY <1>6 DEF AnswerUnrewritten, Silent
  <2>2. reply' = [header |-> propfindResponseHeaders, allow |-> {}]
    BY <1>6 DEF AnswerUnrewritten
  <2>3. reply'.header \cap {"Set-Cookie", "WWW-Authenticate", "Location"} = {}
    BY <2>2 DEF propfindResponseHeaders
  <2> QED
    BY <1>a, <1>b, <2>1, <2>2, <2>3
<1>7. CASE AnswerFailure
  <2>1. answer' = errorStatus(resp.status)
    BY <1>7 DEF AnswerFailure
  <2>2. reply' = [header |-> errorResponseHeaders,
                  allow |-> IF answer' = 405 THEN filterAllow(resp.allow) ELSE {}]
    BY <1>7 DEF AnswerFailure
  <2>3. reply'.header \cap {"Set-Cookie", "WWW-Authenticate", "Location"} = {}
    BY <2>2 DEF errorResponseHeaders
  <2>4. filterAllow(resp.allow) # {} /\ filterAllow(resp.allow) \subseteq supportedMethods
    BY DEF filterAllow, supportedMethods
  <2> QED
    BY <1>3, <1>a, <1>b, <2>1, <2>2, <2>3, <2>4
<1> QED
  BY <1>5, <1>6, <1>7

\* and every step keeps it.
LEMMA StepIInv == IInv /\ [Next]_vars => IInv'
<1> SUFFICES ASSUME IInv, [Next]_vars PROVE IInv'
  OBVIOUS
<1> USE DEF IInv, viaProxy, sameOrigin
<1>0. Responses' = Responses
  <2>1. UNCHANGED setup
    BY DEF Next, Send, Receive, Fail, Examine, ProxyFailed, Deliver, RejectLocation,
           TooManyRedirects, Follow, Answer, AnswerSuccess, AnswerUnrewritten, AnswerFailure,
           AnswerResponse, AnswerError, Return, Cancel, Done, vars
  <2> QED
    BY <2>1 DEF Responses
<1>1. CASE Send
  <2> DEFINE new == [hop |-> hop, url |-> target,
                     client |-> IF viaProxy THEN "proxy"
                                ELSE IF sameOrigin THEN "upstream" ELSE "external",
                     header |-> header \cup Credentials]
  <2>1. /\ sent' = sent \cup {new} /\ header' = header /\ phase' = "wait" /\ phase = "send"
        /\ UNCHANGED <<setup, cancelled, hop, target, named, resp, unclosed, result>>
    BY <1>1 DEF Send, HeaderAfter
  <2>2. new.hop = hop /\ new.url = target
        /\ ("Authorization" \in new.header => hasAuth /\ target.origin = Home)
        /\ "Cookie" \notin new.header
    BY DEF sameOrigin, HeaderInv, Credentials
  <2>3. /\ new.client = "upstream" => target.origin = Home
        /\ new.client = "proxy" <=> viaProxy
    BY DEF sameOrigin
  <2>4. new \in Requests
    <3>1. header \cup Credentials \subseteq HeaderNames
      BY DEF TypeOK, HeaderNames, Credentials
    <3> QED
      BY <3>1 DEF TypeOK, Requests, Clients
  <2> HIDE DEF new
  <2>5. TypeOK'
    BY <1>0, <2>1, <2>4 DEF TypeOK
  <2>6. ChainInv'
    BY <2>1, <2>2 DEF ChainInv, TypeOK
  <2>7. PhaseInv' /\ HeaderInv'
    BY <2>1 DEF PhaseInv, HeaderInv
  <2>8. CredentialsStayHome'
    BY <2>1, <2>2, <2>3 DEF CredentialsStayHome
  <2>9. HopsBounded'
    BY <2>1, <2>2 DEF HopsBounded, ChainInv
  <2>10. TargetsNamed'
    BY <2>1, <2>2 DEF TargetsNamed, ChainInv
  <2> QED
    BY <2>5, <2>6, <2>7, <2>8, <2>9, <2>10
<1>2. CASE Receive
  <2>1. PICK r \in Responses :
           /\ resp' = r
           /\ named' = IF r.location.kind = "absolute"
                       THEN named \cup {r.location.url.origin} ELSE named
    BY <1>2 DEF Receive
  <2>2. r.location.url.origin \in Origins
    <3>1. r.location \in Locations
      BY DEF Responses
    <3> QED
      BY <3>1, OriginsAssumption DEF Locations, URL, HomeURL
  <2>3. TypeOK'
    BY <1>0, <1>2, <2>1, <2>2 DEF Receive, TypeOK
  <2>4. ChainInv'
    BY <1>2, <2>1 DEF Receive, ChainInv
  <2>5. PhaseInv' /\ HeaderInv'
    <3>1. outcome = "none" /\ unclosed = {} /\ answer = NoAnswer /\ reply = NoReply
      BY <1>2 DEF Receive, PhaseInv
    <3> QED
      BY <1>2, <2>1, <3>1 DEF Receive, PhaseInv, HeaderInv, NoReply, NoAnswer
  <2>6. CredentialsStayHome' /\ HopsBounded' /\ TargetsNamed'
    BY <1>2, <2>1 DEF Receive, CredentialsStayHome, HopsBounded, TargetsNamed
  <2> QED
    BY <2>3, <2>4, <2>5, <2>6
<1>3. CASE Fail
  <2>1. TypeOK'
    BY <1>0, <1>3 DEF Fail, Return, TypeOK, Outcomes
  <2>2. PhaseInv' /\ HeaderInv'
    BY <1>3 DEF Fail, Return, PhaseInv, HeaderInv
  <2>3. ChainInv' /\ CredentialsStayHome' /\ HopsBounded' /\ TargetsNamed'
    BY <1>3 DEF Fail, Return, ChainInv, CredentialsStayHome, HopsBounded, TargetsNamed
  <2> QED
    BY <2>1, <2>2, <2>3
<1>4. CASE ProxyFailed
  <2>1. TypeOK'
    BY <1>0, <1>4 DEF ProxyFailed, Return, TypeOK, Outcomes
  <2>2. PhaseInv' /\ HeaderInv'
    BY <1>4 DEF ProxyFailed, Return, PhaseInv, HeaderInv
  <2>3. ChainInv' /\ CredentialsStayHome' /\ HopsBounded' /\ TargetsNamed'
    BY <1>4 DEF ProxyFailed, Return, ChainInv, CredentialsStayHome, HopsBounded, TargetsNamed
  <2> QED
    BY <2>1, <2>2, <2>3
<1>5. CASE Deliver
  <2>1. TypeOK'
    BY <1>0, <1>5 DEF Deliver, FromTarget, Return, TypeOK, Outcomes
  <2>2. PhaseInv' /\ HeaderInv'
    BY <1>5 DEF Deliver, FromTarget, Return, PhaseInv, HeaderInv
  <2>3. ChainInv' /\ CredentialsStayHome' /\ HopsBounded' /\ TargetsNamed'
    BY <1>5 DEF Deliver, FromTarget, Return, ChainInv, CredentialsStayHome, HopsBounded, TargetsNamed
  <2> QED
    BY <2>1, <2>2, <2>3
<1>6. CASE RejectLocation
  <2>1. TypeOK'
    BY <1>0, <1>6 DEF RejectLocation, FromTarget, Return, TypeOK, Outcomes
  <2>2. PhaseInv' /\ HeaderInv'
    BY <1>6 DEF RejectLocation, FromTarget, Return, PhaseInv, HeaderInv
  <2>3. ChainInv' /\ CredentialsStayHome' /\ HopsBounded' /\ TargetsNamed'
    BY <1>6 DEF RejectLocation, FromTarget, Return, ChainInv, CredentialsStayHome, HopsBounded, TargetsNamed
  <2> QED
    BY <2>1, <2>2, <2>3
<1>7. CASE TooManyRedirects
  <2>1. TypeOK'
    BY <1>0, <1>7 DEF TooManyRedirects, Followed, FromTarget, Return, TypeOK, Outcomes
  <2>2. PhaseInv' /\ HeaderInv'
    BY <1>7 DEF TooManyRedirects, Followed, FromTarget, Return, PhaseInv, HeaderInv
  <2>3. ChainInv' /\ CredentialsStayHome' /\ HopsBounded' /\ TargetsNamed'
    BY <1>7 DEF TooManyRedirects, Followed, FromTarget, Return, ChainInv, CredentialsStayHome, HopsBounded, TargetsNamed
  <2> QED
    BY <2>1, <2>2, <2>3
<1>8. CASE Follow
  <2>1. target' \in URL /\ target'.origin \in named \cup {Home}
    BY <1>8, ResolveNamed DEF Follow, Followed
  <2>2. TypeOK'
    BY <1>0, <1>8, <2>1 DEF Follow, TypeOK, NextHop, Drained
  <2>3. ChainInv'
    BY <1>8, <2>1, MaxRedirectsAssumption
    DEF Follow, ChainInv, TypeOK, Requests, NextHop, NoResponse
  <2>4. PhaseInv' /\ HeaderInv'
    BY <1>8 DEF Follow, Followed, FromTarget, PhaseInv, HeaderInv, Drained
  <2>5. CredentialsStayHome' /\ HopsBounded' /\ TargetsNamed'
    BY <1>8 DEF Follow, CredentialsStayHome, HopsBounded, TargetsNamed
  <2> QED
    BY <2>2, <2>3, <2>4, <2>5
<1>9. CASE AnswerSuccess \/ AnswerUnrewritten \/ AnswerFailure
  <2>1. TypeOK' /\ PhaseInv'
    BY <1>9, AnswerKeeps
  <2>2. UNCHANGED <<setup, header, chain, resp>> /\ phase' = "done"
    BY <1>9 DEF AnswerSuccess, AnswerUnrewritten, AnswerFailure, AnswerResponse
  <2>3. ChainInv' /\ HeaderInv' /\ CredentialsStayHome' /\ HopsBounded' /\ TargetsNamed'
    BY <2>2 DEF ChainInv, HeaderInv, CredentialsStayHome, HopsBounded, TargetsNamed
  <2> QED
    BY <2>1, <2>3
<1>10. CASE AnswerError
  <2>1. TypeOK'
    BY <1>0, <1>10 DEF AnswerError, Silent, NoReply, TypeOK, Outcomes
  <2>2. PhaseInv' /\ HeaderInv'
    BY <1>10 DEF AnswerError, Silent, NoReply, PhaseInv, HeaderInv
  <2>3. ChainInv' /\ CredentialsStayHome' /\ HopsBounded' /\ TargetsNamed'
    BY <1>10 DEF AnswerError, Silent, NoReply, ChainInv, CredentialsStayHome, HopsBounded, TargetsNamed
  <2> QED
    BY <2>1, <2>2, <2>3
<1>11. CASE Cancel
  <2>1. cancelled' \in BOOLEAN
    BY <1>11 DEF Cancel
  <2> QED
    BY <1>0, <1>11, <2>1
       DEF Cancel, TypeOK, ChainInv, HeaderInv, PhaseInv, CredentialsStayHome,
           HopsBounded, TargetsNamed
<1>12. CASE UNCHANGED vars
  BY <1>0, <1>12
     DEF vars, TypeOK, ChainInv, HeaderInv, PhaseInv, CredentialsStayHome, HopsBounded,
         TargetsNamed
<1> QED
  BY <1>1, <1>2, <1>3, <1>4, <1>5, <1>6, <1>7, <1>8, <1>9, <1>10, <1>11, <1>12
     DEF Next, Examine, Answer, Done

\* So it always holds.
THEOREM Inductive == Spec => []IInv
  BY InitIInv, StepIInv, PTL DEF Spec

(* The variables keep their types.                                          *)
THEOREM TypeCorrect == Spec => []TypeOK
<1>1. IInv => TypeOK
  BY DEF IInv
<1> QED
  BY <1>1, Inductive, PTL

(* Whatever chain of redirects the servers make, the credentials and the    *)
(* client of the upstream are used for its own origin only.                 *)
THEOREM CredentialsConfined == Spec => []CredentialsStayHome
<1>1. IInv => CredentialsStayHome
  BY DEF IInv
<1> QED
  BY <1>1, Inductive, PTL

(* At most MaxRedirects + 1 requests are made, one for each hop.            *)
THEOREM ChainBounded == Spec => []HopsBounded
<1>1. IInv => HopsBounded
  BY DEF IInv
<1> QED
  BY <1>1, Inductive, PTL

(* Targets come from the configuration or from a Location of a server.      *)
THEOREM TargetsJustified == Spec => []TargetsNamed
<1>1. IInv => TargetsNamed
  BY DEF IInv
<1> QED
  BY <1>1, Inductive, PTL

(* An error of the proxy, as proxyStatusError reads it, ends the chain, also *)
(* if its status and Location are those of a redirect.                      *)
THEOREM ProxyErrorsContained == Spec => [][ErrorEndsChain]_vars
<1>1. IInv /\ [Next]_vars => [ErrorEndsChain]_vars
  <2> SUFFICES ASSUME IInv, [Next]_vars, UNCHANGED vars => FALSE,
                      phase = "examine", viaProxy, Reported # "none"
               PROVE  /\ phase' \in {"examine", "answer"}
                      /\ outcome' \in {"none", "proxyTimeout", "proxyOther"}
    BY DEF ErrorEndsChain
  <2>1. outcome = "none"
    BY DEF IInv, PhaseInv
  <2>2. ProxyFailed \/ Cancel
    BY DEF Next, Send, Receive, Fail, Examine, Deliver, RejectLocation, TooManyRedirects,
           Follow, Followed, FromTarget, Answer, AnswerSuccess, AnswerUnrewritten,
           AnswerFailure, AnswerResponse, AnswerError, Done
  <2> QED
    BY <2>1, <2>2 DEF ProxyFailed, Cancel, Return
<1> QED
  BY <1>1, Inductive, PTL DEF Spec

(* What the proxy reported of itself, as RFC 9209 means it, is what         *)
(* roundTrip returned, and what it returned of the proxy is an answer of    *)
(* its own.                                                                 *)
ReportInv ==
    LET error == ReportedError(resp.proxyStatus)
    IN  /\ phase \in {"send", "wait"} => resp = NoResponse
        /\ phase = "examine" => resp \in Responses
        /\ viaProxy /\ phase \in {"answer", "done"} =>
              /\ outcome = "proxyTimeout" <=> error = "timeout"
              /\ outcome = "proxyOther" <=> error = "other"
        /\ phase = "done" =>
              /\ outcome = "proxyTimeout" => answer \in {Silent, 504}
              /\ outcome = "proxyOther" => answer \in {Silent, 502}

(* roundTrip reads in a response what the proxy reported.                   *)
LEMMA ReadAsReported ==
    ASSUME viaProxy, resp \in Responses
    PROVE  Reported = ReportedError(resp.proxyStatus)
<1>1. resp.proxyStatus \in ProxyStatuses
  BY DEF Responses
<1>2. resp.proxyStatus \in Seq(Seq(Parameters))
  BY <1>1, ProxyStatusesAssumption
<1>3. Reported = proxyStatusError(Render(resp.proxyStatus))
  BY <1>1 DEF Reported, ReadAs
<1> QED  BY <1>2, <1>3, ReportsAreRead

(* There are three kinds of reports, and no response reports nothing.       *)
LEMMA ReportKinds ==
    /\ \A list : ReportedError(list) \in {"none", "timeout", "other"}
    /\ ReportedError(NoResponse.proxyStatus) = "none"
<1>1. \A list : ReportedError(list) \in {"none", "timeout", "other"}
  BY DEF ReportedError
<1>2. FlattenSeq(<<>>) = <<>>
  BY DEF FlattenSeq
<1>3. ReportedError(<<>>) = "none"
  <2>1. {k \in DOMAIN <<>> : <<>>[k].key = "error="} = {}
    OBVIOUS
  <2> QED  BY <1>2, <2>1 DEF ReportedError
<1>4. NoResponse.proxyStatus = <<>>
  BY DEF NoResponse
<1> QED  BY <1>1, <1>3, <1>4

\* This holds before the first request
LEMMA InitReport == Init => ReportInv
BY DEF Init, ReportInv

\* and every step keeps it.
LEMMA StepReport == IInv /\ ReportInv /\ [Next]_vars => ReportInv'
<1> SUFFICES ASSUME IInv, ReportInv, [Next]_vars PROVE ReportInv'
  OBVIOUS
<1> DEFINE error == ReportedError(resp.proxyStatus)
<1>0. Responses' = Responses /\ (viaProxy' <=> viaProxy)
  <2>1. UNCHANGED setup
    BY DEF Next, Send, Receive, Fail, Examine, ProxyFailed, Deliver, RejectLocation,
           TooManyRedirects, Follow, Answer, AnswerSuccess, AnswerUnrewritten, AnswerFailure,
           AnswerResponse, AnswerError, Return, Cancel, Done, vars
  <2> QED  BY <2>1 DEF Responses, viaProxy
<1>1. error \in {"none", "timeout", "other"} /\ ReportedError(NoResponse.proxyStatus) = "none"
  BY ReportKinds
<1>2. CASE Send
  BY <1>0, <1>2 DEF Send, ReportInv
<1>3. CASE Receive
  BY <1>0, <1>3 DEF Receive, ReportInv
<1>4. CASE Fail
  <2>1. resp = NoResponse /\ resp' = resp /\ phase' = "answer"
        /\ outcome' \in {"timeoutError", "otherError"}
    BY <1>4 DEF Fail, Return, ReportInv
  <2> QED  BY <1>1, <2>1 DEF ReportInv
<1>5. CASE ProxyFailed
  <2>1. Reported = error
    BY <1>5, ReadAsReported DEF ProxyFailed, ReportInv
  <2>2. error # "none" /\ resp' = resp /\ phase' = "answer"
        /\ outcome' = IF error = "timeout" THEN "proxyTimeout" ELSE "proxyOther"
    BY <1>5, <2>1 DEF ProxyFailed, Return
  <2> HIDE DEF error
  <2> QED  BY <1>1, <2>2 DEF ReportInv, error
<1>6. CASE Deliver \/ RejectLocation \/ TooManyRedirects
  <2>1. FromTarget /\ resp' = resp /\ phase' = "answer" /\ outcome' \in {"response", "otherError"}
    BY <1>6 DEF Deliver, RejectLocation, TooManyRedirects, Followed, Return
  <2>2. viaProxy => error = "none"
    BY <2>1, ReadAsReported DEF FromTarget, ReportInv
  <2> QED  BY <1>0, <2>1, <2>2 DEF ReportInv
<1>7. CASE Follow
  BY <1>7 DEF Follow, ReportInv
<1>8. CASE AnswerSuccess \/ AnswerUnrewritten \/ AnswerFailure
  <2>1. phase = "answer" /\ outcome = "response" /\ phase' = "done" /\ UNCHANGED <<outcome, resp>>
    BY <1>8 DEF AnswerSuccess, AnswerUnrewritten, AnswerFailure, AnswerResponse
  <2> QED  BY <1>0, <2>1 DEF ReportInv
<1>9. CASE AnswerError
  <2>1. /\ phase = "answer" /\ phase' = "done" /\ UNCHANGED <<outcome, resp>>
        /\ outcome = "proxyTimeout" => answer' \in {Silent, 504}
        /\ outcome = "proxyOther" => answer' \in {Silent, 502}
    BY <1>9 DEF AnswerError
  <2> QED  BY <1>0, <2>1 DEF ReportInv
<1>10. CASE Cancel \/ UNCHANGED vars
  <2>1. UNCHANGED <<phase, resp, outcome, answer>>
    BY <1>10 DEF Cancel, vars
  <2> QED  BY <1>0, <2>1 DEF ReportInv
<1> QED
  BY <1>2, <1>3, <1>4, <1>5, <1>6, <1>7, <1>8, <1>9, <1>10 DEF Next, Examine, Answer, Done

(* An error that the proxy reports of itself, however quoted strings around *)
(* it contain separators, ends the chain and is answered as the proxy's     *)
(* own; and nothing else is.                                                *)
THEOREM ProxyErrorsStay == Spec => ProxyErrorsStayOurs
<1>1. ReportInv =>
        (viaProxy /\ phase = "done" =>
            CASE ReportedError(resp.proxyStatus) = "timeout" -> answer \in {Silent, 504}
              [] ReportedError(resp.proxyStatus) = "other" -> answer \in {Silent, 502}
              [] OTHER -> outcome \notin {"proxyTimeout", "proxyOther"})
  BY DEF ReportInv
<1>2. Spec => []ReportInv
  BY InitReport, StepReport, Inductive, PTL DEF Spec
<1> QED
  BY <1>1, <1>2, ProxyErrorsContained, PTL DEF ProxyErrorsStayOurs

(* The client sees neither a redirect nor the challenge of another server,  *)
(* a success only if the target succeeded, and what describes a body only   *)
(* with it.                                                                 *)
THEOREM AnswersSound == Spec => []AnswersForClient
<1>1. ASSUME IInv PROVE AnswersForClient
  <2> DEFINE describing == {"Content-Length", "Content-Encoding", "ETag"}
  <2>1. errorStatus(resp.status) \in 400..599 \ {401, 407}
    BY <1>1, ResponseStatus, ErrorStatusIsError DEF IInv
  <2>2. errorResponseHeaders \cap describing = {} /\ propfindResponseHeaders \cap describing = {}
        /\ NoReply.header \cap describing = {}
    BY DEF errorResponseHeaders, propfindResponseHeaders, NoReply
  <2>3. /\ reply.header \cap {"Set-Cookie", "WWW-Authenticate", "Location"} = {}
        /\ answer = 405 => reply.allow # {}
    BY <1>1 DEF IInv, PhaseInv
  <2>4. \/ /\ answer \in {NoAnswer, Silent, 502, 504, errorStatus(resp.status)}
           /\ reply.header \cap describing = {}
        \/ outcome = "response" /\ succeeds(method, resp.status) /\ answer \in 200..304
    BY <1>1, <2>2 DEF IInv, PhaseInv
  <2> QED
    BY <2>1, <2>3, <2>4 DEF AnswersForClient, NoAnswer, Silent
<1> QED
  BY <1>1, Inductive, PTL

(* No body of the chain stays open.                                         *)
THEOREM NoBodyLeaks == Spec => []BodiesClosed
<1>1. IInv => BodiesClosed
  BY DEF IInv, PhaseInv, BodiesClosed
<1> QED
  BY <1>1, Inductive, PTL
=============================================================================
