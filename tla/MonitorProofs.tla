--------------------------- MODULE MonitorProofs ---------------------------
(***************************************************************************)
(* Proofs about Monitor, for every set of chunks and command lines and     *)
(* every bound: the type invariant, with the bound of a context's copy of  *)
(* the frame, that a recording lacks only the chunks whose write failed    *)
(* when main returns, that a direction shows what its own bytes show, that *)
(* every chunk of a session and every entry of a replay is shown, and that *)
(* a replay shows what the session it was recorded in showed.              *)
(*                                                                         *)
(* None is inductive.  Of the first two, that a replay never reads past    *)
(* the end of what it replays, and that what was closed is what was        *)
(* written, depend on which steps of which process can still happen:       *)
(* Life says so.  The third needs what a decoder keeps of the frame it is  *)
(* in (Hears), and that the calls a frame makes only grow with its bytes.  *)
(* The fourth needs what a process has taken in hand and not fed (Takes).  *)
(* The fifth needs that what a process prints is a function of what it has *)
(* been fed (Play), and how far each of the two processes has been fed     *)
(* (Plays).                                                                *)
(***************************************************************************)
EXTENDS Monitor, SequenceTheorems, WellFoundedInduction, TLAPS

-----------------------------------------------------------------------------
(* Induction, and the recursive functions the model uses *)

\* A set of numbers that is not empty has a least one.
LEMMA Least ==
    ASSUME NEW T, T \subseteq Nat, T # {}
    PROVE  \E x \in T : \A y \in T : x <= y
<1> DEFINE R == {p \in Nat \X Nat : p[1] < p[2]}
<1>1. IsWellFoundedOn(R, Nat)
  BY NatLessThanWellFounded DEF OpToRel
<1>2. \A x, y \in Nat : x < y => <<x, y>> \in R
  OBVIOUS
<1> HIDE DEF R
<1>3. PICK x \in T : \A y \in T : ~ (<<y, x>> \in R)
  BY <1>1, WFMin
<1>4. \A y \in T : ~ (y < x)
  BY <1>2, <1>3
<1> QED
  BY <1>4

\* Induction: a set that holds 0, and one more than each of its numbers, holds
\* all of them.
LEMMA Induct ==
    ASSUME NEW T, 0 \in T, \A n \in Nat : n \in T => n + 1 \in T
    PROVE  \A n \in Nat : n \in T
<1> SUFFICES ASSUME Nat \ T # {} PROVE FALSE
  OBVIOUS
<1>1. PICK x \in Nat \ T : \A y \in Nat \ T : x <= y
  BY Least
<1>2. x # 0 /\ x - 1 \in Nat \ T
  BY <1>1
<1> QED
  BY <1>1, <1>2

\* A value made of another, N times over: each link makes one of the one before.
Links(G, N, V) == G \in [1 .. N -> [V -> V]]

\* h[n] is the value after n links.
Chain(h, G, N, V, a) ==
    h \in [0 .. N -> V] /\ h[0] = a /\ \A k \in 1 .. N : h[k] = G[k][h[k - 1]]

\* There is such a value: a recursive function on 0 .. N is one.
LEMMA Recursion ==
    ASSUME NEW V, NEW a \in V, NEW N \in Nat, NEW G, Links(G, N, V)
    PROVE  \E h : Chain(h, G, N, V, a)
<1> DEFINE Good(n) == \E h \in [0 .. n -> V] :
              /\ h[0] = a
              /\ \A k \in 1 .. n : h[k] = G[k][h[k - 1]]
           T == {n \in Nat : n <= N => Good(n)}
<1>1. 0 \in T
  <2> DEFINE g == [k \in 0 .. 0 |-> a]
  <2>1. g \in [0 .. 0 -> V] /\ g[0] = a /\ \A k \in 1 .. 0 : g[k] = G[k][g[k - 1]]
    OBVIOUS
  <2> HIDE DEF g
  <2>2. Good(0)
    BY <2>1
  <2> QED
    BY <2>2
<1>2. ASSUME NEW n \in Nat, n \in T PROVE n + 1 \in T
  <2> SUFFICES ASSUME n + 1 <= N PROVE Good(n + 1)
    OBVIOUS
  <2>1. PICK h \in [0 .. n -> V] : h[0] = a /\ \A k \in 1 .. n : h[k] = G[k][h[k - 1]]
    BY <1>2
  <2>g. G \in [1 .. N -> [V -> V]]
    BY DEF Links
  <2> DEFINE g == [k \in 0 .. n + 1 |-> IF k <= n THEN h[k] ELSE G[n + 1][h[n]]]
  <2>2. G[n + 1][h[n]] \in V
    <3>1. G[n + 1] \in [V -> V] /\ h[n] \in V
      BY <2>g
    <3> QED
      BY <3>1
  <2>3. g \in [0 .. n + 1 -> V]
    BY <2>2
  <2>4. g[0] = a /\ \A k \in 1 .. n + 1 : g[k] = G[k][g[k - 1]]
    <3>1. /\ \A k \in 0 .. n : g[k] = h[k]
          /\ g[n + 1] = G[n + 1][h[n]]
      OBVIOUS
    <3> HIDE DEF g
    <3>2. g[0] = a
      BY <2>1, <3>1
    <3>3. ASSUME NEW k \in 1 .. n + 1 PROVE g[k] = G[k][g[k - 1]]
      <4>1. k - 1 \in 0 .. n /\ g[k - 1] = h[k - 1]
        BY <3>1
      <4>2. CASE k \in 1 .. n
        BY <2>1, <3>1, <4>1, <4>2
      <4>3. CASE k = n + 1
        BY <3>1, <4>1, <4>3
      <4> QED
        BY <4>2, <4>3
    <3> QED
      BY <3>2, <3>3
  <2> QED
    BY <2>3, <2>4
<1> HIDE DEF T
<1>3. N \in T
  BY <1>1, <1>2, Induct
<1>4. \E h \in [0 .. N -> V] : h[0] = a /\ \A k \in 1 .. N : h[k] = G[k][h[k - 1]]
  BY <1>3 DEF T
<1> QED
  BY <1>4 DEF Chain

-----------------------------------------------------------------------------
(* Sequences glued together *)

\* f[i] holds the first i of the parts, one after the other.
Gluing(f, parts) ==
    [i \in 1 .. Len(parts) |-> IF i = 1 THEN parts[i] ELSE f[i - 1] \o parts[i]]

\* There is such a function, and FlattenSeq is its last value.
LEMMA FlattenByGluing ==
    ASSUME NEW S, NEW parts \in Seq(Seq(S)), Len(parts) # 0
    PROVE  \E f : /\ f[1] = parts[1]
                  /\ \A i \in 2 .. Len(parts) : f[i] = f[i - 1] \o parts[i]
                  /\ FlattenSeq(parts) = f[Len(parts)]
<1> DEFINE N == Len(parts)
           V == Seq(S)
           G == [k \in 1 .. N |-> [v \in V |-> v \o parts[k]]]
<1>1. N \in Nat /\ N # 0 /\ << >> \in V /\ \A k \in 1 .. N : parts[k] \in V
  BY ElementOfSeq
<1>2. Links(G, N, V)
  <2>1. \A k \in 1 .. N, v \in V : v \o parts[k] \in V
    BY <1>1
  <2> HIDE DEF N, V
  <2> QED
    BY <2>1 DEF Links
<1>3. \A k \in 1 .. N, v \in V : G[k][v] = v \o parts[k]
  OBVIOUS
<1> HIDE DEF G
<1>4. PICK h : Chain(h, G, N, V, << >>)
  <2> HIDE DEF N, V
  <2> QED
    BY <1>1, <1>2, Recursion
<1>5. h \in [0 .. N -> V] /\ h[0] = << >> /\ \A k \in 1 .. N : h[k] = G[k][h[k - 1]]
  BY <1>4 DEF Chain
<1>v. \A k \in 1 .. N : h[k - 1] \in V
  <2>1. \A k \in 1 .. N : k - 1 \in 0 .. N
    BY <1>1
  <2>2. h \in [0 .. N -> V]
    BY <1>5
  <2> HIDE DEF V, N
  <2> QED
    BY <2>1, <2>2
<1>6. \A k \in 1 .. N : h[k] = h[k - 1] \o parts[k]
  BY <1>3, <1>5, <1>v
<1>7. h[1] = parts[1]
  <2>1. 1 \in 1 .. N /\ 1 - 1 = 0
    BY <1>1
  <2>2. h[1] = << >> \o parts[1]
    BY <1>5, <1>6, <2>1
  <2> QED
    BY <1>1, <2>1, <2>2
<1> DEFINE g == [i \in 1 .. N |-> h[i]]
<1>8. g = Gluing(g, parts)
  <2>1. \A i \in 1 .. N : g[i] = IF i = 1 THEN parts[i] ELSE g[i - 1] \o parts[i]
    <3> TAKE i \in 1 .. N
    <3>1. CASE i = 1
      BY <1>7, <3>1
    <3>2. CASE i # 1
      <4>1. i - 1 \in 1 .. N
        BY <1>1, <3>2
      <4> QED
        BY <1>6, <3>2, <4>1
    <3> QED
      BY <3>1, <3>2
  <2>2. g = [i \in 1 .. N |-> g[i]]
    OBVIOUS
  <2> HIDE DEF g, V
  <2> QED
    BY <2>1, <2>2 DEF Gluing
<1> DEFINE f == CHOOSE x : x = Gluing(x, parts)
<1>9. f = Gluing(f, parts)
  <2> HIDE DEF g
  <2> QED
    BY <1>8
<1>10. FlattenSeq(parts) = f[N]
  BY <1>1 DEF FlattenSeq, Gluing
<1> HIDE DEF f
<1>11. f[1] = parts[1] /\ \A i \in 2 .. N : f[i] = f[i - 1] \o parts[i]
  <2>1. 1 \in 1 .. N /\ \A i \in 2 .. N : i \in 1 .. N /\ i # 1
    BY <1>1
  <2> QED
    BY <1>9, <2>1 DEF Gluing
<1> QED
  BY <1>10, <1>11

\* Nothing glued is nothing; one part more is glued to the end.
LEMMA FlattenOneMore ==
    ASSUME NEW S, NEW parts \in Seq(Seq(S)), NEW x \in Seq(S)
    PROVE  /\ FlattenSeq(<< >>) = << >>
           /\ FlattenSeq(parts) \in Seq(S)
           /\ FlattenSeq(Append(parts, x)) = FlattenSeq(parts) \o x
<1> DEFINE n == Len(parts)
           more == Append(parts, x)
<1>1. /\ n \in Nat /\ more \in Seq(Seq(S)) /\ Len(more) = n + 1 /\ more[n + 1] = x
      /\ \A i \in 1 .. n : more[i] = parts[i] /\ parts[i] \in Seq(S)
      /\ << >> \in Seq(S) /\ << >> \o x = x
  BY ElementOfSeq
<1>2. FlattenSeq(<< >>) = << >>
  <2> DEFINE e == << >>
  <2>1. Len(e) = 0
    OBVIOUS
  <2> HIDE DEF e
  <2>2. FlattenSeq(e) = e
    BY <2>1 DEF FlattenSeq
  <2> QED
    BY <2>2 DEF e
<1> HIDE DEF more
<1>3. PICK g : /\ g[1] = more[1]
               /\ \A i \in 2 .. n + 1 : g[i] = g[i - 1] \o more[i]
               /\ FlattenSeq(more) = g[n + 1]
  <2>1. Len(more) # 0
    BY <1>1
  <2> QED
    BY <1>1, <2>1, FlattenByGluing
<1>4. CASE n = 0
  <2>1. parts = << >>
    BY <1>4
  <2>2. FlattenSeq(parts) = << >>
    BY <1>2, <2>1
  <2>3. FlattenSeq(more) = x
    BY <1>1, <1>3, <1>4
  <2> QED
    BY <1>1, <1>2, <2>2, <2>3 DEF more
<1>5. CASE n # 0
  <2>1. PICK f : /\ f[1] = parts[1]
                 /\ \A i \in 2 .. n : f[i] = f[i - 1] \o parts[i]
                 /\ FlattenSeq(parts) = f[n]
    BY <1>5, FlattenByGluing
  <2> DEFINE T == {k \in Nat : k < n => f[k + 1] \in Seq(S) /\ f[k + 1] = g[k + 1]}
  <2>2. 0 \in T
    BY <1>1, <1>3, <1>5, <2>1
  <2>3. ASSUME NEW k \in Nat, k \in T PROVE k + 1 \in T
    <3> SUFFICES ASSUME k + 1 < n PROVE f[(k + 1) + 1] \in Seq(S) /\ f[(k + 1) + 1] = g[(k + 1) + 1]
      OBVIOUS
    <3> DEFINE i == (k + 1) + 1
    <3>1. i \in 2 .. n /\ i \in 1 .. n /\ i \in 2 .. n + 1 /\ i - 1 = k + 1 /\ k < n
      BY <1>1
    <3>2. f[k + 1] \in Seq(S) /\ f[k + 1] = g[k + 1]
      BY <2>3, <3>1
    <3> HIDE DEF i
    <3>3. f[i] = f[k + 1] \o parts[i] /\ g[i] = g[k + 1] \o parts[i] /\ parts[i] \in Seq(S)
      BY <1>1, <1>3, <2>1, <3>1
    <3>4. f[i] \in Seq(S) /\ f[i] = g[i]
      BY <3>2, <3>3
    <3> QED
      BY <3>4 DEF i
  <2> HIDE DEF T
  <2>4. n - 1 \in T
    <3>1. n - 1 \in Nat
      BY <1>1, <1>5
    <3>2. \A k \in Nat : k \in T
      BY <2>2, <2>3, Induct
    <3> QED
      BY <3>1, <3>2
  <2>5. f[n] \in Seq(S) /\ f[n] = g[n]
    <3>1. n - 1 \in Nat /\ n - 1 < n /\ (n - 1) + 1 = n
      BY <1>1, <1>5
    <3> QED
      BY <2>4, <3>1 DEF T
  <2>6. g[n + 1] = g[n] \o x
    <3>1. n + 1 \in 2 .. n + 1 /\ (n + 1) - 1 = n
      BY <1>1, <1>5
    <3> QED
      BY <1>1, <1>3, <3>1
  <2> QED
    BY <1>2, <1>3, <2>1, <2>5, <2>6 DEF more
<1> QED
  BY <1>4, <1>5

\* The parts of Without: a chunk, or nothing for one of the numbers.
Kept(chunks, numbers) ==
    [n \in 1 .. Len(chunks) |-> IF n \in numbers THEN << >> ELSE << chunks[n] >>]

\* Of no chunks, none is left.
LEMMA WithoutNothing == Without(<< >>, {}) = << >>
<1>1. FlattenSeq(<< >>) = << >>
  <2> DEFINE e == << >>
  <2>1. e \in Seq(Seq({0})) /\ e \in Seq({0})
    OBVIOUS
  <2> HIDE DEF e
  <2> QED
    BY <2>1, FlattenOneMore
<1>2. Kept(<< >>, {}) = << >>
  BY DEF Kept
<1> QED
  BY <1>1, <1>2 DEF Without, Kept

\* Each part is a sequence of chunks.
LEMMA KeptType ==
    ASSUME NEW S, NEW chunks \in Seq(S), NEW numbers
    PROVE  Kept(chunks, numbers) \in Seq(Seq(S))
<1> DEFINE n == Len(chunks)
           v(i) == IF i \in numbers THEN << >> ELSE << chunks[i] >>
           V == Seq(S)
<1>1. n \in Nat /\ << >> \in V /\ \A i \in 1 .. n : chunks[i] \in S
  BY ElementOfSeq
<1>2. \A i \in 1 .. n : v(i) \in V
  <2> TAKE i \in 1 .. n
  <2>1. << chunks[i] >> \in Seq(S)
    BY <1>1
  <2> QED
    BY <1>1, <2>1
<1>3. Kept(chunks, numbers) = [i \in 1 .. n |-> v(i)]
  BY DEF Kept
<1> HIDE DEF n, v, V
<1>4. Kept(chunks, numbers) \in Seq(V)
  BY <1>1, <1>2, <1>3
<1> QED
  BY <1>4 DEF V

\* One part more for one chunk more.
LEMMA KeptOneMore ==
    ASSUME NEW S, NEW chunks \in Seq(S), NEW x \in S,
           NEW numbers, NEW more,
           \A i \in 1 .. Len(chunks) : i \in more <=> i \in numbers,
           NEW y, y = IF Len(chunks) + 1 \in more THEN << >> ELSE << x >>
    PROVE  Kept(Append(chunks, x), more) = Append(Kept(chunks, numbers), y)
<1> DEFINE n == Len(chunks)
           long == Append(chunks, x)
           parts == Kept(chunks, numbers)
           v(i) == IF i \in numbers THEN << >> ELSE << chunks[i] >>
           V == Seq(S)
<1>1. /\ n \in Nat /\ Len(long) = n + 1 /\ long[n + 1] = x
      /\ \A i \in 1 .. n : long[i] = chunks[i] /\ chunks[i] \in S
      /\ << >> \in V /\ << x >> \in V
  BY ElementOfSeq
<1>2. parts \in Seq(V)
  BY KeptType
<1>3. parts = [i \in 1 .. n |-> v(i)]
  BY DEF Kept
<1>4. Kept(long, more) = [i \in 1 .. n + 1 |-> IF i = n + 1 THEN y ELSE v(i)]
  <2>1. Kept(long, more) =
           [i \in 1 .. n + 1 |-> IF i \in more THEN << >> ELSE << long[i] >>]
    <3> HIDE DEF long
    <3> QED
      BY <1>1 DEF Kept
  <2>2. \A i \in 1 .. n + 1 : (IF i \in more THEN << >> ELSE << long[i] >>)
                                = IF i = n + 1 THEN y ELSE v(i)
    <3> TAKE i \in 1 .. n + 1
    <3>1. CASE i = n + 1
      BY <1>1, <3>1
    <3>2. CASE i # n + 1
      <4>1. i \in 1 .. n /\ long[i] = chunks[i] /\ (i \in more <=> i \in numbers)
        BY <1>1, <3>2
      <4> HIDE DEF long
      <4> QED
        BY <3>2, <4>1
    <3> QED
      BY <3>1, <3>2
  <2> HIDE DEF long, v, n
  <2> QED
    BY <2>1, <2>2
<1>5. y \in V
  BY <1>1
<1> HIDE DEF n, parts, v, V, long
<1>6. parts \in Seq(V) /\ Len(parts) = n
  BY <1>1, <1>2, <1>3
<1> DEFINE a == Append(parts, y)
<1>7. a \in Seq(V) /\ Len(a) = n + 1
  BY <1>5, <1>6
<1>8. \A i \in 1 .. n + 1 : a[i] = IF i = n + 1 THEN y ELSE v(i)
  BY <1>1, <1>3, <1>5, <1>6
<1> HIDE DEF a
<1>9. a = [i \in 1 .. n + 1 |-> a[i]]
  BY <1>7
<1>10. a = [i \in 1 .. n + 1 |-> IF i = n + 1 THEN y ELSE v(i)]
  BY <1>8, <1>9
<1> QED
  BY <1>4, <1>10 DEF a, parts, long, n

\* A chunk whose number is not one of them is added at the end.
LEMMA WithoutOneMore ==
    ASSUME NEW S, NEW chunks \in Seq(S), NEW x \in S,
           NEW numbers, numbers \subseteq 1 .. Len(chunks)
    PROVE  Without(Append(chunks, x), numbers) = Append(Without(chunks, numbers), x)
<1> DEFINE parts == Kept(chunks, numbers)
<1>1. << x >> \in Seq(S) /\ ~ (Len(chunks) + 1 \in numbers)
  OBVIOUS
<1>t. parts \in Seq(Seq(S))
  BY KeptType
<1>2. Kept(Append(chunks, x), numbers) = Append(parts, << x >>)
  <2> DEFINE y == << x >>
  <2>1. /\ y = IF Len(chunks) + 1 \in numbers THEN << >> ELSE << x >>
        /\ \A i \in 1 .. Len(chunks) : i \in numbers <=> i \in numbers
    BY <1>1
  <2> HIDE DEF y
  <2>2. Kept(Append(chunks, x), numbers) = Append(Kept(chunks, numbers), y)
    BY <2>1, KeptOneMore
  <2> QED
    BY <2>2 DEF y
<1>3. /\ Without(Append(chunks, x), numbers) = FlattenSeq(Append(parts, << x >>))
      /\ Without(chunks, numbers) = FlattenSeq(parts)
  BY <1>2 DEF Without, Kept
<1> HIDE DEF parts
<1>4. FlattenSeq(parts) \in Seq(S)
      /\ FlattenSeq(Append(parts, << x >>)) = FlattenSeq(parts) \o << x >>
  BY <1>1, <1>t, FlattenOneMore
<1>5. FlattenSeq(parts) \o << x >> = Append(FlattenSeq(parts), x)
  BY <1>4
<1> QED
  BY <1>3, <1>4, <1>5

\* A chunk whose number is one of them is left out.
LEMMA WithoutOneLost ==
    ASSUME NEW S, NEW chunks \in Seq(S), NEW x \in S,
           NEW numbers, NEW more, Len(chunks) + 1 \in more,
           \A i \in 1 .. Len(chunks) : i \in more <=> i \in numbers
    PROVE  Without(Append(chunks, x), more) = Without(chunks, numbers)
<1> DEFINE parts == Kept(chunks, numbers)
<1>1. /\ << >> \in Seq(S) /\ Len(chunks) + 1 \in more
      /\ \A i \in 1 .. Len(chunks) : i \in more <=> i \in numbers
  OBVIOUS
<1>t. parts \in Seq(Seq(S))
  BY KeptType
<1>2. Kept(Append(chunks, x), more) = Append(parts, << >>)
  <2> DEFINE y == << >>
  <2>1. /\ y = IF Len(chunks) + 1 \in more THEN << >> ELSE << x >>
        /\ \A i \in 1 .. Len(chunks) : i \in more <=> i \in numbers
    BY <1>1
  <2> HIDE DEF y
  <2>2. Kept(Append(chunks, x), more) = Append(Kept(chunks, numbers), y)
    BY <2>1, KeptOneMore
  <2> QED
    BY <2>2 DEF y
<1>3. /\ Without(Append(chunks, x), more) = FlattenSeq(Append(parts, << >>))
      /\ Without(chunks, numbers) = FlattenSeq(parts)
  BY <1>2 DEF Without, Kept
<1> HIDE DEF parts
<1>4. FlattenSeq(parts) \in Seq(S)
      /\ FlattenSeq(Append(parts, << >>)) = FlattenSeq(parts) \o << >>
  BY <1>1, <1>t, FlattenOneMore
<1>5. FlattenSeq(parts) \o << >> = FlattenSeq(parts)
  BY <1>4
<1> QED
  BY <1>3, <1>4, <1>5

\* Without none of them, all are there.
LEMMA WithoutNone ==
    ASSUME NEW S, NEW chunks \in Seq(S)
    PROVE  Without(chunks, {}) = chunks
<1>0. ASSUME NEW c \in Seq(S), NEW z \in S
      PROVE  Without(Append(c, z), {}) = Append(Without(c, {}), z)
  <2> DEFINE none == {}
  <2>1. none \subseteq 1 .. Len(c)
    OBVIOUS
  <2> HIDE DEF none
  <2>2. Without(Append(c, z), none) = Append(Without(c, none), z)
    BY <2>1, WithoutOneMore
  <2> QED
    BY <2>2 DEF none
<1> DEFINE T == {n \in Nat : \A t \in Seq(S) : Len(t) = n => Without(t, {}) = t}
<1>1. 0 \in T
  <2> SUFFICES ASSUME NEW t \in Seq(S), Len(t) = 0 PROVE Without(t, {}) = t
    OBVIOUS
  <2>1. t = << >>
    OBVIOUS
  <2> QED
    BY <2>1, WithoutNothing
<1>2. ASSUME NEW n \in Nat, n \in T PROVE n + 1 \in T
  <2> SUFFICES ASSUME NEW t \in Seq(S), Len(t) = n + 1 PROVE Without(t, {}) = t
    OBVIOUS
  <2> DEFINE u == SubSeq(t, 1, n)
             x == t[n + 1]
  <2>1. u \in Seq(S) /\ x \in S /\ Len(u) = n /\ t = Append(u, x)
    OBVIOUS
  <2> HIDE DEF u, x
  <2>2. Without(u, {}) = u
    BY <1>2, <2>1
  <2>3. Without(Append(u, x), {}) = Append(Without(u, {}), x)
    BY <1>0, <2>1
  <2> QED
    BY <2>1, <2>2, <2>3
<1> HIDE DEF T
<1>3. Len(chunks) \in T
  BY <1>1, <1>2, Induct
<1> QED
  BY <1>3 DEF T

-----------------------------------------------------------------------------
(* The recording, and which steps of which process can still happen *)

\* The places of main in a live session.
Live == {"recorder", "proxy", "run", "close"}

\* The recording and what was forwarded are sequences of chunks.
ChunksOK ==
    /\ file \in [is : {"none", "open", "closed"}, entries : Seq(Chunks)]
    /\ forwarded \in Seq(Chunks)

\* Which process this is and what it can have done: the first records, the
\* second replays.
Life ==
    /\ earlier.end # "none" => args = [tty |-> FALSE, record |-> FALSE, replay |-> TRUE]
    /\ main \in Live => args.tty /\ ~args.replay
    /\ main = "replay" => earlier.end # "none"
    /\ cursor # 0 => earlier.end # "none"
    /\ recording_enabled => earlier.end = "none"
    /\ (earlier.end = "none" /\ main \in {"arguments", "recorder", "reader"}) =>
          /\ file = [is |-> "none", entries |-> << >>]
          /\ forwarded = << >>

\* While a session is being recorded, the recording is what was forwarded so far
\* but for the chunks whose write failed.
Recorded ==
    (main \in {"proxy", "run", "close"} /\ args.record) =>
        /\ recording_enabled
        /\ file.is = "open"
        /\ file.entries = Without(forwarded, lost)

MonInv ==
    /\ TypeOK
    /\ ChunksOK
    /\ Life
    /\ Recorded
    /\ RecordingIsComplete

-----------------------------------------------------------------------------
\* A chunk comes from one of the two sides and carries symbols.
LEMMA ChunkType ==
    ASSUME NEW chunk \in Chunks
    PROVE  /\ chunk \in [from : Direction, bytes : Seq(Symbol)]
           /\ Entry(chunk) = chunk
<1>1. chunk \in [from : Direction, bytes : Seq(Symbol)]
  BY ChunksAssumption
<1> QED
  BY <1>1 DEF Entry

\* A process starts with nothing recorded and nothing read.
LEMMA MonInit == Init => MonInv
<1> SUFFICES ASSUME Init PROVE MonInv
  OBVIOUS
<1>1. << >> \in Seq(Chunks) /\ << >> \in Seq(Symbol) /\ << >> \in Seq(Byte)
      /\ Len(<< >>) = 0
  OBVIOUS
<1>2. args \in [tty : BOOLEAN, record : BOOLEAN, replay : BOOLEAN]
  BY ArgumentsAssumption DEF Init
<1>3. FreshContext \in [Direction -> [frame_len : 0 .. MAX_FRAME_BYTES, heard : Seq(Byte)]]
  BY <1>1, MonitorBoundsAssumption DEF FreshContext
<1>4. todo \in [from : Direction, bytes : Seq(Symbol)]
  BY <1>1 DEF Init, Direction
<1>5. cursor \in 0 .. Len(file.entries)
  BY <1>1 DEF Init
<1>6. TypeOK
  <2>1. /\ main \in {"arguments", "recorder", "proxy", "run", "close", "reader", "replay",
                     "exit", "killed"}
        /\ recording_enabled \in BOOLEAN /\ stop \in BOOLEAN
        /\ lost = {} /\ signalled \in BOOLEAN
    BY DEF Init
  <2>5. code \in -1 .. 1
    <3>1. code = -1
      BY DEF Init
    <3> QED
      BY <3>1
  <2>2. ctx \in [Direction -> [frame_len : 0 .. MAX_FRAME_BYTES, heard : Seq(Byte)]]
    BY <1>3 DEF Init
  <2>3. kiss \in [Direction -> {"idle", "frame", "bad"}]
    BY DEF Init
  <2>4. file.is \in {"none", "open", "closed"}
    BY DEF Init
  <2> QED
    BY <1>2, <1>4, <1>5, <2>1, <2>2, <2>3, <2>4, <2>5 DEF TypeOK
<1>7. ChunksOK
  BY <1>1 DEF Init, ChunksOK
<1>8. Life /\ Recorded /\ RecordingIsComplete
  BY DEF Init, Life, Live, Recorded, RecordingIsComplete
<1> QED
  BY <1>6, <1>7, <1>8 DEF MonInv

-----------------------------------------------------------------------------
(* The KISS decoders *)

\* A context after a step of its KISS decoder: a fresh one, or one whose copy
\* of the frame has not outgrown it.
LEMMA ContextType ==
    ASSUME NEW c \in [frame_len : 0 .. MAX_FRAME_BYTES, heard : Seq(Byte)],
           NEW b \in Byte
    PROVE  /\ DecoderStart(c) \in [frame_len : 0 .. MAX_FRAME_BYTES, heard : Seq(Byte)]
           /\ DecoderData(c, b) \in [frame_len : 0 .. MAX_FRAME_BYTES, heard : Seq(Byte)]
<1>1. 0 \in 0 .. MAX_FRAME_BYTES /\ << >> \in Seq(Byte)
  BY MonitorBoundsAssumption
<1>2. Append(c.heard, b) \in Seq(Byte)
  OBVIOUS
<1>3. (IF c.frame_len < MAX_FRAME_BYTES THEN c.frame_len + 1 ELSE c.frame_len)
        \in 0 .. MAX_FRAME_BYTES
  BY MonitorBoundsAssumption
<1> QED
  BY <1>1, <1>2, <1>3 DEF DecoderStart, DecoderData

\* What every KISS step leaves of a process, of the recording and of history.
LEMMA KissPutInv ==
    ASSUME MonInv, NEW symbols, NEW k \in {"idle", "frame", "bad"},
           NEW c \in [frame_len : 0 .. MAX_FRAME_BYTES, heard : Seq(Byte)],
           NEW lines, KissPut(symbols, k, c, lines)
    PROVE  MonInv'
<1>1. /\ todo \in [from : Direction, bytes : Seq(Symbol)]
      /\ todo.bytes # << >>
      /\ todo' = [todo EXCEPT !.bytes = Tail(@)]
      /\ kiss' = [kiss EXCEPT ![todo.from] = k]
      /\ ctx' = [ctx EXCEPT ![todo.from] = c]
      /\ UNCHANGED <<args, main, code, recording_enabled, stop, file, cursor,
                     forwarded, lost, signalled, earlier>>
  BY DEF KissPut, MonInv, TypeOK, process, history
<1>2. todo' \in [from : Direction, bytes : Seq(Symbol)]
  <2>1. Tail(todo.bytes) \in Seq(Symbol)
    BY <1>1
  <2> QED
    BY <1>1, <2>1
<1>3. TypeOK'
  BY <1>1, <1>2 DEF MonInv, TypeOK
<1>4. ChunksOK' /\ Life' /\ Recorded' /\ RecordingIsComplete'
  BY <1>1 DEF MonInv, ChunksOK, Life, Live, Recorded, RecordingIsComplete
<1> QED
  BY <1>3, <1>4 DEF MonInv

\* Feeding a symbol of the chunk in hand to its KISS decoder.
LEMMA FeedInv ==
    ASSUME MonInv, Feed
    PROVE  MonInv'
<1> DEFINE d == todo.from
           Context == [frame_len : 0 .. MAX_FRAME_BYTES, heard : Seq(Byte)]
<1>1. ctx[d] \in Context
  BY DEF MonInv, TypeOK
<1>2. DecoderStart(ctx[d]) \in Context
  BY <1>1, MonitorBoundsAssumption DEF DecoderStart
<1>3. CASE KissByte
  <2> DEFINE c == IF kiss[d] = "idle" THEN DecoderStart(ctx[d]) ELSE ctx[d]
             b == Head(todo.bytes)
  <2>1. b \in Byte /\ KissPut(Byte, "frame", DecoderData(c, b), DataLines(d, c, b))
    BY <1>3 DEF KissByte, KissPut
  <2>2. c \in Context
    BY <1>1, <1>2
  <2> HIDE DEF c, b, d
  <2>3. DecoderData(c, b) \in Context
    BY <2>1, <2>2, ContextType
  <2> QED
    BY <2>1, <2>3, KissPutInv
<1>4. CASE KissError
  <2> DEFINE c == IF kiss[d] = "idle" THEN DecoderStart(ctx[d]) ELSE ctx[d]
  <2>1. KissPut({BAD}, "bad", c, DecoderError(d))
    BY <1>4 DEF KissError
  <2>2. c \in Context
    BY <1>1, <1>2
  <2> HIDE DEF c, d
  <2> QED
    BY <2>1, <2>2, KissPutInv
<1>5. CASE KissEnd
  <2>1. KissPut({FEND}, "idle", ctx[d], DecoderEnd(d, ctx[d], kiss[d] = "frame"))
    BY <1>5 DEF KissEnd
  <2> QED
    BY <1>1, <2>1, KissPutInv
<1>6. CASE KissSkip
  <2>1. \/ KissPut({FEND}, "idle", ctx[d], << >>)
        \/ KissPut(Byte \cup {BAD}, "bad", ctx[d], << >>)
    BY <1>6 DEF KissSkip
  <2> QED
    BY <1>1, <2>1, KissPutInv
<1> QED
  BY <1>3, <1>4, <1>5, <1>6 DEF Feed

-----------------------------------------------------------------------------
(* A live session *)

\* The arguments decide which of the two a process is.
LEMMA ArgumentsInv ==
    ASSUME MonInv, CheckArguments
    PROVE  MonInv'
<1>1. /\ main = "arguments"
      /\ UNCHANGED <<args, recording_enabled, stop, ctx, kiss, todo, file, cursor,
                     forwarded, lost, signalled, earlier>>
      /\ \/ args.replay = args.tty /\ main' = "exit" /\ code' = 1
         \/ ~args.replay /\ args.tty /\ main' = "recorder" /\ code' = code
         \/ args.replay /\ ~args.tty /\ main' = "reader" /\ code' = code
  BY DEF CheckArguments, Exit, Goto, decoding, history, MonInv, TypeOK
<1>2. TypeOK'
  BY <1>1 DEF MonInv, TypeOK
<1>3. ChunksOK' /\ Life'
  BY <1>1 DEF MonInv, ChunksOK, Life, Live
<1>4. Recorded' /\ RecordingIsComplete'
  BY <1>1 DEF Recorded, RecordingIsComplete
<1> QED
  BY <1>2, <1>3, <1>4 DEF MonInv

\* A recording begins empty, before anything is forwarded.
LEMMA OpenRecordingInv ==
    ASSUME MonInv, NEW ok \in BOOLEAN, OpenRecording(ok)
    PROVE  MonInv'
<1>1. /\ main = "recorder"
      /\ UNCHANGED <<args, stop, ctx, kiss, todo, cursor, forwarded, lost, signalled,
                     earlier>>
  BY DEF OpenRecording, decoding, history
<1>2. /\ args.tty /\ ~args.replay /\ earlier.end = "none" /\ cursor = 0
      /\ file = [is |-> "none", entries |-> << >>] /\ forwarded = << >>
  BY <1>1 DEF MonInv, Life, Live
<1>3. << >> \in Seq(Chunks) /\ Len(<< >>) = 0
  OBVIOUS
<1>w. Without(forwarded, lost) = << >>
  <2>1. lost = {}
    BY <1>2, <1>3 DEF MonInv, TypeOK
  <2> QED
    BY <1>2, <2>1, WithoutNothing
<1>4. CASE args.record /\ ok
  <2>1. /\ main' = "proxy" /\ code' = code /\ recording_enabled' = TRUE
        /\ file' = [is |-> "open", entries |-> << >>]
    BY <1>4 DEF OpenRecording, Goto
  <2>2. TypeOK'
    BY <1>1, <1>2, <1>3, <2>1 DEF MonInv, TypeOK
  <2>3. ChunksOK' /\ Life' /\ Recorded' /\ RecordingIsComplete'
    BY <1>1, <1>2, <1>3, <1>w, <2>1
       DEF MonInv, ChunksOK, Life, Live, Recorded, RecordingIsComplete
  <2> QED
    BY <2>2, <2>3 DEF MonInv
<1>5. CASE ~(args.record /\ ok)
  <2>1. /\ \/ ~args.record /\ main' = "proxy" /\ code' = code
           \/ main' = "exit" /\ code' = 1
        /\ UNCHANGED <<recording_enabled, file>>
    BY <1>5 DEF OpenRecording, Goto, Exit
  <2>2. TypeOK'
    BY <1>1, <1>2, <1>3, <2>1 DEF MonInv, TypeOK
  <2>3. ChunksOK' /\ Life' /\ Recorded' /\ RecordingIsComplete'
    BY <1>1, <1>2, <1>3, <1>w, <2>1
       DEF MonInv, ChunksOK, Life, Live, Recorded, RecordingIsComplete
  <2> QED
    BY <2>2, <2>3 DEF MonInv
<1> QED
  BY <1>4, <1>5

\* A step of main, or of a signal handler, that leaves the recording alone and
\* returns no success.
LEMMA QuietInv ==
    ASSUME MonInv,
           UNCHANGED <<args, recording_enabled, ctx, kiss, todo, file, cursor, forwarded,
                       lost, earlier>>,
           stop' \in BOOLEAN, signalled' \in BOOLEAN,
           \/ main' = main /\ code' = code
           \/ main = "proxy" /\ main' = "run" /\ code' = code
           \/ main = "run" /\ main' = "close" /\ code' = code
           \/ main' = "exit" /\ code' = 1
    PROVE  MonInv'
<1>1. main' \in {"arguments", "recorder", "proxy", "run", "close", "reader", "replay",
                 "exit", "killed"}
      /\ code' \in -1 .. 1
  BY DEF MonInv, TypeOK
<1>2. TypeOK'
  BY <1>1 DEF MonInv, TypeOK
<1>3. ChunksOK' /\ Life'
  BY DEF MonInv, ChunksOK, Life, Live
<1>4. Recorded' /\ RecordingIsComplete'
  BY DEF MonInv, Recorded, RecordingIsComplete
<1> QED
  BY <1>2, <1>3, <1>4 DEF MonInv

\* Starting the proxy, its return, and a signal are such steps.
LEMMA SessionInv ==
    ASSUME MonInv, (\E ok \in BOOLEAN : InitProxy(ok)) \/ RunReturns \/ Signal
    PROVE  MonInv'
<1>0. stop \in BOOLEAN /\ signalled \in BOOLEAN
  BY DEF MonInv, TypeOK
<1>1. CASE \E ok \in BOOLEAN : InitProxy(ok)
  BY <1>0, <1>1, QuietInv DEF InitProxy, Goto, Exit, decoding, history
<1>2. CASE RunReturns
  BY <1>0, <1>2, QuietInv DEF RunReturns, Goto, decoding, history
<1>3. CASE Signal
  BY <1>0, <1>3, QuietInv DEF Signal, decoding
<1> QED
  BY <1>1, <1>2, <1>3

\* A chunk the recorder writes joins the recording as it joins what was
\* forwarded; one it cannot write joins only what was forwarded.
LEMMA ForwardInv ==
    ASSUME MonInv, NEW chunk \in Chunks, NEW ok \in BOOLEAN, Forward(chunk, ok)
    PROVE  MonInv'
<1>1. /\ main = "run"
      /\ todo' = chunk
      /\ forwarded' = Append(forwarded, chunk)
      /\ file' = (IF recording_enabled /\ ok
                  THEN [file EXCEPT !.entries = Append(@, chunk)] ELSE file)
      /\ lost' = (IF recording_enabled /\ ~ok THEN lost \cup {Len(forwarded')} ELSE lost)
      /\ UNCHANGED <<args, main, code, recording_enabled, stop, ctx, kiss, cursor,
                     signalled, earlier>>
  BY ChunkType DEF Forward, process
<1>2. /\ earlier.end = "none" /\ cursor = 0 /\ lost \subseteq 1 .. Len(forwarded)
      /\ file \in [is : {"none", "open", "closed"}, entries : Seq(Chunks)]
      /\ forwarded \in Seq(Chunks)
  BY <1>1 DEF MonInv, TypeOK, Life, Live, ChunksOK
<1>3. /\ Append(file.entries, chunk) \in Seq(Chunks)
      /\ Append(forwarded, chunk) \in Seq(Chunks)
  BY <1>2
<1>4. /\ file' \in [is : {"none", "open", "closed"}, entries : Seq(Chunks)]
      /\ forwarded' \in Seq(Chunks)
      /\ file'.is = file.is
      /\ Len(file'.entries) \in Nat
  <2>1. CASE recording_enabled /\ ok
    <3>1. /\ file' = [file EXCEPT !.entries = Append(@, chunk)]
          /\ forwarded' = Append(forwarded, chunk)
      BY <1>1, <2>1
    <3>2. /\ file' \in [is : {"none", "open", "closed"}, entries : Seq(Chunks)]
          /\ file'.is = file.is
          /\ file'.entries \in Seq(Chunks)
      BY <1>2, <1>3, <3>1
    <3> QED
      BY <1>3, <3>1, <3>2
  <2>2. CASE ~(recording_enabled /\ ok)
    <3>1. file' = file /\ forwarded' = Append(forwarded, chunk)
      BY <1>1, <2>2
    <3>2. file'.entries \in Seq(Chunks)
      BY <1>2, <3>1
    <3> QED
      BY <1>2, <1>3, <3>1, <3>2
  <2> QED
    BY <2>1, <2>2
<1>5. TypeOK'
  <2>1. cursor' \in 0 .. Len(file'.entries)
    BY <1>1, <1>2, <1>4
  <2>2. todo' \in [from : Direction, bytes : Seq(Symbol)]
    BY <1>1, ChunkType
  <2>3. lost' \subseteq 1 .. Len(forwarded')
    <3>1. Len(forwarded') = Len(forwarded) + 1 /\ Len(forwarded) \in Nat
      BY <1>1, <1>2
    <3> QED
      BY <1>1, <1>2, <3>1
  <2> QED
    BY <1>1, <1>4, <2>1, <2>2, <2>3 DEF MonInv, TypeOK
<1>6. ChunksOK' /\ Life'
  BY <1>1, <1>2, <1>4 DEF MonInv, ChunksOK, Life, Live
<1>7. Recorded'
  <2> SUFFICES ASSUME args.record
               PROVE  /\ recording_enabled
                      /\ file'.is = "open"
                      /\ file'.entries = Without(forwarded', lost')
    BY <1>1 DEF Recorded
  <2>1. /\ recording_enabled /\ file.is = "open"
        /\ file.entries = Without(forwarded, lost)
    BY <1>1 DEF MonInv, Recorded
  <2>2. CASE ok
    <3>1. /\ lost' = lost /\ forwarded' = Append(forwarded, chunk)
          /\ file' = [file EXCEPT !.entries = Append(@, chunk)]
      BY <1>1, <2>1, <2>2
    <3>2. file'.entries = Append(Without(forwarded, lost), chunk)
      BY <1>2, <2>1, <3>1
    <3> DEFINE f == forwarded
               l == lost
    <3>3. f \in Seq(Chunks) /\ l \subseteq 1 .. Len(f)
      BY <1>2
    <3> HIDE DEF f, l
    <3>4. Without(Append(f, chunk), l) = Append(Without(f, l), chunk)
      BY <3>3, WithoutOneMore
    <3> QED
      BY <1>4, <2>1, <3>1, <3>2, <3>4 DEF f, l
  <2>3. CASE ~ok
    <3>1. /\ file' = file /\ forwarded' = Append(forwarded, chunk)
          /\ lost' = lost \cup {Len(forwarded')}
      BY <1>1, <2>1, <2>3
    <3>2. /\ Len(forwarded) + 1 \in lost'
          /\ \A i \in 1 .. Len(forwarded) : i \in lost' <=> i \in lost
      <4>1. Len(forwarded') = Len(forwarded) + 1 /\ Len(forwarded) \in Nat
        BY <1>2, <3>1
      <4> QED
        BY <3>1, <4>1
    <3> DEFINE more == lost'
    <3>3. Len(forwarded) + 1 \in more /\ \A i \in 1 .. Len(forwarded) : i \in more <=> i \in lost
      BY <3>2
    <3> HIDE DEF more
    <3>4. Without(Append(forwarded, chunk), more) = Without(forwarded, lost)
      BY <1>2, <3>3, WithoutOneLost
    <3>5. Without(Append(forwarded, chunk), lost') = Without(forwarded, lost)
      BY <3>4 DEF more
    <3> QED
      BY <2>1, <3>1, <3>5
  <2> QED
    BY <2>2, <2>3
<1>8. RecordingIsComplete'
  BY <1>1 DEF RecordingIsComplete
<1> QED
  BY <1>5, <1>6, <1>7, <1>8 DEF MonInv

\* main closes the recording before it returns from a session.
LEMMA CloseRecordingInv ==
    ASSUME MonInv, CloseRecording
    PROVE  MonInv'
<1>1. /\ main = "close" /\ main' = "exit" /\ code' = 0
      /\ file' = (IF recording_enabled THEN [file EXCEPT !.is = "closed"] ELSE file)
      /\ UNCHANGED <<args, recording_enabled, stop, ctx, kiss, todo, cursor, forwarded,
                     lost, signalled, earlier>>
  BY DEF CloseRecording, Exit, decoding, history
<1>2. file \in [is : {"none", "open", "closed"}, entries : Seq(Chunks)]
  BY DEF MonInv, ChunksOK
<1>3. /\ file' \in [is : {"none", "open", "closed"}, entries : Seq(Chunks)]
      /\ file'.entries = file.entries
      /\ recording_enabled => file'.is = "closed"
  BY <1>1, <1>2
<1>4. TypeOK'
  BY <1>1, <1>3 DEF MonInv, TypeOK
<1>5. ChunksOK' /\ Life'
  BY <1>1, <1>3 DEF MonInv, ChunksOK, Life, Live
<1>6. Recorded' /\ RecordingIsComplete'
  BY <1>1, <1>3 DEF MonInv, Recorded, RecordingIsComplete
<1> QED
  BY <1>4, <1>5, <1>6 DEF MonInv

\* Killing a process cuts its recording short, never what a replay reads.
LEMMA KilledInv ==
    ASSUME MonInv, Killed
    PROVE  MonInv'
<1>1. PICK kept \in 0 .. Len(file.entries) :
             /\ ~recording_enabled => kept = Len(file.entries)
             /\ file' = [file EXCEPT !.entries = SubSeq(@, 1, kept)]
  BY DEF Killed
<1>2. /\ main' = "killed" /\ code' = code
      /\ UNCHANGED <<args, recording_enabled, stop, ctx, kiss, todo, cursor, forwarded,
                     lost, signalled, earlier>>
  BY DEF Killed, Goto, decoding, history
<1>3. file \in [is : {"none", "open", "closed"}, entries : Seq(Chunks)]
  BY DEF MonInv, ChunksOK
<1>4. /\ SubSeq(file.entries, 1, kept) \in Seq(Chunks)
      /\ Len(SubSeq(file.entries, 1, kept)) = kept
  BY <1>1, <1>3
<1>5. /\ file' \in [is : {"none", "open", "closed"}, entries : Seq(Chunks)]
      /\ Len(file'.entries) = kept
  BY <1>1, <1>3, <1>4
<1>6. cursor \in 0 .. kept
  <2>1. CASE recording_enabled
    BY <2>1, <1>1 DEF MonInv, Life, TypeOK
  <2>2. CASE ~recording_enabled
    BY <2>2, <1>1 DEF MonInv, TypeOK
  <2> QED
    BY <2>1, <2>2
<1>7. TypeOK'
  BY <1>2, <1>5, <1>6 DEF MonInv, TypeOK
<1>8. ChunksOK' /\ Life'
  BY <1>2, <1>5 DEF MonInv, ChunksOK, Life, Live
<1>9. Recorded' /\ RecordingIsComplete'
  BY <1>2 DEF Recorded, RecordingIsComplete
<1> QED
  BY <1>7, <1>8, <1>9 DEF MonInv

-----------------------------------------------------------------------------
(* A replay *)

\* The second process finds the recording as the first one left it.
LEMMA RestartInv ==
    ASSUME MonInv, Restart
    PROVE  MonInv'
<1>1. /\ main' = "arguments" /\ code' = -1
      /\ args' = [tty |-> FALSE, record |-> FALSE, replay |-> TRUE]
      /\ recording_enabled' = FALSE /\ stop' = FALSE /\ signalled' = FALSE
      /\ ctx' = FreshContext /\ kiss' = [d \in Direction |-> "idle"]
      /\ todo' = [todo EXCEPT !.bytes = << >>]
      /\ UNCHANGED <<file, cursor, forwarded, lost>>
  BY DEF Restart
<1>2. earlier'.end # "none"
  BY DEF Restart
<1>3. << >> \in Seq(Symbol) /\ << >> \in Seq(Byte)
  OBVIOUS
<1>4. TypeOK'
  <2>1. FreshContext
          \in [Direction -> [frame_len : 0 .. MAX_FRAME_BYTES, heard : Seq(Byte)]]
    BY <1>3, MonitorBoundsAssumption DEF FreshContext
  <2>2. todo' \in [from : Direction, bytes : Seq(Symbol)]
    BY <1>1, <1>3 DEF MonInv, TypeOK
  <2>3. kiss' \in [Direction -> {"idle", "frame", "bad"}]
    BY <1>1
  <2>4. /\ args' \in [tty : BOOLEAN, record : BOOLEAN, replay : BOOLEAN]
        /\ code' \in -1 .. 1
    BY <1>1
  <2> QED
    BY <1>1, <2>1, <2>2, <2>3, <2>4 DEF MonInv, TypeOK
<1>5. ChunksOK' /\ Life'
  BY <1>1, <1>2 DEF MonInv, ChunksOK, Life, Live
<1>6. Recorded' /\ RecordingIsComplete'
  BY <1>1 DEF Recorded, RecordingIsComplete
<1> QED
  BY <1>4, <1>5, <1>6 DEF MonInv

\* There is a recording to open only in the second process.
LEMMA OpenReaderInv ==
    ASSUME MonInv, NEW ok \in BOOLEAN, OpenReader(ok)
    PROVE  MonInv'
<1>1. /\ main = "reader" /\ (ok => file.is # "none")
      /\ \/ ok /\ main' = "replay" /\ code' = code
         \/ main' = "exit" /\ code' = 1
      /\ UNCHANGED <<args, recording_enabled, stop, ctx, kiss, todo, file, cursor,
                     forwarded, lost, signalled, earlier>>
  BY DEF OpenReader, Goto, Exit, decoding, history
<1>2. ok => earlier.end # "none"
  BY <1>1 DEF MonInv, Life
<1>3. TypeOK'
  BY <1>1 DEF MonInv, TypeOK
<1>4. ChunksOK' /\ Life'
  BY <1>1, <1>2 DEF MonInv, ChunksOK, Life, Live
<1>5. Recorded' /\ RecordingIsComplete'
  BY <1>1 DEF Recorded, RecordingIsComplete
<1> QED
  BY <1>3, <1>4, <1>5 DEF MonInv

\* An entry that is read is one of the recording's chunks.
LEMMA ReadEntryInv ==
    ASSUME MonInv, ReadEntry
    PROVE  MonInv'
<1>1. /\ main = "replay"
      /\ cursor < Len(file.entries)
      /\ cursor' = cursor + 1
      /\ todo' = file.entries[cursor + 1]
      /\ UNCHANGED <<args, main, code, recording_enabled, stop, ctx, kiss, file,
                     forwarded, lost, signalled, earlier>>
  BY DEF ReadEntry, process, history
<1>2. /\ file.entries \in Seq(Chunks)
      /\ cursor \in 0 .. Len(file.entries)
      /\ earlier.end # "none"
  BY <1>1 DEF MonInv, ChunksOK, TypeOK, Life
<1>3. cursor + 1 \in 1 .. Len(file.entries)
  BY <1>1, <1>2
<1>4. file.entries[cursor + 1] \in Chunks
  BY <1>2, <1>3, ElementOfSeq
<1>5. TypeOK'
  <2>1. todo' \in [from : Direction, bytes : Seq(Symbol)]
    BY <1>1, <1>4, ChunkType
  <2>2. cursor' \in 0 .. Len(file'.entries)
    BY <1>1, <1>3
  <2> QED
    BY <1>1, <2>1, <2>2 DEF MonInv, TypeOK
<1>6. ChunksOK' /\ Life'
  BY <1>1, <1>2 DEF MonInv, ChunksOK, Life, Live
<1>7. Recorded' /\ RecordingIsComplete'
  BY <1>1 DEF Recorded, RecordingIsComplete
<1> QED
  BY <1>5, <1>6, <1>7 DEF MonInv

\* The end of a replay is no session's.
LEMMA ReadEndInv ==
    ASSUME MonInv, NEW rc \in {-1, 1}, ReadEnd(rc)
    PROVE  MonInv'
<1>1. /\ main = "replay" /\ main' = "exit" /\ code' \in {0, 1}
      /\ UNCHANGED <<args, recording_enabled, stop, ctx, kiss, todo, file, cursor,
                     forwarded, lost, signalled, earlier>>
  BY DEF ReadEnd, Exit, decoding, history
<1>2. ~args.record
  BY <1>1 DEF MonInv, Life
<1>3. TypeOK'
  BY <1>1 DEF MonInv, TypeOK
<1>4. ChunksOK' /\ Life'
  BY <1>1 DEF MonInv, ChunksOK, Life, Live
<1>5. Recorded' /\ RecordingIsComplete'
  BY <1>1, <1>2 DEF Recorded, RecordingIsComplete
<1> QED
  BY <1>3, <1>4, <1>5 DEF MonInv

-----------------------------------------------------------------------------
\* MonInv is an invariant of the monitor, whatever the proxy hands over, fails
\* to write, or interrupts.
THEOREM MonitorInvariance == Spec => []MonInv
<1>1. MonInv /\ [Next]_vars => MonInv'
  <2> SUFFICES ASSUME MonInv, [Next]_vars PROVE MonInv'
    OBVIOUS
  <2>1. CASE CheckArguments
    BY <2>1, ArgumentsInv
  <2>2. ASSUME NEW ok \in BOOLEAN, OpenRecording(ok) PROVE MonInv'
    BY <2>2, OpenRecordingInv
  <2>3. CASE (\E ok \in BOOLEAN : InitProxy(ok)) \/ RunReturns \/ Signal
    BY <2>3, SessionInv
  <2>4. ASSUME NEW ok \in BOOLEAN, OpenReader(ok) PROVE MonInv'
    BY <2>4, OpenReaderInv
  <2>5. ASSUME NEW chunk \in Chunks, NEW ok \in BOOLEAN, Forward(chunk, ok) PROVE MonInv'
    BY <2>5, ForwardInv
  <2>6. CASE Feed
    BY <2>6, FeedInv
  <2>7. CASE CloseRecording
    BY <2>7, CloseRecordingInv
  <2>8. CASE Killed
    BY <2>8, KilledInv
  <2>9. CASE Restart
    BY <2>9, RestartInv
  <2>10. CASE ReadEntry
    BY <2>10, ReadEntryInv
  <2>11. ASSUME NEW rc \in {-1, 1}, ReadEnd(rc) PROVE MonInv'
    BY <2>11, ReadEndInv
  <2>12. CASE UNCHANGED vars
    BY <2>12 DEF MonInv, TypeOK, ChunksOK, Life, Recorded, RecordingIsComplete, vars,
                 process, decoding, history
  <2> QED
    BY <2>1, <2>2, <2>3, <2>4, <2>5, <2>6, <2>7, <2>8, <2>9, <2>10, <2>11, <2>12
       DEF Next
<1> QED
  BY <1>1, MonInit, PTL DEF Spec

\* Every variable of the monitor keeps its type: in particular a context never
\* counts more bytes of a frame than its copy holds, however long the frame,
\* and a replay never reads past the end of its recording.
THEOREM MonitorTypeCorrect == Spec => []TypeOK
<1>1. MonInv => TypeOK
  BY DEF MonInv
<1> QED
  BY <1>1, MonitorInvariance, PTL

\* When main returns from a session it recorded, the recording is closed and
\* holds, in order, every chunk that was forwarded but those whose write failed.
THEOREM RecordingComplete == Spec => []RecordingIsComplete
<1>1. MonInv => RecordingIsComplete
  BY DEF MonInv
<1> QED
  BY <1>1, MonitorInvariance, PTL

-----------------------------------------------------------------------------
(* Sequences that begin others *)

\* s is a sequence of some kind.
IsSeq(s) == \E S : s \in Seq(S)

\* t is s and more.
Longer(s, t) ==
    /\ IsSeq(s) /\ IsSeq(t)
    /\ Len(s) <= Len(t)
    /\ \A k \in 1 .. Len(s) : t[k] = s[k]

\* The empty sequence and that of one element, and that a sequence begins itself.
LEMMA SeqFacts ==
    /\ IsSeq(<< >>) /\ Len(<< >>) = 0
    /\ \A x : IsSeq(<<x>>) /\ Len(<<x>>) = 1 /\ <<x>>[1] = x
    /\ \A s : IsSeq(s) => Len(s) \in Nat /\ Longer(s, s)
    /\ \A s : IsSeq(s) => Longer(<< >>, s)
<1>1. << >> \in Seq({}) /\ Len(<< >>) = 0
  OBVIOUS
<1>2. ASSUME NEW x PROVE <<x>> \in Seq({x}) /\ Len(<<x>>) = 1 /\ <<x>>[1] = x
  OBVIOUS
<1>3. ASSUME NEW s, IsSeq(s) PROVE Len(s) \in Nat
  BY <1>3 DEF IsSeq
<1>4. IsSeq(<< >>) /\ \A x : IsSeq(<<x>>)
  BY <1>1, <1>2 DEF IsSeq
<1>5. ASSUME NEW s, IsSeq(s) PROVE Longer(s, s) /\ Longer(<< >>, s)
  BY <1>1, <1>3, <1>4, <1>5 DEF Longer
<1> QED
  BY <1>1, <1>2, <1>3, <1>4, <1>5

\* The elements of two sequences, one after the other.
LEMMA Glue ==
    ASSUME NEW s, NEW t, IsSeq(s), IsSeq(t)
    PROVE  /\ IsSeq(s \o t)
           /\ Len(s \o t) = Len(s) + Len(t)
           /\ \A k \in 1 .. Len(s) : (s \o t)[k] = s[k]
           /\ \A k \in 1 .. Len(t) : (s \o t)[Len(s) + k] = t[k]
<1>1. PICK S : s \in Seq(S)
  BY DEF IsSeq
<1>2. PICK U : t \in Seq(U)
  BY DEF IsSeq
<1>3. s \in Seq(S \cup U) /\ t \in Seq(S \cup U)
  BY <1>1, <1>2, SeqMonotonic
<1>4. s \o t \in Seq(S \cup U)
  BY <1>3
<1>5. /\ Len(s \o t) = Len(s) + Len(t)
      /\ \A k \in 1 .. Len(s) : (s \o t)[k] = s[k]
      /\ \A k \in 1 .. Len(t) : (s \o t)[Len(s) + k] = t[k]
  BY <1>3
<1> QED
  BY <1>4, <1>5 DEF IsSeq

\* A sequence with another after it is longer.
LEMMA LongerTail ==
    ASSUME NEW s, NEW t, IsSeq(s), IsSeq(t)
    PROVE  Longer(s, s \o t)
  BY Glue, SeqFacts DEF Longer

\* A longer end makes a longer whole.
LEMMA LongerGlue ==
    ASSUME NEW s, NEW t, NEW u, IsSeq(s), Longer(t, u)
    PROVE  Longer(s \o t, s \o u)
<1>1. IsSeq(t) /\ IsSeq(u) /\ Len(s) \in Nat /\ Len(t) \in Nat /\ Len(u) \in Nat
  BY SeqFacts DEF Longer
<1>2. IsSeq(s \o t) /\ IsSeq(s \o u) /\ Len(s \o t) <= Len(s \o u)
  BY <1>1, Glue DEF Longer
<1>3. ASSUME NEW k \in 1 .. Len(s \o t) PROVE (s \o u)[k] = (s \o t)[k]
  <2>1. CASE k \in 1 .. Len(s)
    BY <1>1, <2>1, Glue
  <2>2. CASE k \notin 1 .. Len(s)
    <3> DEFINE j == k - Len(s)
    <3>1. j \in 1 .. Len(t) /\ k = Len(s) + j
      BY <1>1, <2>2, Glue
    <3>2. j \in 1 .. Len(u) /\ u[j] = t[j]
      BY <1>1, <3>1 DEF Longer
    <3> HIDE DEF j
    <3> QED
      BY <1>1, <3>1, <3>2, Glue
  <2> QED
    BY <2>1, <2>2
<1> QED
  BY <1>2, <1>3 DEF Longer

-----------------------------------------------------------------------------
(* The calls a frame makes: more of them with every byte and at its end *)

\* A callback is called once or, when it is not there, not at all.
LEMMA CallIsSeq ==
    ASSUME NEW inst, NEW name, NEW a
    PROVE  IsSeq(Call(inst, name, a))
  BY SeqFacts DEF Call

\* The calls for the bytes of a stream: one more with every byte.
StreamOf(name, f) ==
    [k \in 1 .. Len(f) - 1 |->
        [cb |-> name, args |-> <<InterfaceOf(f[1]), f[k + 1], k - 1>>]]

\* Another byte of a stream is another call.
LEMMA StreamOfGrows ==
    ASSUME NEW name, NEW f \in Seq(Byte), f # << >>, NEW b \in Byte
    PROVE  Longer(StreamOf(name, f), StreamOf(name, Append(f, b)))
<1> DEFINE g == Append(f, b)
           c(h, k) == [cb |-> name, args |-> <<InterfaceOf(h[1]), h[k + 1], k - 1>>]
<1>1. /\ Len(f) \in Nat \ {0} /\ Len(g) = Len(f) + 1 /\ g[1] = f[1]
      /\ \A k \in 1 .. Len(f) - 1 : g[k + 1] = f[k + 1]
  OBVIOUS
<1>2. ASSUME NEW h, Len(h) \in Nat \ {0}
      PROVE  /\ IsSeq(StreamOf(name, h))
             /\ Len(StreamOf(name, h)) = Len(h) - 1
             /\ \A k \in 1 .. Len(h) - 1 : StreamOf(name, h)[k] = c(h, k)
  <2> DEFINE n == Len(h) - 1
             S == {c(h, k) : k \in 1 .. n}
  <2>1. n \in Nat
    BY <1>2
  <2>2. StreamOf(name, h) = [k \in 1 .. n |-> c(h, k)]
    BY DEF StreamOf
  <2>3. \A k \in 1 .. n : c(h, k) \in S
    OBVIOUS
  <2> HIDE DEF n, c, S
  <2>4. [k \in 1 .. n |-> c(h, k)] \in Seq(S)
    BY <2>1, <2>3
  <2>5. Len([k \in 1 .. n |-> c(h, k)]) = n
    BY <2>1
  <2> QED
    BY <2>1, <2>2, <2>4, <2>5 DEF IsSeq, n
<1>3. \A k \in 1 .. Len(f) - 1 : c(g, k) = c(f, k)
  BY <1>1
<1> HIDE DEF c, g
<1>4. Longer(StreamOf(name, f), StreamOf(name, g))
  BY <1>1, <1>2, <1>3 DEF Longer
<1> QED
  BY <1>4 DEF g

\* What the bytes of a command's frame have led to is what they lead to, and
\* more, when another byte comes or the frame ends.
LEMMA CommandCallsGrow ==
    ASSUME NEW f \in Seq(Byte), NEW b \in Byte
    PROVE  LET M(h, ended) == FrameCalls(CommandTextCallbacks, h, ended, 0)
           IN  /\ Longer(M(f, FALSE), M(Append(f, b), FALSE))
               /\ Longer(M(f, FALSE), M(f, TRUE))
               /\ M(<< >>, FALSE) = << >> /\ M(<< >>, TRUE) = << >>
<1> DEFINE M(h, ended) == FrameCalls(CommandTextCallbacks, h, ended, 0)
           T == CommandTextCallbacks
           g == Append(f, b)
           L(h) == OpcodeLength(OpcodeOf(h[1]))
           Error(h, n, st) == Call(T, "error", <<InterfaceOf(h[1]), OpcodeOf(h[1]), n, st>>)
           Stream(h) == Call(T, "tx_start", <<InterfaceOf(h[1])>>) \o StreamOf("tx_data", h)
<1>1. M(<< >>, FALSE) = << >> /\ M(<< >>, TRUE) = << >>
  BY DEF FrameCalls
<1>2. ASSUME NEW h, h # << >>, L(h) = -1
      PROVE  /\ M(h, FALSE) = Stream(h)
             /\ M(h, TRUE) = Stream(h) \o Call(T, "tx_end", <<InterfaceOf(h[1]), Len(h) - 1>>)
  <2>1. StreamHead(T, h, Len(h) - 1) = Stream(h)
    BY DEF StreamHead, StreamBytes, StreamOf, CommandTextCallbacks, CallbackNames
  <2>2. /\ M(h, FALSE) = StreamHead(T, h, Len(h) - 1)
        /\ M(h, TRUE) = StreamHead(T, h, Len(h) - 1)
                          \o Call(T, "tx_end", <<InterfaceOf(h[1]), Len(h) - 1>>)
    BY <1>2, 0 \notin 1 .. Len(h) DEF FrameCalls, StreamCalls
  <2> QED
    BY <2>1, <2>2
<1>3. ASSUME NEW h, h # << >>, L(h) = -2, NEW e
      PROVE  M(h, e) = Error(h, 0, UNKNOWN_OPCODE)
  BY <1>3 DEF FrameCalls
<1>4. ASSUME NEW h, h # << >>, L(h) \notin {-1, -2}, NEW e
      PROVE  M(h, e) = FixedCalls(T, h, e)
  BY <1>4 DEF FrameCalls
<1>5. ASSUME NEW h, Len(h) \in Nat
      PROVE  /\ Len(h) > 5 => /\ FixedCalls(T, h, TRUE) = Error(h, 4, INVALID_LENGTH)
                              /\ FixedCalls(T, h, FALSE) = Error(h, 4, INVALID_LENGTH)
             /\ Len(h) <= 5 => FixedCalls(T, h, FALSE) = << >>
  BY <1>5 DEF FixedCalls
<1>6. ASSUME NEW h PROVE IsSeq(FixedCalls(T, h, TRUE)) /\ IsSeq(FixedCalls(T, h, FALSE))
  BY CallIsSeq, SeqFacts DEF FixedCalls
<1>7. ASSUME NEW h \in Seq(Byte), h # << >>
      PROVE  IsSeq(M(h, FALSE)) /\ Longer(M(h, FALSE), M(h, TRUE))
  <2>1. CASE L(h) = -1
    <3>1. IsSeq(StreamOf("tx_data", h))
      BY <1>7, StreamOfGrows DEF Longer
    <3>2. IsSeq(Stream(h))
      BY <3>1, CallIsSeq, Glue
    <3> HIDE DEF M, Stream, T
    <3> QED
      BY <1>2, <1>7, <2>1, <3>2, CallIsSeq, LongerTail
  <2>2. CASE L(h) = -2
    <3>1. IsSeq(Error(h, 0, UNKNOWN_OPCODE))
      BY CallIsSeq
    <3> HIDE DEF M, Error
    <3> QED
      BY <1>3, <1>7, <2>2, <3>1, SeqFacts
  <2>3. CASE L(h) \notin {-1, -2}
    <3> DEFINE s(e) == FixedCalls(T, h, e)
    <3>0. Len(h) \in Nat
      BY <1>7
    <3>1. IsSeq(s(TRUE)) /\ IsSeq(s(FALSE))
      BY <1>6
    <3>2. s(FALSE) = s(TRUE) \/ s(FALSE) = << >>
      <4>1. Len(h) > 5 \/ Len(h) <= 5
        BY <3>0
      <4> HIDE DEF Error
      <4> QED
        BY <1>5, <3>0, <4>1
    <3>3. M(h, FALSE) = s(FALSE) /\ M(h, TRUE) = s(TRUE)
      BY <1>4, <1>7, <2>3
    <3> HIDE DEF M, s
    <3> QED
      BY <3>1, <3>2, <3>3, SeqFacts
  <2> QED
    BY <2>1, <2>2, <2>3
<1>8. /\ g \in Seq(Byte) /\ g # << >>
      /\ f # << >> => g[1] = f[1]
      /\ Len(f) \in Nat /\ Len(g) = Len(f) + 1
  OBVIOUS
<1>9. ASSUME f = << >> PROVE Longer(M(f, FALSE), M(g, FALSE)) /\ Longer(M(f, FALSE), M(f, TRUE))
  <2> HIDE DEF M, g
  <2> QED
    BY <1>1, <1>7, <1>8, <1>9, SeqFacts
<1>10. ASSUME f # << >> PROVE Longer(M(f, FALSE), M(g, FALSE)) /\ Longer(M(f, FALSE), M(f, TRUE))
  <2>1. L(g) = L(f) /\ \A n, st : Error(g, n, st) = Error(f, n, st)
    BY <1>8, <1>10
  <2>2. IsSeq(M(f, FALSE)) /\ Longer(M(f, FALSE), M(f, TRUE))
        /\ IsSeq(M(g, FALSE))
    BY <1>7, <1>8, <1>10
  <2>3. CASE L(f) = -1
    <3>1. Longer(Stream(f), Stream(g))
      <4>1. Call(T, "tx_start", <<InterfaceOf(g[1])>>) = Call(T, "tx_start", <<InterfaceOf(f[1])>>)
        BY <1>8, <1>10
      <4>2. Longer(StreamOf("tx_data", f), StreamOf("tx_data", g))
        BY <1>10, StreamOfGrows
      <4> HIDE DEF g, T
      <4> QED
        BY <4>1, <4>2, CallIsSeq, LongerGlue
    <3>2. M(f, FALSE) = Stream(f) /\ M(g, FALSE) = Stream(g)
      <4> HIDE DEF M, Stream, g
      <4> QED
        BY <1>2, <1>8, <1>10, <2>1, <2>3
    <3> HIDE DEF M, Stream, g
    <3> QED
      BY <1>1, <2>2, <3>1, <3>2
  <2>4. CASE L(f) = -2
    <3> HIDE DEF M, Error, g, L
    <3> QED
      BY <1>1, <1>3, <1>8, <1>10, <2>1, <2>2, <2>4, SeqFacts
  <2>5. CASE L(f) \notin {-1, -2}
    <3>1. M(f, FALSE) = FixedCalls(T, f, FALSE) /\ M(g, FALSE) = FixedCalls(T, g, FALSE)
      <4> HIDE DEF M, g
      <4> QED
        BY <1>4, <1>8, <1>10, <2>1, <2>5
    <3>2. M(f, FALSE) = << >> \/ M(f, FALSE) = M(g, FALSE)
      <4>1. CASE Len(f) <= 5
        BY <1>5, <1>8, <3>1, <4>1
      <4>2. CASE Len(f) > 5
        <5>1. Len(g) > 5 /\ Len(g) \in Nat
          BY <1>8, <4>2
        <5>2. FixedCalls(T, f, FALSE) = Error(f, 4, INVALID_LENGTH)
          BY <1>5, <1>8, <4>2
        <5>3. FixedCalls(T, g, FALSE) = Error(g, 4, INVALID_LENGTH)
          <6> HIDE DEF g, Error
          <6> QED
            BY <1>5, <5>1
        <5> HIDE DEF M, g, Error
        <5> QED
          BY <2>1, <3>1, <5>2, <5>3
      <4>3. Len(f) <= 5 \/ Len(f) > 5
        BY <1>8
      <4> HIDE DEF M, g
      <4> QED
        BY <4>1, <4>2, <4>3
    <3> HIDE DEF M, g
    <3> QED
      BY <1>1, <2>2, <3>2, SeqFacts
  <2> QED
    BY <2>3, <2>4, <2>5
<1> QED
  BY <1>1, <1>9, <1>10

\* The same of an event's frame.
LEMMA EventCallsGrow ==
    ASSUME NEW f \in Seq(Byte), NEW b \in Byte
    PROVE  LET M(h, ended) == EventCalls(EventTextCallbacks, h, ended, 0)
           IN  /\ Longer(M(f, FALSE), M(Append(f, b), FALSE))
               /\ Longer(M(f, FALSE), M(f, TRUE))
               /\ M(<< >>, FALSE) = << >> /\ M(<< >>, TRUE) = << >>
<1> DEFINE M(h, ended) == EventCalls(EventTextCallbacks, h, ended, 0)
           T == EventTextCallbacks
           g == Append(f, b)
           O(h) == OpcodeOf(h[1])
           L(h) == EventLength(O(h))
           Fixed(h, ended) == EventFixedCalls(T, h, ended)
           Error(h, n, st) == Call(T, "error", <<InterfaceOf(h[1]), O(h), n, st>>)
           Stream(h) == Call(T, StartOf(O(h)), <<InterfaceOf(h[1])>>) \o StreamOf(DataOf(O(h)), h)
<1>1. M(<< >>, FALSE) = << >> /\ M(<< >>, TRUE) = << >>
  BY DEF EventCalls
<1>2. ASSUME NEW h, h # << >>, L(h) = -1
      PROVE  /\ M(h, FALSE) = Stream(h)
             /\ M(h, TRUE) = Stream(h) \o Call(T, EndOf(O(h)), <<InterfaceOf(h[1]), Len(h) - 1>>)
  <2>1. EventBytes(T, h, Len(h) - 1) = StreamOf(DataOf(O(h)), h)
    BY DEF EventBytes, StreamOf, DataOf, EventTextCallbacks, EventNames, RxNames, TxNames
  <2>2. /\ M(h, FALSE) = EventStreamCalls(T, h, FALSE, 0)
        /\ M(h, TRUE) = EventStreamCalls(T, h, TRUE, 0)
    BY <1>2 DEF EventCalls
  <2> QED
    BY <2>1, <2>2, 0 \notin 1 .. Len(h) DEF EventStreamCalls
<1>3. ASSUME NEW h, h # << >>, L(h) = -2
      PROVE  /\ M(h, FALSE) = Error(h, 0, UNKNOWN_OPCODE)
             /\ M(h, TRUE) = Error(h, 0, UNKNOWN_OPCODE)
  BY <1>3 DEF EventCalls
<1>4. ASSUME NEW h, h # << >>, L(h) \notin {-1, -2}
      PROVE  M(h, FALSE) = Fixed(h, FALSE) /\ M(h, TRUE) = Fixed(h, TRUE)
  BY <1>4 DEF EventCalls
<1>5. ASSUME NEW h, Len(h) \in Nat, L(h) \in {0, 1}
      PROVE  /\ Len(h) - 1 > L(h) => /\ Fixed(h, TRUE) = Error(h, L(h), INVALID_LENGTH)
                                     /\ Fixed(h, FALSE) = Error(h, L(h), INVALID_LENGTH)
             /\ Len(h) - 1 <= L(h) => Fixed(h, FALSE) = << >>
  BY <1>5 DEF EventFixedCalls
<1>6. ASSUME NEW h PROVE IsSeq(Fixed(h, TRUE)) /\ IsSeq(Fixed(h, FALSE))
  <2>1. \A i, o, w : IsSeq(EventCall(T, i, o, w))
    BY CallIsSeq DEF EventCall
  <2> QED
    BY <2>1, CallIsSeq, SeqFacts DEF EventFixedCalls
<1>l. \A h : L(h) \in {-2, -1, 0, 1}
  BY DEF EventLength
<1>7. ASSUME NEW h \in Seq(Byte), h # << >>
      PROVE  IsSeq(M(h, FALSE)) /\ Longer(M(h, FALSE), M(h, TRUE))
  <2>1. CASE L(h) = -1
    <3>1. IsSeq(StreamOf(DataOf(O(h)), h))
      BY <1>7, StreamOfGrows DEF Longer
    <3>2. IsSeq(Stream(h))
      BY <3>1, CallIsSeq, Glue
    <3> HIDE DEF M, Stream, T
    <3> QED
      BY <1>2, <1>7, <2>1, <3>2, CallIsSeq, LongerTail
  <2>2. CASE L(h) = -2
    <3>1. IsSeq(Error(h, 0, UNKNOWN_OPCODE))
      BY CallIsSeq
    <3> HIDE DEF M, Error
    <3> QED
      BY <1>3, <1>7, <2>2, <3>1, SeqFacts
  <2>3. CASE L(h) \notin {-1, -2}
    <3>0. Len(h) \in Nat /\ L(h) \in {0, 1}
      BY <1>7, <1>l, <2>3
    <3>1. IsSeq(Fixed(h, TRUE)) /\ IsSeq(Fixed(h, FALSE))
      BY <1>6
    <3>2. Fixed(h, FALSE) = Fixed(h, TRUE) \/ Fixed(h, FALSE) = << >>
      <4>1. Len(h) - 1 > L(h) \/ Len(h) - 1 <= L(h)
        BY <3>0
      <4> HIDE DEF Error, Fixed, L
      <4> QED
        BY <1>5, <3>0, <4>1
    <3>3. M(h, FALSE) = Fixed(h, FALSE) /\ M(h, TRUE) = Fixed(h, TRUE)
      BY <1>4, <1>7, <2>3
    <3> HIDE DEF M, Fixed
    <3> QED
      BY <3>1, <3>2, <3>3, SeqFacts
  <2> QED
    BY <2>1, <2>2, <2>3
<1>8. /\ g \in Seq(Byte) /\ g # << >>
      /\ f # << >> => g[1] = f[1]
      /\ Len(f) \in Nat /\ Len(g) = Len(f) + 1
  OBVIOUS
<1>9. ASSUME f = << >> PROVE Longer(M(f, FALSE), M(g, FALSE)) /\ Longer(M(f, FALSE), M(f, TRUE))
  <2> HIDE DEF M, g
  <2> QED
    BY <1>1, <1>7, <1>8, <1>9, SeqFacts
<1>10. ASSUME f # << >> PROVE Longer(M(f, FALSE), M(g, FALSE)) /\ Longer(M(f, FALSE), M(f, TRUE))
  <2>1. O(g) = O(f) /\ L(g) = L(f) /\ \A n, st : Error(g, n, st) = Error(f, n, st)
    BY <1>8, <1>10
  <2>2. IsSeq(M(f, FALSE)) /\ Longer(M(f, FALSE), M(f, TRUE))
        /\ IsSeq(M(g, FALSE))
    BY <1>7, <1>8, <1>10
  <2>3. CASE L(f) = -1
    <3>1. Longer(Stream(f), Stream(g))
      <4>1. Call(T, StartOf(O(g)), <<InterfaceOf(g[1])>>) = Call(T, StartOf(O(f)), <<InterfaceOf(f[1])>>)
        BY <1>8, <1>10
      <4>2. Longer(StreamOf(DataOf(O(f)), f), StreamOf(DataOf(O(f)), g))
        BY <1>10, StreamOfGrows
      <4> HIDE DEF g, T, O
      <4> QED
        BY <2>1, <4>1, <4>2, CallIsSeq, LongerGlue
    <3>2. M(f, FALSE) = Stream(f) /\ M(g, FALSE) = Stream(g)
      <4> HIDE DEF M, Stream, g
      <4> QED
        BY <1>2, <1>8, <1>10, <2>1, <2>3
    <3> HIDE DEF M, Stream, g
    <3> QED
      BY <1>1, <2>2, <3>1, <3>2
  <2>4. CASE L(f) = -2
    <3> HIDE DEF M, Error, g, L
    <3> QED
      BY <1>1, <1>3, <1>8, <1>10, <2>1, <2>2, <2>4, SeqFacts
  <2>5. CASE L(f) \notin {-1, -2}
    <3>1. M(f, FALSE) = Fixed(f, FALSE) /\ M(g, FALSE) = Fixed(g, FALSE)
      <4> HIDE DEF M, g, Fixed
      <4> QED
        BY <1>4, <1>8, <1>10, <2>1, <2>5
    <3>l. L(f) \in {0, 1} /\ L(g) \in {0, 1}
      <4> HIDE DEF L
      <4> QED
        BY <1>l, <2>1, <2>5
    <3>2. M(f, FALSE) = << >> \/ M(f, FALSE) = M(g, FALSE)
      <4>1. CASE Len(f) - 1 <= L(f)
        BY <1>5, <1>8, <3>1, <3>l, <4>1
      <4>2. CASE Len(f) - 1 > L(f)
        <5>1. Len(g) - 1 > L(g) /\ Len(g) \in Nat
          <6> HIDE DEF L, g
          <6> QED
            BY <1>8, <2>1, <3>l, <4>2
        <5>2. Fixed(f, FALSE) = Error(f, L(f), INVALID_LENGTH)
          BY <1>5, <1>8, <4>2, <3>l
        <5>3. Fixed(g, FALSE) = Error(g, L(g), INVALID_LENGTH)
          <6> HIDE DEF g, Error, Fixed
          <6> QED
            BY <1>5, <5>1, <3>l
        <5> HIDE DEF M, g, Error, Fixed, L
        <5> QED
          BY <2>1, <3>1, <5>2, <5>3
      <4>3. Len(f) - 1 <= L(f) \/ Len(f) - 1 > L(f)
        BY <1>8, <3>l
      <4> HIDE DEF M, g, L
      <4> QED
        BY <4>1, <4>2, <4>3
    <3> HIDE DEF M, g
    <3> QED
      BY <1>1, <2>2, <3>2, SeqFacts
  <2> QED
    BY <2>3, <2>4, <2>5
<1> QED
  BY <1>1, <1>9, <1>10

-----------------------------------------------------------------------------
(* The lines *)

\* What the bytes of a frame show.
Said(d, f, ended) == Lines(d, Meaning(d, f, ended))

\* The lines among them.
LinesSaid(d, f, ended) == {Said(d, f, ended)[k] : k \in 1 .. Len(Said(d, f, ended))}

\* What is printed of a frame that is not decoded.
Refusals(d) == {Line(d, <<"decode error">>), Line(d, <<"error">>)}

\* The lines a direction can show.
Shown(d) ==
    UNION {LinesSaid(d, f, FALSE) \cup LinesSaid(d, f, TRUE) \cup Refusals(d) : f \in Seq(Byte)}

AnyLine == Shown(ToDevice) \cup Shown(ToHost)

\* The same of either direction.
LEMMA MeaningGrows ==
    ASSUME NEW d, NEW f \in Seq(Byte), NEW b \in Byte
    PROVE  /\ Longer(Meaning(d, f, FALSE), Meaning(d, Append(f, b), FALSE))
           /\ Longer(Meaning(d, f, FALSE), Meaning(d, f, TRUE))
           /\ Meaning(d, << >>, FALSE) = << >> /\ Meaning(d, << >>, TRUE) = << >>
  BY CommandCallsGrow, EventCallsGrow DEF Meaning

\* One line for each call.
LEMMA LinesOfCalls ==
    ASSUME NEW d, NEW calls, IsSeq(calls)
    PROVE  /\ IsSeq(Lines(d, calls))
           /\ Len(Lines(d, calls)) = Len(calls)
           /\ \A k \in 1 .. Len(calls) :
                 Lines(d, calls)[k] =
                    Line(d, IF d = ToDevice THEN CommandText(calls[k]) ELSE EventText(calls[k]))
<1> DEFINE n == Len(calls)
           c(k) == Line(d, IF d = ToDevice THEN CommandText(calls[k]) ELSE EventText(calls[k]))
           S == {c(k) : k \in 1 .. n}
<1>1. n \in Nat
  BY SeqFacts
<1>2. Lines(d, calls) = [k \in 1 .. n |-> c(k)]
  BY DEF Lines
<1>3. \A k \in 1 .. n : c(k) \in S
  OBVIOUS
<1> HIDE DEF n, c, S
<1>4. [k \in 1 .. n |-> c(k)] \in Seq(S)
  BY <1>1, <1>3
<1>5. Len([k \in 1 .. n |-> c(k)]) = n
  BY <1>1
<1> QED
  BY <1>1, <1>2, <1>4, <1>5 DEF IsSeq, n, c

\* The lines of the calls made before, then those of the new calls.
LEMMA LinesOfNew ==
    ASSUME NEW d, NEW s, NEW t, Longer(s, t)
    PROVE  /\ IsSeq(Lines(d, New(s, t)))
           /\ Lines(d, s) \o Lines(d, New(s, t)) = Lines(d, t)
<1> DEFINE u == New(s, t)
<1>1. PICK S : t \in Seq(S)
  BY DEF Longer, IsSeq
<1>2. IsSeq(s) /\ IsSeq(t) /\ Len(s) \in Nat /\ Len(t) \in Nat /\ Len(s) <= Len(t)
  BY SeqFacts DEF Longer
<1>3. /\ u \in Seq(S)
      /\ Len(u) = Len(t) - Len(s)
      /\ \A k \in 1 .. Len(u) : u[k] = t[Len(s) + k]
  BY <1>1, <1>2 DEF New
<1>4. IsSeq(u)
  BY <1>3 DEF IsSeq
<1> HIDE DEF u
<1> DEFINE a == Lines(d, s)
           b == Lines(d, u)
           c == Lines(d, t)
<1>5. /\ IsSeq(a) /\ Len(a) = Len(s)
      /\ IsSeq(b) /\ Len(b) = Len(u)
      /\ IsSeq(c) /\ Len(c) = Len(t)
  BY <1>2, <1>4, LinesOfCalls
<1>6. \A k \in 1 .. Len(s) : a[k] = c[k]
  <2> TAKE k \in 1 .. Len(s)
  <2>1. s[k] = t[k] /\ k \in 1 .. Len(t)
    BY <1>2 DEF Longer
  <2> QED
    BY <1>2, <2>1, LinesOfCalls
<1>7. \A k \in 1 .. Len(u) : b[k] = c[Len(s) + k]
  <2> TAKE k \in 1 .. Len(u)
  <2>1. u[k] = t[Len(s) + k] /\ Len(s) + k \in 1 .. Len(t)
    BY <1>2, <1>3
  <2> QED
    BY <1>2, <1>4, <2>1, LinesOfCalls
<1> HIDE DEF a, b, c
<1>8. /\ IsSeq(a \o b)
      /\ Len(a \o b) = Len(a) + Len(b)
      /\ \A k \in 1 .. Len(a) : (a \o b)[k] = a[k]
      /\ \A k \in 1 .. Len(b) : (a \o b)[Len(a) + k] = b[k]
  BY <1>5, Glue
<1>9. Len(a \o b) = Len(c)
  BY <1>2, <1>3, <1>5, <1>8
<1>10. ASSUME NEW k \in 1 .. Len(c) PROVE (a \o b)[k] = c[k]
  <2>1. CASE k \in 1 .. Len(s)
    BY <1>5, <1>6, <1>8, <2>1
  <2>2. CASE k \notin 1 .. Len(s)
    <3> DEFINE j == k - Len(s)
    <3>1. j \in 1 .. Len(u) /\ k = Len(s) + j
      BY <1>2, <1>3, <1>5, <2>2
    <3> HIDE DEF j
    <3> QED
      BY <1>5, <1>7, <1>8, <3>1
  <2> QED
    BY <2>1, <2>2
<1>11. PICK A : (a \o b) \in Seq(A)
  BY <1>8 DEF IsSeq
<1>12. PICK C : c \in Seq(C)
  BY <1>5 DEF IsSeq
<1>13. (a \o b) = c
  <2>1. (a \o b) \in Seq(A \cup C) /\ c \in Seq(A \cup C)
    BY <1>11, <1>12, SeqMonotonic
  <2> QED
    BY <1>9, <1>10, <2>1, SeqEqual
<1> QED
  BY <1>5, <1>13 DEF a, b, c, u

\* What a frame shows, and shows more of with every byte and at its end.
LEMMA SaidFacts ==
    ASSUME NEW d, NEW f \in Seq(Byte)
    PROVE  /\ \A e \in BOOLEAN : Said(d, f, e) \in Seq(Shown(d)) /\ Said(d, << >>, e) = << >>
           /\ Said(d, f, FALSE) \o Lines(d, New(Meaning(d, f, FALSE), Meaning(d, f, TRUE)))
                 = Said(d, f, TRUE)
           /\ \A b \in Byte : \A c :
                 c.heard = f => Said(d, f, FALSE) \o DataLines(d, c, b) = Said(d, Append(f, b), FALSE)
<1>0. 0 \in Byte
  BY DEF Byte
<1>1. /\ IsSeq(Meaning(d, f, FALSE)) /\ IsSeq(Meaning(d, f, TRUE))
      /\ Meaning(d, << >>, FALSE) = << >> /\ Meaning(d, << >>, TRUE) = << >>
      /\ Longer(Meaning(d, f, FALSE), Meaning(d, f, TRUE))
  BY <1>0, MeaningGrows DEF Longer
<1>2. Said(d, << >>, TRUE) = << >> /\ Said(d, << >>, FALSE) = << >>
  <2>1. Lines(d, << >>) = << >>
    BY DEF Lines
  <2> QED
    BY <1>1, <2>1 DEF Said
<1>3. ASSUME NEW e, IsSeq(Meaning(d, f, e)) PROVE Said(d, f, e) \in Seq(LinesSaid(d, f, e))
  <2> DEFINE s == Said(d, f, e)
             R == {s[k] : k \in 1 .. Len(s)}
  <2>1. IsSeq(s)
    BY <1>3, LinesOfCalls DEF Said
  <2> HIDE DEF s
  <2>3. s \in Seq(R)
    <3>1. PICK S : s \in Seq(S)
      BY <2>1 DEF IsSeq
    <3>2. Len(s) \in Nat /\ s = [k \in 1 .. Len(s) |-> s[k]]
      BY <3>1
    <3>3. \A k \in 1 .. Len(s) : s[k] \in R
      OBVIOUS
    <3> HIDE DEF R
    <3>4. [k \in 1 .. Len(s) |-> s[k]] \in Seq(R)
      BY <3>2, <3>3
    <3> QED
      BY <3>2, <3>4
  <2> HIDE DEF R
  <2>4. R = LinesSaid(d, f, e)
    BY DEF R, s, LinesSaid
  <2> QED
    BY <2>3, <2>4 DEF s
<1>4. ASSUME NEW b \in Byte, NEW c, c.heard = f
      PROVE  Said(d, f, FALSE) \o DataLines(d, c, b) = Said(d, Append(f, b), FALSE)
  BY <1>4, MeaningGrows, LinesOfNew DEF Said, DataLines
<1>5. Said(d, f, FALSE) \o Lines(d, New(Meaning(d, f, FALSE), Meaning(d, f, TRUE)))
         = Said(d, f, TRUE)
  BY <1>1, LinesOfNew DEF Said
<1>6. \A e \in BOOLEAN : Said(d, f, e) \in Seq(Shown(d)) /\ Said(d, << >>, e) = << >>
  <2>0. LinesSaid(d, f, TRUE) \subseteq Shown(d) /\ LinesSaid(d, f, FALSE) \subseteq Shown(d)
    BY DEF Shown
  <2>1. Said(d, f, TRUE) \in Seq(Shown(d))
    BY <1>1, <1>3, <2>0, SeqMonotonic
  <2>2. Said(d, f, FALSE) \in Seq(Shown(d))
    BY <1>1, <1>3, <2>0, SeqMonotonic
  <2> QED
    BY <1>2, <2>1, <2>2
<1> QED
  BY <1>4, <1>5, <1>6

\* A line says which direction it is of.
LEMMA LineFrom ==
    ASSUME NEW d, NEW line \in Shown(d)
    PROVE  line.from = d
<1>0. 0 \in Byte
  BY DEF Byte
<1>l. \A text : Line(d, text).from = d
  BY DEF Line
<1>1. CASE line \in {Line(d, <<"decode error">>), Line(d, <<"error">>)}
  BY <1>l, <1>1
<1>2. ASSUME NEW f \in Seq(Byte), NEW e, IsSeq(Meaning(d, f, e)), line \in LinesSaid(d, f, e)
      PROVE  line.from = d
  <2>1. PICK k \in 1 .. Len(Said(d, f, e)) : line = Said(d, f, e)[k]
    BY <1>2 DEF LinesSaid
  <2>2. Len(Said(d, f, e)) = Len(Meaning(d, f, e))
    BY <1>2, LinesOfCalls DEF Said
  <2>3. k \in 1 .. Len(Meaning(d, f, e))
    BY <2>2
  <2>4. PICK text : line = Line(d, text)
    BY <1>2, <2>1, <2>3, LinesOfCalls DEF Said
  <2> QED
    BY <1>l, <2>4
<1>3. \A f \in Seq(Byte) : IsSeq(Meaning(d, f, TRUE)) /\ IsSeq(Meaning(d, f, FALSE))
  BY <1>0, MeaningGrows DEF Longer
<1>4. PICK f \in Seq(Byte) : line \in LinesSaid(d, f, FALSE) \cup LinesSaid(d, f, TRUE) \cup Refusals(d)
  BY DEF Shown
<1> QED
  BY <1>1, <1>2, <1>3, <1>4 DEF Refusals

\* f[n] holds the lines of d among the first n.
Among(f, d, lines) ==
    [n \in 0 .. Len(lines) |->
        IF n = 0 THEN << >>
        ELSE IF lines[n].from = d THEN Append(f[n - 1], lines[n])
        ELSE f[n - 1]]

\* There is such a function, and Of is its last value.
LEMMA OfByAmong ==
    ASSUME NEW S, NEW lines \in Seq(S), NEW d
    PROVE  \E f : f = Among(f, d, lines) /\ Of(d, lines) = f[Len(lines)]
<1> DEFINE N == Len(lines)
           V == Seq(S)
           G == [k \in 1 .. N |-> [v \in V |-> IF lines[k].from = d THEN Append(v, lines[k]) ELSE v]]
<1>1. N \in Nat /\ << >> \in V
  OBVIOUS
<1>2. G \in [1 .. N -> [V -> V]]
  <2> SUFFICES ASSUME NEW k \in 1 .. N, NEW v \in V
               PROVE (IF lines[k].from = d THEN Append(v, lines[k]) ELSE v) \in V
    OBVIOUS
  <2> QED
    BY ElementOfSeq
<1>3. \A k \in 1 .. N, v \in V :
         G[k][v] = IF lines[k].from = d THEN Append(v, lines[k]) ELSE v
  OBVIOUS
<1> HIDE DEF G
<1>c. PICK h : Chain(h, G, N, V, << >>)
  <2>1. Links(G, N, V)
    BY <1>2 DEF Links
  <2> HIDE DEF N, V
  <2> QED
    BY <1>1, <2>1, Recursion
<1>4. h \in [0 .. N -> V] /\ h[0] = << >> /\ \A k \in 1 .. N : h[k] = G[k][h[k - 1]]
  BY <1>c DEF Chain
<1>5. \A k \in 1 .. N : h[k - 1] \in V
  <2> HIDE DEF V
  <2> QED
    BY <1>1, <1>4
<1>6. \A k \in 1 .. N :
         h[k] = IF lines[k].from = d THEN Append(h[k - 1], lines[k]) ELSE h[k - 1]
  BY <1>3, <1>4, <1>5
<1>7. h = Among(h, d, lines)
  <2>1. \A k \in 0 .. N : k # 0 => k \in 1 .. N
    BY <1>1
  <2> HIDE DEF V
  <2> QED
    BY <1>4, <1>6, <2>1 DEF Among
<1> DEFINE f == CHOOSE g : g = Among(g, d, lines)
<1>8. f = Among(f, d, lines)
  BY <1>7
<1>9. Of(d, lines) = f[N]
  BY DEF Of, Among
<1> HIDE DEF f
<1> QED
  BY <1>8, <1>9

\* Of nothing, of one line more.
LEMMA OfOneMore ==
    ASSUME NEW S, NEW lines \in Seq(S), NEW line \in S, NEW d
    PROVE  /\ Of(d, << >>) = << >>
           /\ Of(d, Append(lines, line)) =
                 IF line.from = d THEN Append(Of(d, lines), line) ELSE Of(d, lines)
<1> DEFINE more == Append(lines, line)
           n == Len(lines)
<1>1. /\ << >> \in Seq(S) /\ more \in Seq(S) /\ n \in Nat /\ Len(more) = n + 1
      /\ more[n + 1] = line
      /\ \A k \in 1 .. n : more[k] = lines[k]
  OBVIOUS
<1>2. Of(d, << >>) = << >>
  <2>1. PICK f : f = Among(f, d, << >>) /\ Of(d, << >>) = f[Len(<< >>)]
    BY <1>1, OfByAmong
  <2>2. Len(<< >>) = 0
    OBVIOUS
  <2>3. f[0] = << >>
    BY <2>1, <2>2 DEF Among
  <2> QED
    BY <2>1, <2>2, <2>3
<1>3. PICK f : f = Among(f, d, lines) /\ Of(d, lines) = f[n]
  BY OfByAmong
<1> HIDE DEF more
<1>4. PICK g : g = Among(g, d, more) /\ Of(d, more) = g[n + 1]
  BY <1>1, OfByAmong
<1>5. f[0] = << >> /\ g[0] = << >>
  BY <1>1, <1>3, <1>4, 0 \in 0 .. n, 0 \in 0 .. n + 1 DEF Among
<1>6. \A k \in 1 .. n :
         /\ f[k] = IF lines[k].from = d THEN Append(f[k - 1], lines[k]) ELSE f[k - 1]
         /\ g[k] = IF lines[k].from = d THEN Append(g[k - 1], lines[k]) ELSE g[k - 1]
  <2> TAKE k \in 1 .. n
  <2>1. k \in 0 .. n /\ k \in 0 .. n + 1 /\ k # 0
    BY <1>1
  <2> QED
    BY <1>1, <1>3, <1>4, <2>1 DEF Among
<1>7. g[n + 1] = IF line.from = d THEN Append(g[n], line) ELSE g[n]
  <2>1. n + 1 \in 0 .. n + 1 /\ n + 1 # 0 /\ (n + 1) - 1 = n
    BY <1>1
  <2> QED
    BY <1>1, <1>4, <2>1 DEF Among
<1>8. f[n] = g[n]
  <2> DEFINE T == {k \in Nat : k <= n => f[k] = g[k]}
  <2>1. 0 \in T
    BY <1>5
  <2>2. ASSUME NEW k \in Nat, k \in T PROVE k + 1 \in T
    <3> SUFFICES ASSUME k + 1 <= n PROVE f[k + 1] = g[k + 1]
      OBVIOUS
    <3>1. f[k] = g[k] /\ k + 1 \in 1 .. n /\ (k + 1) - 1 = k
      BY <1>1, <2>2
    <3> QED
      BY <1>6, <3>1
  <2> HIDE DEF T
  <2>3. n \in T
    BY <1>1, <2>1, <2>2, Induct
  <2> QED
    BY <1>1, <2>3 DEF T
<1> QED
  BY <1>2, <1>3, <1>4, <1>7, <1>8 DEF more

\* Lines of d only are added to those of d, and are none of the others'.
LEMMA OfMore ==
    ASSUME NEW S, NEW lines \in Seq(S), NEW d, NEW more \in Seq(S),
           \A k \in 1 .. Len(more) : more[k].from = d
    PROVE  /\ Of(d, lines) \in Seq(S)
           /\ Of(d, lines \o more) = Of(d, lines) \o more
           /\ \A o : o # d => Of(o, lines \o more) = Of(o, lines)
<1>1. ASSUME NEW s \in Seq(S) PROVE Of(d, s) \in Seq(S)
  <2> DEFINE T == {n \in Nat : \A t \in Seq(S) : Len(t) = n => Of(d, t) \in Seq(S)}
  <2>1. 0 \in T
    <3> SUFFICES ASSUME NEW t \in Seq(S), Len(t) = 0 PROVE Of(d, t) \in Seq(S)
      OBVIOUS
    <3>1. t = << >> /\ << >> \in Seq(S)
      OBVIOUS
    <3>2. Of(d, << >>) = << >>
      <4>1. << >> \in Seq({0}) /\ 0 \in {0}
        OBVIOUS
      <4> QED
        BY <4>1, OfOneMore
    <3> QED
      BY <3>1, <3>2
  <2>2. ASSUME NEW n \in Nat, n \in T PROVE n + 1 \in T
    <3> SUFFICES ASSUME NEW t \in Seq(S), Len(t) = n + 1 PROVE Of(d, t) \in Seq(S)
      OBVIOUS
    <3> DEFINE u == SubSeq(t, 1, n)
               x == t[n + 1]
    <3>1. u \in Seq(S) /\ x \in S /\ Len(u) = n /\ t = Append(u, x)
      OBVIOUS
    <3> HIDE DEF u, x
    <3>2. Of(d, u) \in Seq(S)
      BY <2>2, <3>1
    <3>3. Of(d, t) = Append(Of(d, u), x) \/ Of(d, t) = Of(d, u)
      BY <3>1, OfOneMore
    <3>4. Append(Of(d, u), x) \in Seq(S)
      BY <3>1, <3>2
    <3> QED
      BY <3>2, <3>3, <3>4
  <2> HIDE DEF T
  <2>3. Len(s) \in T
    BY <2>1, <2>2, Induct
  <2> QED
    BY <2>3 DEF T
<1> DEFINE part(n) == SubSeq(more, 1, n)
           T == {n \in Nat : n <= Len(more) =>
                    /\ Of(d, lines \o part(n)) = Of(d, lines) \o part(n)
                    /\ \A o : o # d => Of(o, lines \o part(n)) = Of(o, lines)}
<1>2. 0 \in T
  <2>1. part(0) = << >> /\ lines \o << >> = lines
    OBVIOUS
  <2>2. Of(d, lines) \o << >> = Of(d, lines)
    BY <1>1
  <2> QED
    BY <2>1, <2>2
<1>3. ASSUME NEW n \in Nat, n \in T PROVE n + 1 \in T
  <2> SUFFICES ASSUME n + 1 <= Len(more)
               PROVE  /\ Of(d, lines \o part(n + 1)) = Of(d, lines) \o part(n + 1)
                      /\ \A o : o # d => Of(o, lines \o part(n + 1)) = Of(o, lines)
    OBVIOUS
  <2> DEFINE x == more[n + 1]
             p == part(n)
             q == part(n + 1)
  <2>1. x \in S /\ x.from = d /\ p \in Seq(S) /\ q = Append(p, x)
    OBVIOUS
  <2>2. /\ Of(d, lines \o p) = Of(d, lines) \o p
        /\ \A o : o # d => Of(o, lines \o p) = Of(o, lines)
    BY <1>3
  <2> HIDE DEF p, q, x, part
  <2>3. lines \o p \in Seq(S) /\ lines \o q = Append(lines \o p, x)
    BY <2>1
  <2>4. Of(d, lines) \o q = Append(Of(d, lines) \o p, x)
    BY <1>1, <2>1
  <2> DEFINE l == lines \o p
  <2>l. l \in Seq(S) /\ lines \o q = Append(l, x)
    BY <2>3
  <2> HIDE DEF l
  <2>m. \A o : Of(o, Append(l, x)) = IF x.from = o THEN Append(Of(o, l), x) ELSE Of(o, l)
    BY <2>1, <2>l, OfOneMore
  <2>5. Of(d, lines \o q) = Of(d, lines) \o q
    BY <2>1, <2>2, <2>4, <2>l, <2>m DEF l
  <2>6. ASSUME NEW o, o # d PROVE Of(o, lines \o q) = Of(o, lines)
    BY <2>1, <2>2, <2>6, <2>l, <2>m DEF l
  <2> QED
    BY <2>5, <2>6 DEF q
<1> HIDE DEF T
<1>4. Len(more) \in T
  BY <1>2, <1>3, Induct
<1>5. part(Len(more)) = more
  OBVIOUS
<1> HIDE DEF part
<1> QED
  BY <1>1, <1>4, <1>5 DEF T

-----------------------------------------------------------------------------
(* What a frame, and the traffic of a direction, show *)

\* What there is between two delimiters.
Inner == Byte \cup {BAD}

\* KISS has rejected the frame.
Rejected(open) == \E k \in 1 .. Len(open) : open[k] = BAD

\* The lines of a rejected frame: when it is rejected, and when it ends.
DecodeError(d) == << Line(d, <<"decode error">>) >>
EndError(d)    == << Line(d, <<"error">>) >>

\* The rejected symbol, the delimiter and the bytes differ.
LEMMA BadIsNoByte == BAD \notin Byte /\ FEND \notin Byte /\ BAD # FEND
  BY DEF BAD, FEND, Byte

\* Sequences of one kind, one after the other.
LEMMA Concat ==
    ASSUME NEW S, NEW s \in Seq(S), NEW t \in Seq(S)
    PROVE  /\ s \o t \in Seq(S)
           /\ s \o << >> = s
           /\ \A u \in Seq(S) : (s \o t) \o u = s \o (t \o u)
  OBVIOUS

\* A part of a sequence is of the whole's kind.
LEMMA PartType ==
    ASSUME NEW S, NEW s, NEW t, IsSeq(s), IsSeq(t), s \o t \in Seq(S)
    PROVE  t \in Seq(S)
<1>1. /\ Len(s \o t) = Len(s) + Len(t) /\ Len(s) \in Nat /\ Len(t) \in Nat
      /\ \A k \in 1 .. Len(t) : (s \o t)[Len(s) + k] = t[k]
  BY Glue, SeqFacts
<1>2. \A k \in 1 .. Len(t) : t[k] \in S
  <2> TAKE k \in 1 .. Len(t)
  <2> DEFINE u == s \o t
  <2>1. Len(s) + k \in 1 .. Len(u) /\ u \in Seq(S) /\ u[Len(s) + k] = t[k]
    BY <1>1
  <2> HIDE DEF u
  <2> QED
    BY <2>1, ElementOfSeq
<1>3. PICK U : t \in Seq(U)
  BY DEF IsSeq
<1>4. t = [k \in 1 .. Len(t) |-> t[k]]
  BY <1>3
<1>5. [k \in 1 .. Len(t) |-> t[k]] \in Seq(S)
  BY <1>1, <1>2
<1> QED
  BY <1>4, <1>5

\* What is printed of a frame that is rejected is among a direction's lines.
LEMMA ErrorLines ==
    ASSUME NEW d
    PROVE  DecodeError(d) \in Seq(Shown(d)) /\ EndError(d) \in Seq(Shown(d))
<1>1. << >> \in Seq(Byte)
  OBVIOUS
<1>2. Refusals(d) \subseteq Shown(d)
  <2> DEFINE X(f) == LinesSaid(d, f, FALSE) \cup LinesSaid(d, f, TRUE) \cup Refusals(d)
  <2>1. X(<< >>) \in {X(f) : f \in Seq(Byte)} /\ Refusals(d) \subseteq X(<< >>)
    BY <1>1
  <2>2. Shown(d) = UNION {X(f) : f \in Seq(Byte)}
    BY DEF Shown
  <2> HIDE DEF X
  <2> QED
    BY <2>1, <2>2
<1>3. Line(d, <<"decode error">>) \in Shown(d) /\ Line(d, <<"error">>) \in Shown(d)
  BY <1>2 DEF Refusals
<1>4. \A x \in Shown(d) : <<x>> \in Seq(Shown(d))
  OBVIOUS
<1> QED
  BY <1>3, <1>4 DEF DecodeError, EndError

\* A frame that is not rejected shows what its bytes say.
LEMMA ShowsBytes ==
    ASSUME NEW d, NEW open \in Seq(Byte)
    PROVE  /\ ~Rejected(open)
           /\ Shows(d, open, FALSE) = Said(d, open, FALSE)
           /\ Shows(d, open, TRUE) = Said(d, open, TRUE)
<1>1. ~Rejected(open)
  BY BadIsNoByte, ElementOfSeq DEF Rejected
<1> QED
  BY <1>1 DEF Rejected, Shows, Said

\* A rejected frame shows what its bytes said before, that it was rejected, and
\* nothing of what follows until it ends.
LEMMA ShowsRejected ==
    ASSUME NEW d, NEW open \in Seq(Inner), Rejected(open)
    PROVE  \E f \in Seq(Byte) :
             /\ \E n \in 0 .. Len(open) - 1 :
                   f = SubSeq(open, 1, n) /\ open[n + 1] = BAD /\ \A j \in 1 .. n : open[j] # BAD
             /\ Shows(d, open, FALSE) = Said(d, f, FALSE) \o DecodeError(d)
             /\ Shows(d, open, TRUE) = Said(d, f, FALSE) \o DecodeError(d) \o EndError(d)
<1> DEFINE P(k) == open[k] = BAD /\ \A j \in 1 .. k - 1 : open[j] # BAD
           first == CHOOSE k \in 1 .. Len(open) : P(k)
           f == SubSeq(open, 1, first - 1)
<1>1. \E k \in 1 .. Len(open) : P(k)
  <2> DEFINE T == {k \in 1 .. Len(open) : open[k] = BAD}
  <2>1. T \subseteq Nat /\ T # {}
    BY DEF Rejected
  <2>2. PICK k \in T : \A j \in T : k <= j
    <3> HIDE DEF T
    <3> QED
      BY <2>1, Least
  <2> QED
    BY <2>2
<1>2. first \in 1 .. Len(open) /\ P(first)
  BY <1>1
<1>3. f \in Seq(Byte)
  <2> HIDE DEF first
  <2>1. /\ f \in Seq(Inner) /\ Len(f) = first - 1
        /\ \A k \in 1 .. first - 1 : f[k] = open[k] /\ open[k] \in Byte
    BY <1>2 DEF Inner
  <2>2. f = [k \in 1 .. first - 1 |-> f[k]] /\ first - 1 \in Nat
    BY <1>2, <2>1
  <2> HIDE DEF f
  <2>3. [k \in 1 .. first - 1 |-> f[k]] \in Seq(Byte)
    BY <2>1, <2>2
  <2> QED
    BY <2>2, <2>3
<1>4. Said(d, f, FALSE) \o DecodeError(d) \in Seq(Shown(d))
  <2> HIDE DEF f
  <2>1. Said(d, f, FALSE) \in Seq(Shown(d))
    BY <1>3, SaidFacts
  <2> QED
    BY <2>1, ErrorLines, Concat
<1>5. /\ Shows(d, open, FALSE) = Said(d, f, FALSE) \o DecodeError(d) \o << >>
      /\ Shows(d, open, TRUE) = Said(d, f, FALSE) \o DecodeError(d) \o EndError(d)
  BY DEF Rejected, Shows, Said, DecodeError, EndError
<1>6. Shows(d, open, FALSE) = Said(d, f, FALSE) \o DecodeError(d)
  <2> HIDE DEF f
  <2> DEFINE s == Said(d, f, FALSE) \o DecodeError(d)
  <2>1. s \in Seq(Shown(d)) /\ Shows(d, open, FALSE) = s \o << >>
    BY <1>4, <1>5
  <2> HIDE DEF s
  <2>2. s \o << >> = s
    BY <2>1, Concat
  <2> QED
    BY <2>1, <2>2 DEF s
<1>7. /\ first - 1 \in 0 .. Len(open) - 1
      /\ f = SubSeq(open, 1, first - 1) /\ open[(first - 1) + 1] = BAD
      /\ \A j \in 1 .. first - 1 : open[j] # BAD
  <2> HIDE DEF first
  <2> QED
    BY <1>2
<1> HIDE DEF first, f
<1> QED
  BY <1>3, <1>5, <1>6, <1>7

\* The byte KISS rejects, and those after it.
LEMMA ShowsMore ==
    ASSUME NEW d, NEW open \in Seq(Inner)
    PROVE  /\ open \in Seq(Byte) =>
                 /\ Rejected(Append(open, BAD))
                 /\ Shows(d, Append(open, BAD), FALSE) = Said(d, open, FALSE) \o DecodeError(d)
           /\ Rejected(open) =>
                 /\ \A s \in Inner : /\ Rejected(Append(open, s))
                                     /\ Shows(d, Append(open, s), FALSE) = Shows(d, open, FALSE)
                 /\ Shows(d, open, TRUE) = Shows(d, open, FALSE) \o EndError(d)
           /\ Shows(d, open, TRUE) \in Seq(Shown(d)) /\ Shows(d, open, FALSE) \in Seq(Shown(d))
<1>1. ASSUME open \in Seq(Byte)
      PROVE  /\ Rejected(Append(open, BAD))
             /\ Shows(d, Append(open, BAD), FALSE) = Said(d, open, FALSE) \o DecodeError(d)
  <2> DEFINE more == Append(open, BAD)
  <2>1. /\ more \in Seq(Inner) /\ Len(more) = Len(open) + 1 /\ more[Len(open) + 1] = BAD
        /\ SubSeq(more, 1, Len(open)) = open
        /\ \A k \in 1 .. Len(open) : more[k] \in Byte
    BY <1>1 DEF Inner
  <2> HIDE DEF more
  <2>2. Rejected(more)
    BY <2>1 DEF Rejected
  <2>3. PICK f \in Seq(Byte) :
           /\ \E n \in 0 .. Len(more) - 1 :
                 f = SubSeq(more, 1, n) /\ more[n + 1] = BAD /\ \A j \in 1 .. n : more[j] # BAD
           /\ Shows(d, more, FALSE) = Said(d, f, FALSE) \o DecodeError(d)
    BY <2>1, <2>2, ShowsRejected
  <2>4. PICK n \in 0 .. Len(more) - 1 :
           f = SubSeq(more, 1, n) /\ more[n + 1] = BAD /\ \A j \in 1 .. n : more[j] # BAD
    BY <2>3
  <2>5. n = Len(open)
    <3>1. more[n + 1] = BAD /\ \A k \in 1 .. Len(open) : more[k] # BAD
      BY <2>1, <2>4, BadIsNoByte
    <3>2. Len(open) \in Nat /\ n \in 0 .. Len(open)
      BY <1>1, <2>1
    <3>3. n + 1 \notin 1 .. Len(open)
      BY <3>1
    <3> QED
      BY <3>2, <3>3
  <2> QED
    BY <2>1, <2>2, <2>3, <2>4, <2>5 DEF more
<1>2. ASSUME Rejected(open), NEW s \in Inner
      PROVE  /\ Rejected(Append(open, s))
             /\ Shows(d, Append(open, s), FALSE) = Shows(d, open, FALSE)
  <2> DEFINE more == Append(open, s)
  <2>1. /\ more \in Seq(Inner) /\ Len(more) = Len(open) + 1
        /\ \A k \in 1 .. Len(open) : more[k] = open[k]
        /\ \A n \in 0 .. Len(open) - 1 : SubSeq(more, 1, n) = SubSeq(open, 1, n)
    OBVIOUS
  <2> HIDE DEF more
  <2>2. Rejected(more)
    BY <1>2, <2>1 DEF Rejected
  <2>3. PICK f \in Seq(Byte) :
           /\ \E n \in 0 .. Len(more) - 1 :
                 f = SubSeq(more, 1, n) /\ more[n + 1] = BAD /\ \A j \in 1 .. n : more[j] # BAD
           /\ Shows(d, more, FALSE) = Said(d, f, FALSE) \o DecodeError(d)
    BY <2>1, <2>2, ShowsRejected
  <2>4. PICK n \in 0 .. Len(more) - 1 :
           f = SubSeq(more, 1, n) /\ more[n + 1] = BAD /\ \A j \in 1 .. n : more[j] # BAD
    BY <2>3
  <2>5. PICK g \in Seq(Byte) :
           /\ \E m \in 0 .. Len(open) - 1 :
                 g = SubSeq(open, 1, m) /\ open[m + 1] = BAD /\ \A j \in 1 .. m : open[j] # BAD
           /\ Shows(d, open, FALSE) = Said(d, g, FALSE) \o DecodeError(d)
    BY <1>2, ShowsRejected
  <2>6. PICK m \in 0 .. Len(open) - 1 :
           g = SubSeq(open, 1, m) /\ open[m + 1] = BAD /\ \A j \in 1 .. m : open[j] # BAD
    BY <2>5
  <2>7. n = m
    <3>1. more[m + 1] = BAD
      BY <2>1, <2>6
    <3>2. ~(m < n)
      <4> SUFFICES ASSUME m < n PROVE FALSE
        OBVIOUS
      <4>1. m + 1 \in 1 .. n
        BY <2>4, <2>6
      <4> QED
        BY <2>4, <3>1, <4>1
    <3>3. ~(n < m)
      <4> SUFFICES ASSUME n < m PROVE FALSE
        OBVIOUS
      <4>1. n + 1 \in 1 .. m /\ n + 1 \in 1 .. Len(open)
        BY <2>6
      <4> QED
        BY <2>1, <2>4, <2>6, <4>1
    <3> QED
      BY <3>2, <3>3
  <2>8. f = g
    BY <2>1, <2>4, <2>6, <2>7
  <2> QED
    BY <2>2, <2>3, <2>5, <2>8 DEF more
<1>3. ASSUME Rejected(open)
      PROVE  /\ Shows(d, open, TRUE) = Shows(d, open, FALSE) \o EndError(d)
             /\ Shows(d, open, TRUE) \in Seq(Shown(d)) /\ Shows(d, open, FALSE) \in Seq(Shown(d))
  <2>1. PICK f \in Seq(Byte) :
           /\ Shows(d, open, FALSE) = Said(d, f, FALSE) \o DecodeError(d)
           /\ Shows(d, open, TRUE) = Said(d, f, FALSE) \o DecodeError(d) \o EndError(d)
    BY <1>3, ShowsRejected
  <2>2. Said(d, f, FALSE) \in Seq(Shown(d))
    BY SaidFacts
  <2>3. Said(d, f, FALSE) \o DecodeError(d) \in Seq(Shown(d))
    BY <2>2, ErrorLines, Concat
  <2>4. (Said(d, f, FALSE) \o DecodeError(d)) \o EndError(d) \in Seq(Shown(d))
    BY <2>3, ErrorLines, Concat
  <2> QED
    BY <2>1, <2>3, <2>4
<1>4. ASSUME ~Rejected(open) PROVE open \in Seq(Byte)
  <2>1. \A k \in 1 .. Len(open) : open[k] \in Byte
    BY <1>4 DEF Rejected, Inner
  <2>2. Len(open) \in Nat /\ open = [k \in 1 .. Len(open) |-> open[k]]
    OBVIOUS
  <2>3. [k \in 1 .. Len(open) |-> open[k]] \in Seq(Byte)
    BY <2>1, <2>2
  <2> QED
    BY <2>2, <2>3
<1>5. ASSUME ~Rejected(open)
      PROVE  Shows(d, open, TRUE) \in Seq(Shown(d)) /\ Shows(d, open, FALSE) \in Seq(Shown(d))
  BY <1>4, <1>5, ShowsBytes, SaidFacts
<1> QED
  BY <1>1, <1>2, <1>3, <1>5

\* f[n] is what has been heard of a direction after n symbols.
HeardSoFar(f, d, symbols) ==
    [n \in 0 .. Len(symbols) |->
        IF n = 0 THEN [open |-> << >>, lines |-> << >>] ELSE Hear(d, f[n - 1], symbols[n])]

\* The frame begun, and the lines of those that ended.
Hearing(d) == [open : Seq(Inner), lines : Seq(Shown(d))]

\* A symbol heard between delimiters keeps a frame a frame, and lines lines.
LEMMA HearType ==
    ASSUME NEW d, NEW heard \in Hearing(d), NEW s \in Symbol
    PROVE  Hear(d, heard, s) \in Hearing(d)
<1>1. CASE s = FEND
  <2>1. heard.lines \in Seq(Shown(d)) /\ Shows(d, heard.open, TRUE) \in Seq(Shown(d))
    BY ShowsMore DEF Hearing
  <2>2. << >> \in Seq(Inner)
    OBVIOUS
  <2>3. heard.lines \o Shows(d, heard.open, TRUE) \in Seq(Shown(d))
    BY <2>1, Concat
  <2> QED
    BY <1>1, <2>2, <2>3 DEF Hear, Hearing
<1>2. CASE s # FEND
  <2>1. s \in Inner
    BY <1>2 DEF Inner, Symbol
  <2>2. Append(heard.open, s) \in Seq(Inner) /\ heard.lines \in Seq(Shown(d))
    BY <2>1 DEF Hearing
  <2> QED
    BY <1>2, <2>2 DEF Hear, Hearing
<1> QED
  BY <1>1, <1>2

\* Heard is Hear, applied to the symbols one after the other.
LEMMA HeardByHear ==
    ASSUME NEW d, NEW symbols \in Seq(Symbol)
    PROVE  \E f : /\ f[0] = [open |-> << >>, lines |-> << >>]
                  /\ \A k \in 1 .. Len(symbols) : f[k] = Hear(d, f[k - 1], symbols[k])
                  /\ Heard(d, symbols) = f[Len(symbols)]
<1> DEFINE N == Len(symbols)
           V == Hearing(d)
           a == [open |-> << >>, lines |-> << >>]
           G == [k \in 1 .. N |-> [v \in V |-> Hear(d, v, symbols[k])]]
<1>1. N \in Nat /\ a \in V
  <2>1. << >> \in Seq(Inner) /\ << >> \in Seq(Shown(d))
    OBVIOUS
  <2> QED
    BY <2>1 DEF Hearing
<1>2. G \in [1 .. N -> [V -> V]]
  BY HearType, ElementOfSeq
<1>3. \A k \in 1 .. N, v \in V : G[k][v] = Hear(d, v, symbols[k])
  OBVIOUS
<1> HIDE DEF G
<1>c. PICK h : Chain(h, G, N, V, a)
  <2>1. Links(G, N, V)
    BY <1>2 DEF Links
  <2> HIDE DEF N, V, a
  <2> QED
    BY <1>1, <2>1, Recursion
<1>4. h \in [0 .. N -> V] /\ h[0] = a /\ \A k \in 1 .. N : h[k] = G[k][h[k - 1]]
  BY <1>c DEF Chain
<1>5. \A k \in 1 .. N : h[k - 1] \in V
  <2> HIDE DEF V
  <2> QED
    BY <1>1, <1>4
<1>6. \A k \in 1 .. N : h[k] = Hear(d, h[k - 1], symbols[k])
  BY <1>3, <1>4, <1>5
<1>7. h = HeardSoFar(h, d, symbols)
  <2>1. \A k \in 0 .. N : k # 0 => k \in 1 .. N
    BY <1>1
  <2> HIDE DEF V
  <2> QED
    BY <1>4, <1>6, <2>1 DEF HeardSoFar
<1> DEFINE f == CHOOSE g : g = HeardSoFar(g, d, symbols)
<1>8. f = HeardSoFar(f, d, symbols)
  BY <1>7
<1>9. Heard(d, symbols) = f[N]
  BY DEF Heard, HeardSoFar
<1> HIDE DEF f
<1>10. f[0] = a /\ \A k \in 1 .. N : f[k] = Hear(d, f[k - 1], symbols[k])
  <2>1. 0 \in 0 .. N /\ \A k \in 1 .. N : k \in 0 .. N /\ k # 0
    BY <1>1
  <2> QED
    BY <1>8, <2>1 DEF HeardSoFar
<1> QED
  BY <1>9, <1>10

\* Of nothing, of one symbol more.
LEMMA HeardOneMore ==
    ASSUME NEW d, NEW symbols \in Seq(Symbol), NEW s \in Symbol
    PROVE  /\ Heard(d, << >>) = [open |-> << >>, lines |-> << >>]
           /\ Heard(d, symbols) \in Hearing(d)
           /\ Heard(d, Append(symbols, s)) = Hear(d, Heard(d, symbols), s)
<1> DEFINE more == Append(symbols, s)
           n == Len(symbols)
           a == [open |-> << >>, lines |-> << >>]
<1>1. /\ << >> \in Seq(Symbol) /\ Len(<< >>) = 0
      /\ more \in Seq(Symbol) /\ n \in Nat /\ Len(more) = n + 1
      /\ more[n + 1] = s
      /\ \A k \in 1 .. n : more[k] = symbols[k]
  OBVIOUS
<1>2. Heard(d, << >>) = a
  BY <1>1, HeardByHear, ZenonT(60)
<1>0. a \in Hearing(d)
  <2>1. << >> \in Seq(Inner) /\ << >> \in Seq(Shown(d))
    OBVIOUS
  <2> QED
    BY <2>1 DEF Hearing
<1> HIDE DEF a, more
<1>3. PICK f : /\ f[0] = a
               /\ \A k \in 1 .. n : f[k] = Hear(d, f[k - 1], symbols[k])
               /\ Heard(d, symbols) = f[n]
  BY HeardByHear DEF a
<1>h. PICK g : /\ g[0] = a
               /\ \A k \in 1 .. Len(more) : g[k] = Hear(d, g[k - 1], more[k])
               /\ Heard(d, more) = g[Len(more)]
  BY <1>1, HeardByHear DEF a
<1>4. /\ g[0] = a
      /\ \A k \in 1 .. n + 1 : g[k] = Hear(d, g[k - 1], more[k])
      /\ Heard(d, more) = g[n + 1]
  BY <1>1, <1>h
<1> DEFINE T == {k \in Nat : k <= n => f[k] = g[k] /\ f[k] \in Hearing(d)}
<1>5. 0 \in T
  BY <1>0, <1>3, <1>4
<1>6. ASSUME NEW k \in Nat, k \in T PROVE k + 1 \in T
  <2> SUFFICES ASSUME k + 1 <= n PROVE f[k + 1] = g[k + 1] /\ f[k + 1] \in Hearing(d)
    OBVIOUS
  <2>1. /\ f[k] = g[k] /\ f[k] \in Hearing(d)
        /\ k + 1 \in 1 .. n /\ k + 1 \in 1 .. n + 1 /\ (k + 1) - 1 = k
    BY <1>1, <1>6
  <2>2. symbols[k + 1] \in Symbol /\ more[k + 1] = symbols[k + 1]
    BY <1>1, <2>1
  <2> QED
    BY <1>3, <1>4, <2>1, <2>2, HearType
<1> HIDE DEF T
<1>7. n \in T
  BY <1>1, <1>5, <1>6, Induct
<1>8. f[n] = g[n] /\ f[n] \in Hearing(d)
  BY <1>1, <1>7 DEF T
<1>9. n + 1 \in 1 .. n + 1 /\ (n + 1) - 1 = n
  BY <1>1
<1> QED
  BY <1>1, <1>2, <1>3, <1>4, <1>8, <1>9 DEF more, a

\* What KISS hears between two delimiters is part of a frame.
LEMMA HeardType ==
    ASSUME NEW d, NEW symbols \in Seq(Symbol)
    PROVE  /\ Heard(d, symbols).open \in Seq(Inner)
           /\ Heard(d, symbols).lines \in Seq(Shown(d))
           /\ ShowsAll(d, symbols) \in Seq(Shown(d))
           /\ Heard(d, << >>).open = << >> /\ ShowsAll(d, << >>) = << >>
<1>0. 0 \in Symbol /\ << >> \in Seq(Inner) /\ << >> \in Seq(Byte)
  BY DEF Symbol, Byte
<1>1. Heard(d, symbols) \in Hearing(d)
  BY <1>0, HeardOneMore
<1>2. Heard(d, symbols).open \in Seq(Inner) /\ Heard(d, symbols).lines \in Seq(Shown(d))
  BY <1>1 DEF Hearing
<1>3. Shows(d, Heard(d, symbols).open, FALSE) \in Seq(Shown(d))
  BY <1>2, ShowsMore
<1>4. ShowsAll(d, symbols) \in Seq(Shown(d))
  BY <1>2, <1>3, Concat DEF ShowsAll
<1>5. Heard(d, << >>) = [open |-> << >>, lines |-> << >>]
  BY <1>0, HeardOneMore
<1>6. Shows(d, << >>, FALSE) = << >>
  BY <1>0, ShowsBytes, SaidFacts
<1>7. << >> \o << >> = << >>
  OBVIOUS
<1>8. ShowsAll(d, << >>) = << >>
  <2> DEFINE h == Heard(d, << >>)
  <2>1. h.lines = << >> /\ h.open = << >>
    BY <1>5
  <2>2. ShowsAll(d, << >>) = h.lines \o Shows(d, h.open, FALSE)
    BY DEF ShowsAll
  <2> HIDE DEF h
  <2> QED
    BY <1>6, <1>7, <2>1, <2>2
<1> QED
  BY <1>2, <1>4, <1>5, <1>8

\* What another symbol shows is what it adds to the frame it belongs to.
LEMMA ShowsAllMore ==
    ASSUME NEW d, NEW symbols \in Seq(Symbol), NEW s \in Symbol, NEW lines \in Seq(Shown(d)),
           LET open == Heard(d, symbols).open
           IN  (IF s = FEND THEN Shows(d, open, TRUE) ELSE Shows(d, Append(open, s), FALSE))
                   = Shows(d, open, FALSE) \o lines
    PROVE  /\ Append(symbols, s) \in Seq(Symbol)
           /\ ShowsAll(d, Append(symbols, s)) = ShowsAll(d, symbols) \o lines
           /\ Heard(d, Append(symbols, s)).open =
                 IF s = FEND THEN << >> ELSE Append(Heard(d, symbols).open, s)
<1> DEFINE open == Heard(d, symbols).open
           l == Heard(d, symbols).lines
           now == Shows(d, open, FALSE)
           h == Heard(d, Append(symbols, s))
<1>0. Append(symbols, s) \in Seq(Symbol)
  OBVIOUS
<1>1. open \in Seq(Inner) /\ l \in Seq(Shown(d)) /\ << >> \in Seq(Byte)
  BY HeardType
<1>2. now \in Seq(Shown(d))
  BY <1>1, ShowsMore
<1>3. l \o (now \o lines) = ShowsAll(d, symbols) \o lines
  <2>1. (l \o now) \o lines = l \o (now \o lines)
    <3> DEFINE S == Shown(d)
    <3>1. l \in Seq(S) /\ now \in Seq(S) /\ lines \in Seq(S)
      BY <1>1, <1>2
    <3> HIDE DEF l, now, S
    <3>2. \A u \in Seq(S) : (l \o now) \o u = l \o (now \o u)
      BY ONLY <3>1, Concat
    <3> QED
      BY ONLY <3>1, <3>2
  <2> QED
    BY <2>1 DEF ShowsAll
<1>4. h = Hear(d, Heard(d, symbols), s)
  BY HeardOneMore
<1>5. CASE s = FEND
  <2>1. h.open = << >> /\ h.lines = l \o Shows(d, open, TRUE)
    <3> HIDE DEF h
    <3> QED
      BY <1>4, <1>5 DEF Hear
  <2>2. Shows(d, open, TRUE) = now \o lines
    BY <1>5
  <2>3. Shows(d, << >>, FALSE) = << >>
    BY <1>1, ShowsBytes, SaidFacts
  <2>4. h.lines \o << >> = h.lines
    <3>1. h.lines \in Seq(Shown(d))
      BY <1>0, HeardType
    <3> QED
      BY <3>1
  <2>5. ShowsAll(d, Append(symbols, s)) = h.lines
    BY <2>1, <2>3, <2>4 DEF ShowsAll
  <2> QED
    BY <1>0, <1>3, <1>5, <2>1, <2>2, <2>5
<1>6. CASE s # FEND
  <2>1. h.open = Append(open, s) /\ h.lines = l
    <3> HIDE DEF h
    <3> QED
      BY <1>4, <1>6 DEF Hear
  <2>2. Shows(d, Append(open, s), FALSE) = now \o lines
    BY <1>6
  <2>3. ShowsAll(d, Append(symbols, s)) = l \o Shows(d, Append(open, s), FALSE)
    BY <2>1 DEF ShowsAll
  <2> QED
    BY <1>0, <1>3, <1>6, <2>1, <2>2, <2>3
<1> QED
  BY <1>5, <1>6

-----------------------------------------------------------------------------
(* Each direction by itself *)

\* Per direction, a KISS decoder's state is that of the frame it hears, its
\* context holds what the frame's bytes are, and what was printed of it is what
\* its traffic shows.
Hears ==
    /\ taken \in [Direction -> Seq(Symbol)]
    /\ printed \in Seq(AnyLine)
    /\ \A d \in Direction :
          LET open == Heard(d, taken[d]).open
          IN  /\ kiss[d] = "idle" => open = << >>
              /\ kiss[d] = "frame" => open = ctx[d].heard
              /\ kiss[d] = "bad" => Rejected(open)
    /\ EachDirectionByItself

\* A symbol is fed to one direction's decoder; the other hears nothing.
LEMMA HearsPut ==
    ASSUME MonInv, Hears, NEW symbols, NEW k, NEW c, NEW lines,
           KissPut(symbols, k, c, lines),
           lines \in Seq(Shown(todo.from)),
           LET d    == todo.from
               s    == Head(todo.bytes)
               open == Heard(d, taken[d]).open
               more == IF s = FEND THEN << >> ELSE Append(open, s)
           IN  /\ (IF s = FEND THEN Shows(d, open, TRUE) ELSE Shows(d, more, FALSE))
                      = Shows(d, open, FALSE) \o lines
               /\ k = "idle" => more = << >>
               /\ k = "frame" => more = c.heard
               /\ k = "bad" => Rejected(more)
    PROVE  Hears'
<1> DEFINE d == todo.from
           s == Head(todo.bytes)
           open == Heard(d, taken[d]).open
           more == IF s = FEND THEN << >> ELSE Append(open, s)
<1>1. /\ d \in Direction /\ s \in Symbol
      /\ kiss' = [kiss EXCEPT ![d] = k] /\ kiss \in [Direction -> {"idle", "frame", "bad"}]
      /\ ctx' = [ctx EXCEPT ![d] = c] /\ DOMAIN ctx = Direction
      /\ taken' = [taken EXCEPT ![d] = Append(@, s)]
      /\ printed' = printed \o lines
      /\ taken \in [Direction -> Seq(Symbol)] /\ printed \in Seq(AnyLine)
  BY DEF KissPut, MonInv, TypeOK, Hears
<1> HIDE DEF s
<1>2. taken[d] \in Seq(Symbol)
  BY <1>1
<1>3. /\ Append(taken[d], s) \in Seq(Symbol)
      /\ ShowsAll(d, Append(taken[d], s)) = ShowsAll(d, taken[d]) \o lines
      /\ Heard(d, Append(taken[d], s)).open = more
  <2>1. IF s = FEND THEN Shows(d, open, TRUE) = Shows(d, open, FALSE) \o lines
                    ELSE Shows(d, Append(open, s), FALSE) = Shows(d, open, FALSE) \o lines
    BY DEF s
  <2>2. (IF s = FEND THEN Shows(d, open, TRUE) ELSE Shows(d, Append(open, s), FALSE))
                   = Shows(d, open, FALSE) \o lines
    BY <2>1
  <2>3. lines \in Seq(Shown(d))
    OBVIOUS
  <2> HIDE DEF d
  <2> QED
    BY <1>1, <1>2, <2>2, <2>3, ShowsAllMore, ZenonT(60)
<1>4. /\ k = "idle" => more = << >>
      /\ k = "frame" => more = c.heard
      /\ k = "bad" => Rejected(more)
  BY DEF s
<1>5. lines \in Seq(AnyLine) /\ \A i \in 1 .. Len(lines) : lines[i].from = d
  <2>1. Shown(d) \subseteq AnyLine
    BY <1>1 DEF Direction, AnyLine
  <2>2. lines \in Seq(Shown(d)) /\ lines \in Seq(AnyLine)
    BY <2>1, SeqMonotonic
  <2>3. \A i \in 1 .. Len(lines) : lines[i] \in Shown(d)
    BY <2>2
  <2> HIDE DEF d
  <2> QED
    BY <2>2, <2>3, LineFrom
<1>6. /\ Of(d, printed') = Of(d, printed) \o lines
      /\ \A o : o # d => Of(o, printed') = Of(o, printed)
  <2> HIDE DEF d
  <2> QED
    BY <1>1, <1>5, OfMore
<1>7. /\ taken'[d] = Append(taken[d], s) /\ kiss'[d] = k /\ ctx'[d] = c
      /\ \A o \in Direction : o # d => taken'[o] = taken[o] /\ kiss'[o] = kiss[o] /\ ctx'[o] = ctx[o]
      /\ taken' \in [Direction -> Seq(Symbol)]
  <2> HIDE DEF d
  <2> QED
    BY <1>1, <1>3
<1>8. printed' \in Seq(AnyLine)
  BY <1>1, <1>5, Concat
<1> HIDE DEF more, d
<1>9. ASSUME NEW o \in Direction
      PROVE  /\ kiss'[o] = "idle" => Heard(o, taken'[o]).open = << >>
             /\ kiss'[o] = "frame" => Heard(o, taken'[o]).open = ctx'[o].heard
             /\ kiss'[o] = "bad" => Rejected(Heard(o, taken'[o]).open)
             /\ Of(o, printed') = ShowsAll(o, taken'[o])
  <2>1. Of(o, printed) = ShowsAll(o, taken[o])
    BY DEF Hears, EachDirectionByItself
  <2>2. CASE o = d
    BY <1>3, <1>4, <1>6, <1>7, <2>1, <2>2
  <2>3. CASE o # d
    BY <1>6, <1>7, <2>1, <2>3 DEF Hears
  <2> QED
    BY <2>2, <2>3
<1> QED
  BY <1>7, <1>8, <1>9 DEF Hears, EachDirectionByItself

\* The bytes a decoder is given and the frame KISS hears agree when the frame
\* begins, and while it goes on.
LEMMA HearsFeed ==
    ASSUME MonInv, Hears, Feed
    PROVE  Hears'
<1> DEFINE d == todo.from
           s == Head(todo.bytes)
           open == Heard(d, taken[d]).open
           now == Shows(d, open, FALSE)
           c == IF kiss[d] = "idle" THEN DecoderStart(ctx[d]) ELSE ctx[d]
<1>1. /\ d \in Direction /\ taken[d] \in Seq(Symbol)
      /\ ctx[d] \in [frame_len : 0 .. MAX_FRAME_BYTES, heard : Seq(Byte)]
      /\ kiss[d] \in {"idle", "frame", "bad"}
      /\ kiss[d] = "idle" => open = << >>
      /\ kiss[d] = "frame" => open = ctx[d].heard
      /\ kiss[d] = "bad" => Rejected(open)
  BY DEF MonInv, TypeOK, Hears
<1>2. open \in Seq(Inner) /\ << >> \in Seq(Byte)
  <2> HIDE DEF d
  <2> QED
    BY <1>1, HeardType
<1>3. kiss[d] # "bad" => open = c.heard /\ open \in Seq(Byte)
  <2>1. DecoderStart(ctx[d]).heard = << >> /\ ctx[d].heard \in Seq(Byte)
    BY <1>1 DEF DecoderStart
  <2>2. CASE kiss[d] = "idle"
    <3> HIDE DEF open, d
    <3> QED
      BY <1>1, <1>2, <2>1, <2>2
  <2>3. CASE kiss[d] = "frame"
    <3> HIDE DEF open, d
    <3> QED
      BY <1>1, <2>1, <2>3
  <2>4. CASE kiss[d] = "bad"
    BY <2>4
  <2> HIDE DEF open, c, d
  <2> QED
    BY <1>1, <2>2, <2>3, <2>4
<1>4. now \in Seq(Shown(d))
  BY <1>2, ShowsMore
<1> DEFINE Follows(k, h, lines) ==
              /\ lines \in Seq(Shown(d))
              /\ (IF s = FEND THEN Shows(d, open, TRUE) ELSE Shows(d, Append(open, s), FALSE))
                    = now \o lines
              /\ k = "idle" => (IF s = FEND THEN << >> ELSE Append(open, s)) = << >>
              /\ k = "frame" => (IF s = FEND THEN << >> ELSE Append(open, s)) = h
              /\ k = "bad" => Rejected(IF s = FEND THEN << >> ELSE Append(open, s))
<1>5. ASSUME NEW symbols, NEW k, NEW x, NEW lines, KissPut(symbols, k, x, lines),
             Follows(k, x.heard, lines)
      PROVE  Hears'
  <2> DEFINE more == IF s = FEND THEN << >> ELSE Append(open, s)
  <2>1. (IF s = FEND THEN Shows(d, open, TRUE) ELSE Shows(d, more, FALSE)) = now \o lines
    BY <1>5
  <2>2. /\ lines \in Seq(Shown(d))
        /\ k = "idle" => more = << >>
        /\ k = "frame" => more = x.heard
        /\ k = "bad" => Rejected(more)
    BY <1>5
  <2> QED
    BY <1>5, <2>1, <2>2, HearsPut
<1>6. CASE KissByte
  <2> DEFINE x == DecoderData(c, s)
             lines == DataLines(d, c, s)
  <2>1. KissPut(Byte, "frame", x, lines) /\ kiss[d] # "bad" /\ s \in Byte
    BY <1>6 DEF KissByte, KissPut
  <2>2. open = c.heard /\ open \in Seq(Byte) /\ Append(open, s) \in Seq(Byte) /\ s # FEND
    BY <1>3, <2>1, BadIsNoByte
  <2>3. x.heard = Append(open, s)
    BY <2>2 DEF DecoderData
  <2> HIDE DEF d, s, open, c
  <2>4. /\ Said(d, open, FALSE) \o lines = Said(d, Append(open, s), FALSE)
        /\ now = Said(d, open, FALSE)
        /\ Shows(d, Append(open, s), FALSE) = Said(d, Append(open, s), FALSE)
    BY <2>1, <2>2, SaidFacts, ShowsBytes, ZenonT(60)
  <2>5. lines \in Seq(Shown(d))
    <3>1. /\ Longer(Meaning(d, open, FALSE), Meaning(d, Append(open, s), FALSE))
          /\ IsSeq(lines)
      BY <2>1, <2>2, MeaningGrows, LinesOfNew DEF DataLines
    <3>2. Said(d, Append(open, s), FALSE) \in Seq(Shown(d)) /\ IsSeq(Said(d, open, FALSE))
      BY <2>2, SaidFacts DEF IsSeq
    <3> HIDE DEF lines
    <3> QED
      BY <2>4, <3>1, <3>2, PartType
  <2> HIDE DEF x, lines, now
  <2>6. Follows("frame", x.heard, lines)
    BY <2>2, <2>3, <2>4, <2>5
  <2> HIDE DEF Follows
  <2> QED
    BY <1>5, <2>1, <2>6
<1>7. CASE KissError
  <2>1. KissPut({BAD}, "bad", c, DecodeError(d)) /\ kiss[d] # "bad" /\ s = BAD
    BY <1>7 DEF KissError, KissPut, DecoderError, DecodeError
  <2>2. open \in Seq(Byte) /\ s # FEND
    BY <1>3, <2>1, BadIsNoByte
  <2> HIDE DEF d, s, open, c
  <2>3. /\ now = Said(d, open, FALSE)
        /\ Rejected(Append(open, s))
        /\ Shows(d, Append(open, s), FALSE) = Said(d, open, FALSE) \o DecodeError(d)
    BY <1>2, <2>1, <2>2, ShowsBytes, ShowsMore
  <2> HIDE DEF now
  <2>4. Follows("bad", c.heard, DecodeError(d))
    BY <2>2, <2>3, ErrorLines
  <2> HIDE DEF Follows
  <2> QED
    BY <1>5, <2>1, <2>4
<1>8. CASE KissEnd
  <2> DEFINE lines == DecoderEnd(d, ctx[d], kiss[d] = "frame")
  <2>1. KissPut({FEND}, "idle", ctx[d], lines) /\ kiss[d] # "idle" /\ s = FEND
    BY <1>8 DEF KissEnd, KissPut
  <2>2. /\ kiss[d] = "frame" =>
              lines = Lines(d, New(Meaning(d, ctx[d].heard, FALSE), Meaning(d, ctx[d].heard, TRUE)))
        /\ kiss[d] # "frame" => lines = EndError(d)
    BY DEF DecoderEnd, EndError
  <2> HIDE DEF d, s, open, lines
  <2>3. Shows(d, open, TRUE) = now \o lines /\ lines \in Seq(Shown(d))
    <3>1. CASE kiss[d] = "frame"
      <4>1. /\ open \in Seq(Byte)
            /\ lines = Lines(d, New(Meaning(d, open, FALSE), Meaning(d, open, TRUE)))
        BY <1>1, <2>2, <3>1
      <4>2. /\ Said(d, open, FALSE) \o lines = Said(d, open, TRUE)
            /\ now = Said(d, open, FALSE)
            /\ Shows(d, open, TRUE) = Said(d, open, TRUE)
        BY <4>1, SaidFacts, ShowsBytes
      <4>3. lines \in Seq(Shown(d))
        <5>0. 0 \in Byte
          BY DEF Byte
        <5>1. IsSeq(lines)
          BY <4>1, <5>0, MeaningGrows, LinesOfNew
        <5>2. Said(d, open, TRUE) \in Seq(Shown(d)) /\ IsSeq(Said(d, open, FALSE))
          BY <4>1, SaidFacts DEF IsSeq
        <5> QED
          BY <4>2, <5>1, <5>2, PartType
      <4> QED
        BY <4>2, <4>3
    <3>2. CASE kiss[d] = "bad"
      BY <1>1, <1>2, <2>2, <3>2, ShowsMore, ErrorLines
    <3> QED
      BY <1>1, <2>1, <3>1, <3>2
  <2> HIDE DEF now
  <2>4. Follows("idle", ctx[d].heard, lines)
    BY <2>1, <2>3
  <2> HIDE DEF Follows
  <2> QED
    BY <1>5, <2>1, <2>4
<1>9. CASE KissSkip
  <2>0. << >> \in Seq(Shown(d)) /\ now \o << >> = now
    <3> HIDE DEF now
    <3> QED
      BY <1>4, Concat
  <2>1. CASE kiss[d] = "idle" /\ KissPut({FEND}, "idle", ctx[d], << >>)
    <3>1. s = FEND
      BY <2>1 DEF KissPut
    <3>2. Shows(d, open, TRUE) = << >> /\ now = << >>
      <4>1. open = << >>
        BY <1>1, <2>1
      <4>2. Shows(d, << >>, TRUE) = << >> /\ Shows(d, << >>, FALSE) = << >>
        <5> HIDE DEF d
        <5> QED
          BY <1>2, ShowsBytes, SaidFacts
      <4> HIDE DEF open, d
      <4> QED
        BY <4>1, <4>2
    <3> HIDE DEF d, s, open, now
    <3>3. Follows("idle", ctx[d].heard, << >>)
      BY <2>0, <3>1, <3>2
    <3> HIDE DEF Follows
    <3> QED
      BY <1>5, <2>1, <3>3
  <2>2. CASE kiss[d] = "bad" /\ KissPut(Byte \cup {BAD}, "bad", ctx[d], << >>)
    <3>1. s \in Inner /\ s # FEND
      BY <2>2, BadIsNoByte DEF KissPut, Inner
    <3> HIDE DEF d, s
    <3>2. Rejected(open)
      BY <1>1, <2>2
    <3> HIDE DEF open
    <3>3. Rejected(Append(open, s)) /\ Shows(d, Append(open, s), FALSE) = now
      BY <1>2, <3>1, <3>2, ShowsMore
    <3> HIDE DEF now
    <3>4. Follows("bad", ctx[d].heard, << >>)
      BY <2>0, <3>1, <3>3
    <3> HIDE DEF Follows
    <3> QED
      BY <1>5, <2>2, <3>4
  <2> QED
    BY <1>9, <2>1, <2>2 DEF KissSkip
<1> QED
  BY <1>6, <1>7, <1>8, <1>9 DEF Feed

\* A process starts with decoders that have heard nothing.
LEMMA HearsNothing ==
    ASSUME kiss' = [d \in Direction |-> "idle"],
           taken' = [d \in Direction |-> << >>], printed' = << >>
    PROVE  Hears'
<1>1. << >> \in Seq(Symbol) /\ << >> \in Seq(AnyLine) /\ << >> \in Seq({0}) /\ 0 \in {0}
  OBVIOUS
<1>2. taken' \in [Direction -> Seq(Symbol)] /\ printed' \in Seq(AnyLine)
  BY <1>1
<1>3. ASSUME NEW d \in Direction
      PROVE  /\ kiss'[d] = "idle" /\ taken'[d] = << >>
             /\ Heard(d, taken'[d]).open = << >>
             /\ Of(d, printed') = ShowsAll(d, taken'[d])
  <2>1. Of(d, << >>) = << >>
    BY <1>1, OfOneMore
  <2>2. Heard(d, << >>).open = << >> /\ ShowsAll(d, << >>) = << >>
    BY <1>1, HeardType
  <2>3. kiss'[d] = "idle" /\ taken'[d] = << >>
    OBVIOUS
  <2> QED
    BY <2>1, <2>2, <2>3
<1> QED
  BY <1>2, <1>3 DEF Hears, EachDirectionByItself

\* A process that starts has heard nothing.
LEMMA HearsInit == Init => Hears
<1> SUFFICES ASSUME Init PROVE Hears
  OBVIOUS
<1>0. /\ kiss = [d \in Direction |-> "idle"]
      /\ taken = [d \in Direction |-> << >>] /\ printed = << >>
  BY DEF Init
<1>1. << >> \in Seq(Symbol) /\ << >> \in Seq(AnyLine) /\ << >> \in Seq({0}) /\ 0 \in {0}
  OBVIOUS
<1>2. taken \in [Direction -> Seq(Symbol)] /\ printed \in Seq(AnyLine)
  BY <1>0, <1>1
<1>3. ASSUME NEW d \in Direction
      PROVE  /\ kiss[d] = "idle" /\ taken[d] = << >>
             /\ Heard(d, taken[d]).open = << >>
             /\ Of(d, printed) = ShowsAll(d, taken[d])
  <2>1. Of(d, << >>) = << >>
    BY <1>1, OfOneMore
  <2>2. Heard(d, << >>).open = << >> /\ ShowsAll(d, << >>) = << >>
    BY <1>1, HeardType
  <2>3. kiss[d] = "idle" /\ taken[d] = << >>
    BY <1>0
  <2> QED
    BY <1>0, <2>1, <2>2, <2>3
<1> QED
  BY <1>2, <1>3 DEF Hears, EachDirectionByItself

\* What is shown of a direction is what its own bytes show, however the other
\* direction's bytes and the chunks' ends fall between them.
THEOREM DirectionsByThemselves == Spec => []EachDirectionByItself
<1>1. MonInv /\ Hears /\ [Next]_vars => Hears'
  <2> SUFFICES ASSUME MonInv, Hears, [Next]_vars PROVE Hears'
    OBVIOUS
  <2>1. CASE Feed
    BY <2>1, HearsFeed
  <2>2. CASE Restart
    BY <2>2, HearsNothing DEF Restart
  <2>3. CASE UNCHANGED <<ctx, kiss, printed, taken>>
    BY <2>3 DEF Hears, EachDirectionByItself
  <2>4. Feed \/ Restart \/ UNCHANGED <<ctx, kiss, printed, taken>>
    BY DEF Next, vars, decoding, CheckArguments, OpenRecording, InitProxy, OpenReader,
           Signal, Forward, RunReturns, CloseRecording, Killed, ReadEntry, ReadEnd
  <2> QED
    BY <2>1, <2>2, <2>3, <2>4
<1>2. Hears => EachDirectionByItself
  BY DEF Hears
<1> QED
  BY <1>1, <1>2, HearsInit, MonitorInvariance, PTL DEF Spec

-----------------------------------------------------------------------------
(* Every chunk is shown, whatever becomes of the recording *)

\* What a chunk carries of a direction.
Share(chunk, d) == IF chunk.from = d THEN chunk.bytes ELSE << >>

\* A chunk carries symbols of its own direction.
LEMMA ShareType ==
    ASSUME NEW chunk \in Chunks, NEW d
    PROVE  Share(chunk, d) \in Seq(Symbol)
<1>1. chunk.bytes \in Seq(Symbol) /\ << >> \in Seq(Symbol)
  BY ChunkType
<1> QED
  BY <1>1 DEF Share

\* The traffic of one chunk more.
LEMMA TrafficOneMore ==
    ASSUME NEW chunks \in Seq(Chunks), NEW x \in Chunks, NEW d
    PROVE  /\ Traffic(d, << >>) = << >>
           /\ Traffic(d, chunks) \in Seq(Symbol)
           /\ Traffic(d, Append(chunks, x)) = Traffic(d, chunks) \o Share(x, d)
<1> DEFINE n == Len(chunks)
           more == Append(chunks, x)
           V == Seq(Symbol)
           shares(s) == [i \in 1 .. Len(s) |-> Share(s[i], d)]
           parts == shares(chunks)
           y == Share(x, d)
<1>1. /\ n \in Nat /\ Len(more) = n + 1 /\ more[n + 1] = x
      /\ \A i \in 1 .. n : more[i] = chunks[i] /\ chunks[i] \in Chunks
  BY ElementOfSeq
<1>2. \A s : Traffic(d, s) = FlattenSeq(shares(s))
  BY DEF Traffic, Share
<1>3. y \in V /\ \A i \in 1 .. n : Share(chunks[i], d) \in V
  BY <1>1, ShareType
<1>4. parts \in Seq(V) /\ Len(parts) = n /\ \A i \in 1 .. n : parts[i] = Share(chunks[i], d)
  <2> HIDE DEF V, n
  <2>1. parts = [i \in 1 .. n |-> Share(chunks[i], d)]
    BY DEF n
  <2> HIDE DEF parts
  <2> QED
    BY <1>1, <1>3, <2>1
<1>5. shares(more) = [i \in 1 .. n + 1 |-> IF i = n + 1 THEN y ELSE parts[i]]
  <2>1. shares(more) = [i \in 1 .. n + 1 |-> Share(more[i], d)]
    <3> HIDE DEF more
    <3> QED
      BY <1>1
  <2>2. \A i \in 1 .. n + 1 : Share(more[i], d) = IF i = n + 1 THEN y ELSE parts[i]
    <3> TAKE i \in 1 .. n + 1
    <3>1. CASE i = n + 1
      BY <1>1, <3>1
    <3>2. CASE i # n + 1
      <4>1. i \in 1 .. n
        BY <1>1, <3>2
      <4> HIDE DEF more, parts, y
      <4> QED
        BY <1>1, <1>4, <3>2, <4>1
    <3> QED
      BY <3>1, <3>2
  <2> HIDE DEF more, parts, y, n, shares
  <2> QED
    BY <2>1, <2>2
<1>6. shares(more) = Append(parts, y)
  <2> HIDE DEF shares, parts, y, n, V, more
  <2> DEFINE a == Append(parts, y)
  <2>1. a \in Seq(V) /\ Len(a) = n + 1
    BY <1>3, <1>4
  <2>2. \A i \in 1 .. n + 1 : a[i] = IF i = n + 1 THEN y ELSE parts[i]
    BY <1>1, <1>3, <1>4
  <2> HIDE DEF a
  <2>3. a = [i \in 1 .. n + 1 |-> a[i]]
    BY <2>1
  <2>4. a = [i \in 1 .. n + 1 |-> IF i = n + 1 THEN y ELSE parts[i]]
    BY <2>2, <2>3
  <2> QED
    BY <1>5, <2>4 DEF a
<1>7. Traffic(d, << >>) = << >>
  <2>1. shares(<< >>) = << >>
    OBVIOUS
  <2>2. FlattenSeq(<< >>) = << >>
    <3> DEFINE e == << >>
    <3>1. e \in Seq(Seq({0})) /\ e \in Seq({0})
      OBVIOUS
    <3> HIDE DEF e
    <3> QED
      BY <3>1, FlattenOneMore
  <2> HIDE DEF shares
  <2> QED
    BY <1>2, <2>1, <2>2
<1> HIDE DEF shares, parts, y, n, more
<1>8. /\ FlattenSeq(parts) \in V
      /\ FlattenSeq(Append(parts, y)) = FlattenSeq(parts) \o y
  BY <1>3, <1>4, FlattenOneMore
<1> QED
  BY <1>2, <1>6, <1>7, <1>8 DEF more, parts, y

\* What is in hand of a direction.
InHand(d) == Share(todo, d)

\* The chunks this process has taken in hand.
Source == IF earlier.end = "none" THEN forwarded ELSE SubSeq(file.entries, 1, cursor)

\* Of what it has taken in hand, a process has fed its decoders all but what is
\* still in hand, and it returns with nothing in hand.
Takes ==
    /\ taken \in [Direction -> Seq(Symbol)]
    /\ \A d \in Direction : Traffic(d, Source) = taken[d] \o InHand(d)
    /\ main = "close" \/ code = 0 => todo.bytes = << >>
    /\ code = 0 => main = "exit"
    /\ (code = 0 /\ earlier.end = "none") => ~args.replay
    /\ (code = 0 /\ earlier.end # "none") => cursor = Len(file.entries)

\* Nothing in hand is nothing of either direction.
LEMMA NothingInHand ==
    ASSUME todo.bytes = << >>, NEW d
    PROVE  InHand(d) = << >>
  BY DEF InHand, Share

\* A chunk is taken in hand when there is nothing in it.
LEMMA TakesChunk ==
    ASSUME Takes, NEW chunk \in Chunks, Source \in Seq(Chunks),
           todo.bytes = << >>, todo' = chunk, taken' = taken,
           Source' = Append(Source, chunk), NEW d \in Direction
    PROVE  Traffic(d, Source') = taken'[d] \o InHand(d)'
<1>1. InHand(d) = << >> /\ InHand(d)' = Share(chunk, d)
  BY NothingInHand DEF InHand
<1>2. taken[d] \in Seq(Symbol) /\ Traffic(d, Source) = taken[d] \o << >>
  BY <1>1 DEF Takes
<1>3. Traffic(d, Source) = taken[d]
  BY <1>2
<1> DEFINE s == Source
<1>4. s \in Seq(Chunks)
  OBVIOUS
<1> HIDE DEF s
<1>5. Traffic(d, Append(s, chunk)) = Traffic(d, s) \o Share(chunk, d)
  BY <1>4, TrafficOneMore
<1> QED
  BY <1>1, <1>3, <1>5 DEF s

\* What a symbol fed to a decoder leaves in hand.
LEMMA TakesFeed ==
    ASSUME MonInv, Takes, Feed
    PROVE  Takes'
<1> DEFINE o == todo.from
           s == Head(todo.bytes)
<1>1. /\ main \in {"run", "replay"} /\ todo.bytes # << >>
      /\ todo' = [todo EXCEPT !.bytes = Tail(@)]
      /\ taken' = [taken EXCEPT ![o] = Append(@, s)]
      /\ UNCHANGED <<args, main, code, file, cursor, forwarded, earlier>>
  BY DEF Feed, KissByte, KissError, KissEnd, KissSkip, KissPut, process, history
<1>2. /\ o \in Direction /\ todo.bytes \in Seq(Symbol)
      /\ todo \in [from : Direction, bytes : Seq(Symbol)]
      /\ taken \in [Direction -> Seq(Symbol)] /\ code # 0
  BY <1>1 DEF MonInv, TypeOK, Takes
<1>3. /\ s \in Symbol /\ Tail(todo.bytes) \in Seq(Symbol)
      /\ todo.bytes = << s >> \o Tail(todo.bytes)
  BY <1>1, <1>2
<1>4. Source' = Source
  BY <1>1 DEF Source
<1>5. ASSUME NEW d \in Direction
      PROVE  taken'[d] \in Seq(Symbol) /\ taken'[d] \o InHand(d)' = taken[d] \o InHand(d)
  <2>1. taken[d] \in Seq(Symbol)
    BY <1>2
  <2>2. todo'.from = o /\ todo'.bytes = Tail(todo.bytes)
    BY <1>1, <1>2
  <2>3. CASE d = o
    <3>1. taken'[d] = Append(taken[d], s) /\ InHand(d)' = Tail(todo.bytes) /\ InHand(d) = todo.bytes
      BY <1>1, <1>2, <2>2, <2>3 DEF InHand, Share
    <3> DEFINE t == taken[d]
               r == Tail(todo.bytes)
    <3>2. t \in Seq(Symbol) /\ r \in Seq(Symbol) /\ s \in Symbol
      BY <1>3, <2>1
    <3> HIDE DEF t, r, s
    <3>3. Append(t, s) \in Seq(Symbol) /\ Append(t, s) \o r = t \o (<< s >> \o r)
      BY <3>2
    <3> QED
      BY <1>3, <3>1, <3>3 DEF t, r
  <2>4. CASE d # o
    BY <1>1, <1>2, <2>1, <2>2, <2>4 DEF InHand, Share
  <2> QED
    BY <2>3, <2>4
<1>6. taken' \in [Direction -> Seq(Symbol)]
  BY <1>1, <1>2, <1>3
<1>7. \A d \in Direction : Traffic(d, Source') = taken'[d] \o InHand(d)'
  BY <1>4, <1>5 DEF Takes
<1>8. main \notin {"close", "exit"} /\ main' = main /\ code' = code
  BY <1>1
<1> QED
  BY <1>2, <1>6, <1>7, <1>8 DEF Takes

\* A step that takes nothing in hand and feeds nothing; a process returns 0 only
\* with nothing in hand.
LEMMA TakesQuiet ==
    ASSUME Takes,
           UNCHANGED <<args, todo, taken, cursor, forwarded, earlier>>,
           earlier.end = "none" \/ file'.entries = file.entries,
           main' = "close" => main = "close" \/ todo.bytes = << >>,
           \/ code' = code /\ (code = 0 => main' = main)
           \/ code' = 1
           \/ /\ code' = 0 /\ main' = "exit" /\ todo.bytes = << >>
              /\ earlier.end = "none" => ~args.replay
              /\ earlier.end # "none" => cursor = Len(file.entries)
    PROVE  Takes'
<1>1. Source' = Source
  BY DEF Source
<1>2. \A d \in Direction : InHand(d)' = InHand(d)
  BY DEF InHand, Share
<1>3. \A d \in Direction : Traffic(d, Source') = taken'[d] \o InHand(d)'
  BY <1>1, <1>2 DEF Takes
<1>4. CASE code' = 1
  BY <1>3, <1>4 DEF Takes
<1>5. CASE code' = code /\ (code = 0 => main' = main)
  BY <1>3, <1>5 DEF Takes
<1>6. CASE code' = 0 /\ main' = "exit" /\ todo.bytes = << >>
           /\ (earlier.end = "none" => ~args.replay)
           /\ (earlier.end # "none" => cursor = Len(file.entries))
  BY <1>3, <1>6 DEF Takes
<1> QED
  BY <1>4, <1>5, <1>6

\* The steps of main that are of that kind.
LEMMA TakesSteps ==
    ASSUME MonInv, Takes,
           \/ CheckArguments
           \/ \E ok \in BOOLEAN : OpenRecording(ok) \/ InitProxy(ok) \/ OpenReader(ok)
           \/ RunReturns \/ Signal \/ CloseRecording \/ Killed
           \/ \E rc \in {-1, 1} : ReadEnd(rc)
           \/ UNCHANGED vars
    PROVE  Takes'
<1>0. code = 0 => main = "exit"
  BY DEF Takes
<1>1. CASE CheckArguments
  BY <1>0, <1>1, TakesQuiet DEF CheckArguments, Exit, Goto, decoding, history
<1>2. ASSUME NEW ok \in BOOLEAN, OpenRecording(ok) PROVE Takes'
  <2>1. earlier.end = "none"
    BY <1>2 DEF OpenRecording, MonInv, Life, Live
  <2> QED
    BY <1>0, <1>2, <2>1, TakesQuiet DEF OpenRecording, Exit, Goto, decoding, history
<1>3. ASSUME NEW ok \in BOOLEAN, InitProxy(ok) PROVE Takes'
  BY <1>0, <1>3, TakesQuiet DEF InitProxy, Exit, Goto, decoding, history
<1>4. ASSUME NEW ok \in BOOLEAN, OpenReader(ok) PROVE Takes'
  BY <1>0, <1>4, TakesQuiet DEF OpenReader, Exit, Goto, decoding, history
<1>5. CASE RunReturns
  BY <1>0, <1>5, TakesQuiet DEF RunReturns, Goto, decoding, history
<1>6. CASE Signal
  BY <1>0, <1>6, TakesQuiet DEF Signal, decoding
<1>7. CASE CloseRecording
  <2>1. /\ main = "close" /\ main' = "exit" /\ code' = 0
        /\ UNCHANGED <<args, todo, taken, cursor, forwarded, earlier>>
    BY <1>7 DEF CloseRecording, Exit, decoding, history
  <2>2. earlier.end = "none" /\ ~args.replay /\ todo.bytes = << >>
    BY <2>1 DEF MonInv, Life, Live, Takes
  <2> QED
    BY <2>1, <2>2, TakesQuiet
<1>8. CASE Killed
  <2>1. PICK kept \in 0 .. Len(file.entries) :
               /\ ~recording_enabled => kept = Len(file.entries)
               /\ file' = [file EXCEPT !.entries = SubSeq(@, 1, kept)]
    BY <1>8 DEF Killed
  <2>2. /\ main # "exit" /\ main' = "killed" /\ code' = code
        /\ UNCHANGED <<args, todo, taken, cursor, forwarded, earlier>>
    BY <1>8 DEF Killed, Goto, decoding, history
  <2>3. ASSUME earlier.end # "none" PROVE file'.entries = file.entries
    <3>1. kept = Len(file.entries)
      BY <2>1, <2>3 DEF MonInv, Life
    <3>2. file \in [is : {"none", "open", "closed"}, entries : Seq(Chunks)]
      BY DEF MonInv, ChunksOK
    <3>3. file.entries \in Seq(Chunks) /\ file'.entries = SubSeq(file.entries, 1, Len(file.entries))
      BY <2>1, <3>1, <3>2
    <3> QED
      BY <3>3
  <2> QED
    BY <1>0, <2>2, <2>3, TakesQuiet
<1>9. ASSUME NEW rc \in {-1, 1}, ReadEnd(rc) PROVE Takes'
  <2>1. /\ main = "replay" /\ main' = "exit" /\ todo.bytes = << >>
        /\ (code' = 1 \/ (code' = 0 /\ cursor = Len(file.entries)))
        /\ UNCHANGED <<args, todo, taken, file, cursor, forwarded, earlier>>
    BY <1>9 DEF ReadEnd, Exit, decoding, history
  <2>2. earlier.end # "none"
    BY <2>1 DEF MonInv, Life
  <2> QED
    BY <2>1, <2>2, TakesQuiet
<1>10. CASE UNCHANGED vars
  BY <1>0, <1>10, TakesQuiet DEF vars, process, decoding, history
<1> QED
  BY <1>1, <1>2, <1>3, <1>4, <1>5, <1>6, <1>7, <1>8, <1>9, <1>10

\* The next chunk of a session.
LEMMA TakesForward ==
    ASSUME MonInv, Takes, NEW chunk \in Chunks, NEW ok \in BOOLEAN, Forward(chunk, ok)
    PROVE  Takes'
<1>1. /\ main = "run" /\ todo.bytes = << >> /\ todo' = chunk
      /\ forwarded' = Append(forwarded, chunk)
      /\ UNCHANGED <<main, code, taken, earlier>>
  BY DEF Forward, process
<1>2. earlier.end = "none" /\ forwarded \in Seq(Chunks) /\ code # 0
  BY <1>1 DEF MonInv, Life, Live, ChunksOK, Takes
<1>3. Source \in Seq(Chunks) /\ Source' = Append(Source, chunk)
  BY <1>1, <1>2 DEF Source
<1>4. \A d \in Direction : Traffic(d, Source') = taken'[d] \o InHand(d)'
  BY <1>1, <1>3, TakesChunk
<1> QED
  BY <1>1, <1>2, <1>4 DEF Takes

\* The next entry of a replay.
LEMMA TakesReadEntry ==
    ASSUME MonInv, Takes, ReadEntry
    PROVE  Takes'
<1>1. /\ main = "replay" /\ todo.bytes = << >> /\ cursor < Len(file.entries)
      /\ cursor' = cursor + 1 /\ todo' = file.entries[cursor + 1]
      /\ UNCHANGED <<main, code, taken, file, earlier>>
  BY DEF ReadEntry, process, history
<1>2. /\ earlier.end # "none" /\ code # 0
      /\ file.entries \in Seq(Chunks) /\ cursor \in 0 .. Len(file.entries)
  BY <1>1 DEF MonInv, Life, TypeOK, ChunksOK, Takes
<1> DEFINE e == file.entries
           x == e[cursor + 1]
<1>3. /\ SubSeq(e, 1, cursor) \in Seq(Chunks) /\ x \in Chunks
      /\ SubSeq(e, 1, cursor + 1) = Append(SubSeq(e, 1, cursor), x)
  <2>1. e \in Seq(Chunks) /\ cursor \in Nat /\ cursor + 1 <= Len(e)
    BY <1>1, <1>2
  <2> HIDE DEF e
  <2> QED
    BY <2>1
<1>4. Source \in Seq(Chunks) /\ Source' = Append(Source, x)
  BY <1>1, <1>2, <1>3 DEF Source
<1>5. todo' = x /\ x \in Chunks
  BY <1>1, <1>3
<1> HIDE DEF x
<1>6. \A d \in Direction : Traffic(d, Source') = taken'[d] \o InHand(d)'
  BY <1>1, <1>4, <1>5, TakesChunk
<1> QED
  BY <1>1, <1>2, <1>6 DEF Takes

\* A process starts with nothing taken and nothing in hand.
LEMMA TakesNothing ==
    ASSUME NEW t, t = [d \in Direction |-> << >>], NEW d \in Direction
    PROVE  /\ t \in [Direction -> Seq(Symbol)]
           /\ Traffic(d, << >>) = t[d] \o << >>
<1>1. << >> \in Seq(Symbol) /\ << >> \o << >> = << >> /\ << >> \in Seq(Seq({0})) /\ << >> \in Seq({0})
  OBVIOUS
<1>2. FlattenSeq(<< >>) = << >>
  BY <1>1, FlattenOneMore
<1>3. Traffic(d, << >>) = FlattenSeq(<< >>)
  BY DEF Traffic
<1> QED
  BY <1>1, <1>2, <1>3

\* A replay starts from the beginning of its recording.
LEMMA TakesRestart ==
    ASSUME MonInv, Restart
    PROVE  Takes'
<1>1. /\ main' = "arguments" /\ code' = -1 /\ earlier.end = "none"
      /\ earlier'.end # "none"
      /\ taken' = [d \in Direction |-> << >>]
      /\ todo' = [todo EXCEPT !.bytes = << >>]
      /\ UNCHANGED <<file, cursor>>
  BY DEF Restart
<1>2. /\ cursor = 0 /\ file.entries \in Seq(Chunks)
      /\ todo \in [from : Direction, bytes : Seq(Symbol)]
  BY <1>1 DEF MonInv, Life, TypeOK, ChunksOK
<1>3. Source' = << >>
  <2>1. SubSeq(file.entries, 1, 0) = << >>
    BY <1>2
  <2> QED
    BY <1>1, <1>2, <2>1 DEF Source
<1>4. \A d \in Direction : InHand(d)' = << >>
  <2>1. todo'.bytes = << >>
    BY <1>1, <1>2
  <2> QED
    BY <2>1 DEF InHand, Share
<1>5. \A d \in Direction : Traffic(d, Source') = taken'[d] \o InHand(d)'
  BY <1>1, <1>3, <1>4, TakesNothing
<1>6. taken' \in [Direction -> Seq(Symbol)]
  BY <1>1, TakesNothing DEF Direction
<1> QED
  BY <1>1, <1>5, <1>6 DEF Takes

\* So does the first process.
LEMMA TakesInit == Init => Takes
<1> SUFFICES ASSUME Init PROVE Takes
  OBVIOUS
<1>1. /\ main = "arguments" /\ code = -1 /\ earlier.end = "none" /\ forwarded = << >>
      /\ taken = [d \in Direction |-> << >>]
      /\ todo = [from |-> ToDevice, bytes |-> << >>]
  BY DEF Init
<1>2. Source = << >> /\ \A d \in Direction : InHand(d) = << >>
  BY <1>1 DEF Source, InHand, Share
<1>3. \A d \in Direction : Traffic(d, Source) = taken[d] \o InHand(d)
  BY <1>1, <1>2, TakesNothing
<1>4. taken \in [Direction -> Seq(Symbol)]
  BY <1>1, TakesNothing DEF Direction
<1> QED
  BY <1>1, <1>3, <1>4 DEF Takes

\* A session that returned has shown every chunk it forwarded, also those the
\* recorder failed to write; a replay that returned has shown every entry of its
\* recording, also when chunks are missing from it.
THEOREM EveryChunkShown == Spec => []EveryChunkIsShown
<1>1. MonInv /\ Takes /\ [Next]_vars => Takes'
  <2> SUFFICES ASSUME MonInv, Takes, [Next]_vars PROVE Takes'
    OBVIOUS
  <2>1. CASE \/ CheckArguments
             \/ \E ok \in BOOLEAN : OpenRecording(ok) \/ InitProxy(ok) \/ OpenReader(ok)
             \/ RunReturns \/ Signal \/ CloseRecording \/ Killed
             \/ \E rc \in {-1, 1} : ReadEnd(rc)
             \/ UNCHANGED vars
    BY <2>1, TakesSteps
  <2>2. ASSUME NEW chunk \in Chunks, NEW ok \in BOOLEAN, Forward(chunk, ok) PROVE Takes'
    BY <2>2, TakesForward
  <2>3. CASE Feed
    BY <2>3, TakesFeed
  <2>4. CASE Restart
    BY <2>4, TakesRestart
  <2>5. CASE ReadEntry
    BY <2>5, TakesReadEntry
  <2> QED
    BY <2>1, <2>2, <2>3, <2>4, <2>5 DEF Next
<1>2. MonInv /\ Takes /\ EachDirectionByItself => EveryChunkIsShown
  <2> SUFFICES ASSUME MonInv, Takes, EachDirectionByItself, main = "exit", code = 0,
                      NEW d \in Direction
               PROVE  Of(d, printed) =
                         ShowsAll(d, Traffic(d, IF args.replay THEN file.entries ELSE forwarded))
    BY DEF EveryChunkIsShown
  <2>1. Source = IF args.replay THEN file.entries ELSE forwarded
    <3>1. CASE earlier.end = "none"
      BY <3>1 DEF Takes, Source
    <3>2. CASE earlier.end # "none"
      <4>1. args.replay /\ cursor = Len(file.entries)
        BY <3>2 DEF MonInv, Life, Takes
      <4>2. file.entries \in Seq(Chunks)
        BY DEF MonInv, ChunksOK
      <4>3. SubSeq(file.entries, 1, Len(file.entries)) = file.entries
        BY <4>2
      <4> QED
        BY <3>2, <4>1, <4>3 DEF Source
    <3> QED
      BY <3>1, <3>2
  <2>2. taken[d] \in Seq(Symbol) /\ InHand(d) = << >>
    BY NothingInHand DEF Takes
  <2>3. Traffic(d, Source) = taken[d]
    BY <2>2 DEF Takes
  <2>4. Of(d, printed) = ShowsAll(d, taken[d])
    BY DEF EachDirectionByItself
  <2> QED
    BY <2>1, <2>3, <2>4
<1> QED
  BY <1>1, <1>2, TakesInit, MonitorInvariance, DirectionsByThemselves, PTL DEF Spec

-----------------------------------------------------------------------------
(* Sequences that begin alike, and what is done with a sequence in order *)

\* What begins a sequence has its first elements.
LEMMA PrefixMeans ==
    ASSUME NEW S, NEW s \in Seq(S), NEW t \in Seq(S)
    PROVE  IsPrefix(s, t) <=> Len(s) <= Len(t) /\ \A k \in 1 .. Len(s) : s[k] = t[k]
<1>1. Len(s) \in Nat /\ Len(t) \in Nat /\ SubSeq(s, 1, Len(s)) = s
  OBVIOUS
<1>2. ASSUME Len(s) <= Len(t)
      PROVE  (SubSeq(s, 1, Len(s)) = SubSeq(t, 1, Len(s))) <=> \A k \in 1 .. Len(s) : s[k] = t[k]
  <2> DEFINE u == SubSeq(t, 1, Len(s))
  <2>1. u \in Seq(S) /\ Len(u) = Len(s) /\ \A k \in 1 .. Len(s) : u[k] = t[k]
    BY <1>1, <1>2
  <2> HIDE DEF u
  <2>2. ASSUME \A k \in 1 .. Len(s) : s[k] = t[k] PROVE s = u
    BY <2>1, <2>2, SeqEqual
  <2>3. (s = u) <=> \A k \in 1 .. Len(s) : s[k] = t[k]
    BY <2>1, <2>2
  <2> QED
    BY <1>1, <2>3 DEF u
<1> QED
  BY <1>2 DEF IsPrefix

\* Beginnings of one sequence: each begins the other or is begun by it.
LEMMA PrefixFacts ==
    ASSUME NEW S, NEW s \in Seq(S), NEW t \in Seq(S), NEW u \in Seq(S)
    PROVE  /\ IsPrefix(<< >>, s) /\ IsPrefix(s, s) /\ IsPrefix(s, s \o t)
           /\ IsPrefix(s, t) /\ IsPrefix(t, u) => IsPrefix(s, u)
           /\ IsPrefix(s, u) /\ IsPrefix(t, u) => IsPrefix(s, t) \/ IsPrefix(t, s)
           /\ IsPrefix(s, t) => SubSeq(t, 1, Len(s)) = s
<1>0. << >> \in Seq(S) /\ Len(<< >>) = 0 /\ Len(s) \in Nat /\ Len(t) \in Nat /\ Len(u) \in Nat
  OBVIOUS
<1>1. IsPrefix(<< >>, s) /\ IsPrefix(s, s)
  <2> DEFINE e == << >>
  <2>1. e \in Seq(S) /\ Len(e) = 0
    OBVIOUS
  <2> HIDE DEF e
  <2>2. IsPrefix(e, s)
    <3>1. Len(e) <= Len(s) /\ \A k \in 1 .. Len(e) : e[k] = s[k]
      BY <1>0, <2>1
    <3> QED
      BY <2>1, <3>1, PrefixMeans
  <2>3. IsPrefix(s, s)
    BY <1>0, PrefixMeans
  <2> QED
    BY <2>2, <2>3 DEF e
<1>2. IsPrefix(s, s \o t)
  <2> DEFINE v == s \o t
  <2>1. v \in Seq(S) /\ Len(s) <= Len(v) /\ \A k \in 1 .. Len(s) : s[k] = v[k]
    OBVIOUS
  <2> HIDE DEF v
  <2>2. IsPrefix(s, v)
    BY <2>1, PrefixMeans
  <2> QED
    BY <2>2 DEF v
<1>3. ASSUME IsPrefix(s, t), IsPrefix(t, u) PROVE IsPrefix(s, u)
  <2>1. /\ Len(s) <= Len(t) /\ \A k \in 1 .. Len(s) : s[k] = t[k]
        /\ Len(t) <= Len(u) /\ \A k \in 1 .. Len(t) : t[k] = u[k]
    BY <1>3, PrefixMeans
  <2>2. Len(s) <= Len(u) /\ \A k \in 1 .. Len(s) : s[k] = u[k]
    BY <1>0, <2>1
  <2> QED
    BY <2>2, PrefixMeans
<1>4. ASSUME IsPrefix(s, u), IsPrefix(t, u) PROVE IsPrefix(s, t) \/ IsPrefix(t, s)
  <2>1. /\ Len(s) <= Len(u) /\ \A k \in 1 .. Len(s) : s[k] = u[k]
        /\ Len(t) <= Len(u) /\ \A k \in 1 .. Len(t) : t[k] = u[k]
    BY <1>4, PrefixMeans
  <2>2. CASE Len(s) <= Len(t)
    <3>1. \A k \in 1 .. Len(s) : s[k] = t[k]
      BY <1>0, <2>1, <2>2
    <3> QED
      BY <2>2, <3>1, PrefixMeans
  <2>3. CASE Len(t) <= Len(s)
    <3>1. \A k \in 1 .. Len(t) : t[k] = s[k]
      BY <1>0, <2>1, <2>3
    <3> QED
      BY <2>3, <3>1, PrefixMeans
  <2> QED
    BY <1>0, <2>2, <2>3
<1>5. ASSUME IsPrefix(s, t) PROVE SubSeq(t, 1, Len(s)) = s
  <2>1. SubSeq(s, 1, Len(s)) = s
    OBVIOUS
  <2> QED
    BY <1>5, <2>1 DEF IsPrefix
<1> QED
  BY <1>1, <1>2, <1>3, <1>4, <1>5

\* What begins what begins a sequence begins it.
LEMMA PrefixTransitive ==
    ASSUME NEW S, NEW s \in Seq(S), NEW t \in Seq(S), NEW u \in Seq(S),
           IsPrefix(s, t), IsPrefix(t, u)
    PROVE  IsPrefix(s, u)
  BY PrefixFacts

\* G applied to a and the elements of s, one after the other.
Run(G, a, s) ==
    LET after[n \in 0 .. Len(s)] == IF n = 0 THEN a ELSE G[s[n]][after[n - 1]]
    IN  after[Len(s)]

\* G is a function of an element and of a value.
Steps(G, X, V) == G \in [X -> [V -> V]]

\* f[n] is what G makes of a and the first n elements of s.
Ran(f, G, a, s) ==
    /\ f[0] = a
    /\ \A k \in 1 .. Len(s) : f[k] = G[s[k]][f[k - 1]]
    /\ Run(G, a, s) = f[Len(s)]

\* Run takes these steps.
LEMMA RunSteps ==
    ASSUME NEW V, NEW X, NEW G, Steps(G, X, V), NEW a \in V, NEW s \in Seq(X)
    PROVE  \E f : Ran(f, G, a, s)
<1> DEFINE N == Len(s)
           F == [k \in 1 .. N |-> [v \in V |-> G[s[k]][v]]]
           After(g) == [n \in 0 .. Len(s) |-> IF n = 0 THEN a ELSE G[s[n]][g[n - 1]]]
<1>1. N \in Nat /\ a \in V
  OBVIOUS
<1>2. F \in [1 .. N -> [V -> V]]
  BY ElementOfSeq DEF Steps
<1>3. \A k \in 1 .. N, v \in V : F[k][v] = G[s[k]][v]
  OBVIOUS
<1> HIDE DEF F
<1>4. PICK h : h \in [0 .. N -> V] /\ h[0] = a /\ \A k \in 1 .. N : h[k] = F[k][h[k - 1]]
  <2>1. Links(F, N, V)
    BY <1>2 DEF Links
  <2> HIDE DEF N
  <2>2. PICK h : Chain(h, F, N, V, a)
    BY <1>1, <2>1, Recursion
  <2> QED
    BY <2>2 DEF Chain
<1>5. \A k \in 1 .. N : h[k - 1] \in V
  BY <1>1, <1>4
<1>6. \A k \in 1 .. N : h[k] = G[s[k]][h[k - 1]]
  BY <1>3, <1>4, <1>5
<1>7. h = After(h)
  <2>1. \A k \in 0 .. N : k # 0 => k \in 1 .. N
    BY <1>1
  <2> QED
    BY <1>4, <1>6, <2>1
<1> DEFINE f == CHOOSE g : g = After(g)
<1>8. f = After(f)
  <2> HIDE DEF After
  <2> QED
    BY <1>7
<1>9. Run(G, a, s) = f[N]
  BY DEF Run
<1> HIDE DEF f
<1>10. f[0] = a /\ \A k \in 1 .. N : f[k] = G[s[k]][f[k - 1]]
  <2>1. 0 \in 0 .. N /\ \A k \in 1 .. N : k \in 0 .. N /\ k # 0
    BY <1>1
  <2> QED
    BY <1>8, <2>1
<1> QED
  BY <1>9, <1>10 DEF Ran

\* Of nothing, of one element more.
LEMMA RunOneMore ==
    ASSUME NEW V, NEW X, NEW G, Steps(G, X, V), NEW a \in V, NEW s \in Seq(X)
    PROVE  /\ Run(G, a, << >>) = a
           /\ Run(G, a, s) \in V
           /\ \A x \in X : Run(G, a, Append(s, x)) = G[x][Run(G, a, s)]
<1> DEFINE n == Len(s)
<1>v. a \in V /\ Steps(G, X, V) /\ s \in Seq(X)
  OBVIOUS
<1>0. << >> \in Seq(X) /\ Len(<< >>) = 0 /\ n \in Nat
  OBVIOUS
<1>1. Run(G, a, << >>) = a
  <2> DEFINE e == << >>
  <2>1. e \in Seq(X) /\ Len(e) = 0
    OBVIOUS
  <2> HIDE DEF e
  <2>2. PICK f : Ran(f, G, a, e)
    BY <1>v, <2>1, RunSteps
  <2> QED
    BY <2>1, <2>2 DEF e, Ran
<1>r. PICK f : Ran(f, G, a, s)
  BY <1>v, RunSteps
<1>2. /\ f[0] = a
      /\ \A k \in 1 .. n : f[k] = G[s[k]][f[k - 1]]
      /\ Run(G, a, s) = f[n]
  BY <1>r DEF Ran
<1> DEFINE T == {k \in Nat : k <= n => f[k] \in V}
<1>3. 0 \in T
  BY <1>2
<1>4. ASSUME NEW k \in Nat, k \in T PROVE k + 1 \in T
  <2> SUFFICES ASSUME k + 1 <= n PROVE f[k + 1] \in V
    OBVIOUS
  <2>1. f[k] \in V /\ k + 1 \in 1 .. n /\ (k + 1) - 1 = k
    BY <1>0, <1>4
  <2>2. s[k + 1] \in X
    BY <2>1
  <2> QED
    BY <1>2, <2>1, <2>2 DEF Steps
<1> HIDE DEF T
<1>5. n \in T
  BY <1>0, <1>3, <1>4, Induct
<1>6. f[n] \in V
  BY <1>0, <1>5 DEF T
<1>7. ASSUME NEW x \in X PROVE Run(G, a, Append(s, x)) = G[x][Run(G, a, s)]
  <2> DEFINE more == Append(s, x)
  <2>1. /\ more \in Seq(X) /\ Len(more) = n + 1 /\ more[n + 1] = x
        /\ \A k \in 1 .. n : more[k] = s[k]
    OBVIOUS
  <2> HIDE DEF more
  <2>r. PICK g : Ran(g, G, a, more)
    BY <1>v, <2>1, RunSteps
  <2>2. /\ g[0] = a
        /\ \A k \in 1 .. n + 1 : g[k] = G[more[k]][g[k - 1]]
        /\ Run(G, a, more) = g[n + 1]
    BY <2>1, <2>r DEF Ran
  <2> DEFINE U == {k \in Nat : k <= n => f[k] = g[k]}
  <2>3. 0 \in U
    BY <1>2, <2>2
  <2>4. ASSUME NEW k \in Nat, k \in U PROVE k + 1 \in U
    <3> SUFFICES ASSUME k + 1 <= n PROVE f[k + 1] = g[k + 1]
      OBVIOUS
    <3>1. f[k] = g[k] /\ k + 1 \in 1 .. n /\ k + 1 \in 1 .. n + 1 /\ (k + 1) - 1 = k
      BY <1>0, <2>4
    <3> QED
      BY <1>2, <2>1, <2>2, <3>1
  <2> HIDE DEF U
  <2>5. n \in U
    BY <1>0, <2>3, <2>4, Induct
  <2>6. f[n] = g[n] /\ n + 1 \in 1 .. n + 1 /\ (n + 1) - 1 = n
    BY <1>0, <2>5 DEF U
  <2> QED
    BY <1>2, <2>1, <2>2, <2>6 DEF more
<1> QED
  BY <1>1, <1>2, <1>6, <1>7

\* What holds of a sequence, and of one element more, holds of all it begins.
LEMMA PrefixInduct ==
    ASSUME NEW S, NEW s \in Seq(S), NEW t \in Seq(S), IsPrefix(s, t), NEW T, s \in T,
           \A u \in Seq(S), x \in S : u \in T => Append(u, x) \in T
    PROVE  t \in T
<1> DEFINE part(n) == SubSeq(t, 1, n)
           m == Len(s)
           U == {n \in Nat : m + n <= Len(t) => part(m + n) \in T}
<1>1. m \in Nat /\ Len(t) \in Nat /\ m <= Len(t) /\ part(m) = s /\ part(Len(t)) = t
  BY PrefixFacts, PrefixMeans
<1>2. 0 \in U
  <2>1. m + 0 = m
    BY <1>1
  <2> HIDE DEF part, m
  <2> QED
    BY <1>1, <2>1
<1>3. ASSUME NEW n \in Nat, n \in U PROVE n + 1 \in U
  <2> SUFFICES ASSUME m + (n + 1) <= Len(t) PROVE part(m + (n + 1)) \in T
    OBVIOUS
  <2> DEFINE k == m + n
  <2>1. k \in Nat /\ k + 1 <= Len(t) /\ m + (n + 1) = k + 1 /\ part(k) \in T
    BY <1>1, <1>3
  <2> HIDE DEF k
  <2>2. part(k) \in Seq(S) /\ t[k + 1] \in S /\ part(k + 1) = Append(part(k), t[k + 1])
    BY <2>1
  <2> HIDE DEF part
  <2> QED
    BY <2>1, <2>2
<1> HIDE DEF U
<1>4. Len(t) - m \in U
  BY <1>1, <1>2, <1>3, Induct
<1>5. m + (Len(t) - m) = Len(t) /\ Len(t) - m \in Nat
  BY <1>1
<1> HIDE DEF part, m
<1> QED
  BY <1>1, <1>4, <1>5 DEF U

-----------------------------------------------------------------------------
(* What a process decodes and prints is a function of what it has been fed *)

\* What a context holds of a frame.
Context == [frame_len : 0 .. MAX_FRAME_BYTES, heard : Seq(Byte)]

\* The state of the decoding of a process.
Snapshot ==
    [kiss : [Direction -> {"idle", "frame", "bad"}], ctx : [Direction -> Context],
     printed : Seq(AnyLine)]

\* The process that runs, and one that starts.
Now == [kiss |-> kiss, ctx |-> ctx, printed |-> printed]

FreshSnapshot ==
    [kiss |-> [d \in Direction |-> "idle"], ctx |-> FreshContext, printed |-> << >>]

\* A symbol of a direction.
Item == [from : Direction, symbol : Symbol]

\* Those of a chunk.
Items(chunk) ==
    [k \in 1 .. Len(chunk.bytes) |-> [from |-> chunk.from, symbol |-> chunk.bytes[k]]]

\* The decoding, with one direction's decoder and context set and lines added.
Put(v, d, k, c, lines) ==
    [kiss |-> [v.kiss EXCEPT ![d] = k], ctx |-> [v.ctx EXCEPT ![d] = c],
     printed |-> v.printed \o lines]

\* The decoding after one more symbol.
FedOne(v, x) ==
    LET d == x.from
        s == x.symbol
        c == IF v.kiss[d] = "idle" THEN DecoderStart(v.ctx[d]) ELSE v.ctx[d]
    IN  IF s = FEND
        THEN Put(v, d, "idle", v.ctx[d],
                 IF v.kiss[d] = "idle" THEN << >>
                 ELSE DecoderEnd(d, v.ctx[d], v.kiss[d] = "frame"))
        ELSE IF v.kiss[d] = "bad" THEN Put(v, d, "bad", v.ctx[d], << >>)
        ELSE IF s = BAD THEN Put(v, d, "bad", c, DecoderError(d))
        ELSE Put(v, d, "frame", DecoderData(c, s), DataLines(d, c, s))

\* The lines the callbacks print are lines of their direction.
LEMMA PrintedType ==
    ASSUME NEW d \in Direction, NEW c \in Context
    PROVE  /\ << >> \in Seq(AnyLine)
           /\ DecoderError(d) \in Seq(AnyLine)
           /\ \A b \in Byte : DataLines(d, c, b) \in Seq(AnyLine)
           /\ \A complete : DecoderEnd(d, c, complete) \in Seq(AnyLine)
<1>0. 0 \in Byte /\ c.heard \in Seq(Byte)
  BY DEF Byte, Context
<1>1. Shown(d) \subseteq AnyLine
  BY DEF Direction, AnyLine
<1>2. << >> \in Seq(AnyLine)
  OBVIOUS
<1>3. DecodeError(d) \in Seq(AnyLine) /\ EndError(d) \in Seq(AnyLine)
  BY <1>1, ErrorLines, SeqMonotonic
<1>4. ASSUME NEW b \in Byte PROVE DataLines(d, c, b) \in Seq(AnyLine)
  <2> DEFINE f == c.heard
             lines == DataLines(d, c, b)
  <2>1. f \in Seq(Byte) /\ Append(f, b) \in Seq(Byte)
    BY <1>0
  <2>2. Longer(Meaning(d, f, FALSE), Meaning(d, Append(f, b), FALSE)) /\ IsSeq(lines)
    BY <2>1, MeaningGrows, LinesOfNew DEF DataLines
  <2>3. Said(d, Append(f, b), FALSE) \in Seq(Shown(d)) /\ IsSeq(Said(d, f, FALSE))
    BY <2>1, SaidFacts DEF IsSeq
  <2>4. Said(d, f, FALSE) \o lines = Said(d, Append(f, b), FALSE)
    BY <2>1, SaidFacts
  <2> HIDE DEF lines, f
  <2>5. lines \in Seq(Shown(d))
    BY <2>2, <2>3, <2>4, PartType
  <2> QED
    BY <1>1, <2>5, SeqMonotonic DEF lines
<1>5. ASSUME NEW complete PROVE DecoderEnd(d, c, complete) \in Seq(AnyLine)
  <2> DEFINE f == c.heard
             lines == Lines(d, New(Meaning(d, f, FALSE), Meaning(d, f, TRUE)))
  <2>1. IsSeq(lines)
    BY <1>0, MeaningGrows, LinesOfNew
  <2>2. Said(d, f, TRUE) \in Seq(Shown(d)) /\ IsSeq(Said(d, f, FALSE))
    BY <1>0, SaidFacts DEF IsSeq
  <2>3. Said(d, f, FALSE) \o lines = Said(d, f, TRUE)
    BY <1>0, SaidFacts
  <2>4. DecoderEnd(d, c, complete) = lines \/ DecoderEnd(d, c, complete) = EndError(d)
    BY DEF DecoderEnd, EndError
  <2> HIDE DEF lines, f
  <2>5. lines \in Seq(Shown(d))
    BY <2>1, <2>2, <2>3, PartType
  <2> QED
    BY <1>1, <1>3, <2>4, <2>5, SeqMonotonic
<1> QED
  BY <1>2, <1>3, <1>4, <1>5 DEF DecodeError, DecoderError

\* Lines that are added keep the decoding a decoding, and what was printed.
LEMMA PutType ==
    ASSUME NEW v \in Snapshot, NEW d \in Direction, NEW k \in {"idle", "frame", "bad"},
           NEW c \in Context, NEW lines \in Seq(AnyLine)
    PROVE  /\ Put(v, d, k, c, lines) \in Snapshot
           /\ IsPrefix(v.printed, Put(v, d, k, c, lines).printed)
<1>1. v.printed \in Seq(AnyLine) /\ v.kiss \in [Direction -> {"idle", "frame", "bad"}]
      /\ v.ctx \in [Direction -> Context]
  BY DEF Snapshot
<1>2. v.printed \o lines \in Seq(AnyLine)
  BY <1>1, Concat
<1>3. IsPrefix(v.printed, v.printed \o lines)
  BY <1>1, PrefixFacts
<1>4. [v.kiss EXCEPT ![d] = k] \in [Direction -> {"idle", "frame", "bad"}]
      /\ [v.ctx EXCEPT ![d] = c] \in [Direction -> Context]
  BY <1>1
<1> QED
  BY <1>2, <1>3, <1>4 DEF Put, Snapshot

\* What has been printed stays printed.
LEMMA FedOneType ==
    ASSUME NEW v \in Snapshot, NEW x \in Item
    PROVE  FedOne(v, x) \in Snapshot /\ IsPrefix(v.printed, FedOne(v, x).printed)
<1> DEFINE d == x.from
           s == x.symbol
           c == IF v.kiss[d] = "idle" THEN DecoderStart(v.ctx[d]) ELSE v.ctx[d]
           e == IF v.kiss[d] = "idle" THEN << >> ELSE DecoderEnd(d, v.ctx[d], v.kiss[d] = "frame")
<1>1. d \in Direction /\ s \in Symbol /\ v.ctx[d] \in Context
  BY DEF Item, Snapshot
<1>2. c \in Context
  <2>1. DecoderStart(v.ctx[d]) \in Context
    BY <1>1, 0 \in Byte, ContextType DEF Context, Byte
  <2> QED
    BY <1>1, <2>1
<1> HIDE DEF c, s, d
<1>3. /\ << >> \in Seq(AnyLine) /\ e \in Seq(AnyLine) /\ DecoderError(d) \in Seq(AnyLine)
      /\ s \in Byte => DecoderData(c, s) \in Context /\ DataLines(d, c, s) \in Seq(AnyLine)
  <2>1. << >> \in Seq(AnyLine) /\ DecoderError(d) \in Seq(AnyLine)
    BY <1>1, PrintedType
  <2>2. e \in Seq(AnyLine)
    BY <1>1, <2>1, PrintedType
  <2>3. s \in Byte => DecoderData(c, s) \in Context /\ DataLines(d, c, s) \in Seq(AnyLine)
    BY <1>1, <1>2, PrintedType, ContextType DEF Context
  <2> QED
    BY <2>1, <2>2, <2>3
<1> HIDE DEF e
<1>4. \/ FedOne(v, x) = Put(v, d, "idle", v.ctx[d], e)
      \/ FedOne(v, x) = Put(v, d, "bad", v.ctx[d], << >>)
      \/ FedOne(v, x) = Put(v, d, "bad", c, DecoderError(d))
      \/ s \in Byte /\ FedOne(v, x) = Put(v, d, "frame", DecoderData(c, s), DataLines(d, c, s))
  <2>1. FedOne(v, x) =
           IF s = FEND THEN Put(v, d, "idle", v.ctx[d], e)
           ELSE IF v.kiss[d] = "bad" THEN Put(v, d, "bad", v.ctx[d], << >>)
           ELSE IF s = BAD THEN Put(v, d, "bad", c, DecoderError(d))
           ELSE Put(v, d, "frame", DecoderData(c, s), DataLines(d, c, s))
    BY DEF FedOne, c, d, e, s
  <2>2. s \in Byte \/ s = FEND \/ s = BAD
    BY <1>1 DEF Symbol
  <2> DEFINE put == FedOne(v, x)
             end == Put(v, d, "idle", v.ctx[d], e)
             skip == Put(v, d, "bad", v.ctx[d], << >>)
             error == Put(v, d, "bad", c, DecoderError(d))
             data == Put(v, d, "frame", DecoderData(c, s), DataLines(d, c, s))
  <2>3. put = IF s = FEND THEN end ELSE IF v.kiss[d] = "bad" THEN skip
              ELSE IF s = BAD THEN error ELSE data
    BY <2>1
  <2> HIDE DEF put, end, skip, error, data
  <2>4. put = end \/ put = skip \/ put = error \/ (s \in Byte /\ put = data)
    BY <2>2, <2>3
  <2> QED
    BY <2>4 DEF put, end, skip, error, data
<1> QED
  BY <1>1, <1>2, <1>3, <1>4, PutType

\* FedOne, as a function to Run.
Feeding == [x \in Item |-> [v \in Snapshot |-> FedOne(v, x)]]

\* The decoding of a process that has been fed these symbols.
Play(fed) == Run(Feeding, FreshSnapshot, fed)

\* Fed nothing, the decoding is fresh; fed one more symbol, it takes that step.
LEMMA PlayOneMore ==
    ASSUME NEW fed \in Seq(Item)
    PROVE  /\ Play(<< >>) = FreshSnapshot
           /\ Play(fed) \in Snapshot
           /\ \A x \in Item : Play(Append(fed, x)) = FedOne(Play(fed), x)
<1>1. Steps(Feeding, Item, Snapshot)
  BY FedOneType DEF Steps, Feeding
<1>2. FreshSnapshot \in Snapshot
  <2>1. << >> \in Seq(Byte) /\ << >> \in Seq(AnyLine)
    OBVIOUS
  <2>2. [frame_len |-> 0, heard |-> << >>] \in Context
    BY <2>1, MonitorBoundsAssumption DEF Context
  <2>3. FreshContext \in [Direction -> Context]
    BY <2>2 DEF FreshContext
  <2> QED
    BY <2>1, <2>3 DEF FreshSnapshot, Snapshot
<1>3. /\ Run(Feeding, FreshSnapshot, << >>) = FreshSnapshot
      /\ Run(Feeding, FreshSnapshot, fed) \in Snapshot
      /\ \A x \in Item : Run(Feeding, FreshSnapshot, Append(fed, x))
                            = Feeding[x][Run(Feeding, FreshSnapshot, fed)]
  BY <1>1, <1>2, RunOneMore
<1>4. \A x \in Item, v \in Snapshot : Feeding[x][v] = FedOne(v, x)
  BY DEF Feeding
<1> QED
  BY <1>3, <1>4 DEF Play

\* More symbols print more.
LEMMA PlayGrows ==
    ASSUME NEW s \in Seq(Item), NEW t \in Seq(Item), IsPrefix(s, t)
    PROVE  IsPrefix(Play(s).printed, Play(t).printed)
<1> DEFINE T == {u \in Seq(Item) : IsPrefix(Play(s).printed, Play(u).printed)}
<1>0. \A u \in Seq(Item) : Play(u) \in Snapshot /\ Play(u).printed \in Seq(AnyLine)
  BY PlayOneMore DEF Snapshot
<1>1. s \in T
  BY <1>0, PrefixFacts
<1>2. ASSUME NEW u \in Seq(Item), NEW x \in Item, u \in T PROVE Append(u, x) \in T
  <2>1. Append(u, x) \in Seq(Item)
    OBVIOUS
  <2>2. Play(Append(u, x)) = FedOne(Play(u), x)
    BY PlayOneMore
  <2>3. IsPrefix(Play(u).printed, Play(Append(u, x)).printed)
    BY <1>0, <2>2, FedOneType
  <2>4. IsPrefix(Play(s).printed, Play(u).printed)
    BY <1>2
  <2>5. IsPrefix(Play(s).printed, Play(Append(u, x)).printed)
    <3> DEFINE a == Play(s).printed
               b == Play(u).printed
               c == Play(Append(u, x)).printed
    <3>1. a \in Seq(AnyLine) /\ b \in Seq(AnyLine) /\ c \in Seq(AnyLine)
      BY <1>0, <2>1
    <3>2. IsPrefix(a, b) /\ IsPrefix(b, c)
      BY <2>3, <2>4
    <3> HIDE DEF a, b, c
    <3>3. IsPrefix(a, c)
      BY <3>1, <3>2, PrefixFacts
    <3> QED
      BY <3>3 DEF a, c
  <2> QED
    BY <2>1, <2>5
<1> HIDE DEF T
<1>3. t \in T
  BY <1>1, <1>2, PrefixInduct
<1> QED
  BY <1>3 DEF T

\* One chunk's symbols after those of the chunks before, as a function to Run.
Flattening == [c \in Chunks |-> [t \in Seq(Item) |-> t \o Items(c)]]

\* The symbols of chunks, one after the other.
Flat(chunks) == Run(Flattening, << >>, chunks)

\* A chunk's symbols are all of its direction.
LEMMA ItemsType ==
    ASSUME NEW chunk \in [from : Direction, bytes : Seq(Symbol)]
    PROVE  /\ Items(chunk) \in Seq(Item)
           /\ Len(Items(chunk)) = Len(chunk.bytes)
           /\ \A k \in 1 .. Len(chunk.bytes) :
                 Items(chunk)[k] = [from |-> chunk.from, symbol |-> chunk.bytes[k]]
           /\ chunk.bytes = << >> => Items(chunk) = << >>
<1> DEFINE n == Len(chunk.bytes)
           x(k) == [from |-> chunk.from, symbol |-> chunk.bytes[k]]
<1>1. n \in Nat /\ \A k \in 1 .. n : x(k) \in Item
  BY ElementOfSeq DEF Item
<1>2. Items(chunk) = [k \in 1 .. n |-> x(k)]
  BY DEF Items
<1>3. chunk.bytes = << >> => n = 0
  OBVIOUS
<1> HIDE DEF n, x
<1>4. [k \in 1 .. n |-> x(k)] \in Seq(Item) /\ Len([k \in 1 .. n |-> x(k)]) = n
  BY <1>1
<1>5. n = 0 => [k \in 1 .. n |-> x(k)] = << >>
  BY <1>4
<1> QED
  BY <1>1, <1>2, <1>3, <1>4, <1>5 DEF n, x

\* The symbols of nothing, and of one chunk more.
LEMMA FlatOneMore ==
    ASSUME NEW chunks \in Seq(Chunks)
    PROVE  /\ Flat(<< >>) = << >>
           /\ Flat(chunks) \in Seq(Item)
           /\ \A c \in Chunks : Flat(Append(chunks, c)) = Flat(chunks) \o Items(c)
<1>1. Steps(Flattening, Chunks, Seq(Item))
  <2>1. \A c \in Chunks, t \in Seq(Item) : t \o Items(c) \in Seq(Item)
    BY ChunkType, ItemsType, Concat
  <2> QED
    BY <2>1 DEF Steps, Flattening
<1>2. << >> \in Seq(Item)
  OBVIOUS
<1>3. /\ Run(Flattening, << >>, << >>) = << >>
      /\ Run(Flattening, << >>, chunks) \in Seq(Item)
      /\ \A c \in Chunks : Run(Flattening, << >>, Append(chunks, c))
                              = Flattening[c][Run(Flattening, << >>, chunks)]
  <2> DEFINE e == << >>
             V == Seq(Item)
  <2>1. e \in V /\ Steps(Flattening, Chunks, V)
    BY <1>1, <1>2
  <2> HIDE DEF e, V
  <2>2. /\ Run(Flattening, e, << >>) = e
        /\ Run(Flattening, e, chunks) \in V
        /\ \A c \in Chunks : Run(Flattening, e, Append(chunks, c))
                              = Flattening[c][Run(Flattening, e, chunks)]
    BY <2>1, RunOneMore
  <2> QED
    BY <2>2 DEF e, V
<1>4. \A c \in Chunks, t \in Seq(Item) : Flattening[c][t] = t \o Items(c)
  BY DEF Flattening
<1> QED
  BY <1>3, <1>4 DEF Flat

\* What begins a recording begins its symbols.
LEMMA FlatGrows ==
    ASSUME NEW s \in Seq(Chunks), NEW t \in Seq(Chunks), IsPrefix(s, t)
    PROVE  IsPrefix(Flat(s), Flat(t))
<1> DEFINE T == {u \in Seq(Chunks) : IsPrefix(Flat(s), Flat(u))}
<1>0. \A u \in Seq(Chunks) : Flat(u) \in Seq(Item)
  BY FlatOneMore
<1>1. s \in T
  BY <1>0, PrefixFacts
<1>2. ASSUME NEW u \in Seq(Chunks), NEW x \in Chunks, u \in T PROVE Append(u, x) \in T
  <2>1. Append(u, x) \in Seq(Chunks)
    OBVIOUS
  <2>2. Flat(Append(u, x)) = Flat(u) \o Items(x)
    BY FlatOneMore
  <2>3. Items(x) \in Seq(Item)
    BY ChunkType, ItemsType
  <2>4. IsPrefix(Flat(s), Flat(u))
    BY <1>2
  <2>5. IsPrefix(Flat(s), Flat(Append(u, x)))
    <3> DEFINE a == Flat(s)
               b == Flat(u)
               c == Items(x)
    <3>1. a \in Seq(Item) /\ b \in Seq(Item) /\ c \in Seq(Item) /\ IsPrefix(a, b)
      BY <1>0, <2>3, <2>4
    <3> HIDE DEF a, b, c
    <3>2. b \o c \in Seq(Item) /\ IsPrefix(b, b \o c)
      BY <3>1, Concat, PrefixFacts
    <3>3. IsPrefix(a, b \o c)
      <4> DEFINE e == b \o c
      <4>1. e \in Seq(Item) /\ IsPrefix(b, e)
        BY <3>2
      <4> HIDE DEF e
      <4>2. IsPrefix(a, e)
        BY <3>1, <4>1, PrefixFacts
      <4> QED
        BY <4>2 DEF e
    <3> QED
      BY <2>2, <3>3 DEF a, b, c
  <2> QED
    BY <2>1, <2>5
<1> HIDE DEF T
<1>3. t \in T
  BY <1>1, <1>2, PrefixInduct
<1> QED
  BY <1>3 DEF T

-----------------------------------------------------------------------------
(* A replay *)

\* A process that has been fed the symbols of these chunks, but those in hand.
At(chunks, hand, now) ==
    \E fed \in Seq(Item) : Flat(chunks) = fed \o Items(hand) /\ now = Play(fed)

\* The first process: it has been fed what it forwarded, it has recorded no more
\* than that, and it returns with nothing in hand.
Session ==
    /\ At(forwarded, todo, Now)
    /\ lost = {} => IsPrefix(file.entries, forwarded)
    /\ main = "close" \/ code = 0 => todo.bytes = << >>
    /\ ~args.record => file.is = "none" /\ ~recording_enabled

\* How far the first process had come when it ended.
Earlier ==
    \E fed \in Seq(Item) :
        /\ IsPrefix(fed, Flat(forwarded))
        /\ earlier.printed = Play(fed).printed
        /\ earlier.end = "returned" => fed = Flat(forwarded)

\* The second process: it has been fed what it has read of the recording, which
\* begins what was forwarded, and is all of it when the session returned.
Replay ==
    /\ IsPrefix(file.entries, forwarded)
    /\ Earlier
    /\ At(SubSeq(file.entries, 1, cursor), todo, Now)
    /\ (earlier.end = "returned" /\ file.is # "none") => file.entries = forwarded
    /\ main = "replay" => file.is # "none"
    /\ code = 0 => file.is # "none" /\ cursor = Len(file.entries) /\ todo.bytes = << >>

\* What each process has decoded.
Plays ==
    /\ code = 0 => main = "exit"
    /\ earlier.end = "none" => Session
    /\ (earlier.end # "none" /\ lost = {}) => Replay

\* A KISS step is the step of the decoding on the next symbol in hand.
LEMMA FeedIsFed ==
    ASSUME MonInv, Feed
    PROVE  LET x == [from |-> todo.from, symbol |-> Head(todo.bytes)]
           IN  /\ x \in Item
               /\ Now' = FedOne(Now, x)
               /\ Items(todo') \in Seq(Item)
               /\ Items(todo) = << x >> \o Items(todo')
               /\ main \in {"run", "replay"}
               /\ UNCHANGED <<process, file, cursor, history>>
<1> DEFINE d == todo.from
           s == Head(todo.bytes)
           x == [from |-> d, symbol |-> s]
           c == IF kiss[d] = "idle" THEN DecoderStart(ctx[d]) ELSE ctx[d]
<1>1. /\ todo \in [from : Direction, bytes : Seq(Symbol)]
      /\ kiss \in [Direction -> {"idle", "frame", "bad"}]
  BY DEF MonInv, TypeOK
<1>2. ASSUME NEW symbols, NEW k, NEW y, NEW lines, KissPut(symbols, k, y, lines)
      PROVE  /\ x \in Item
             /\ Items(todo') \in Seq(Item)
             /\ Items(todo) = << x >> \o Items(todo')
             /\ Now' = Put(Now, d, k, y, lines)
             /\ s \in symbols
             /\ main \in {"run", "replay"}
             /\ UNCHANGED <<process, file, cursor, history>>
  <2>1. /\ todo.bytes # << >> /\ todo' = [todo EXCEPT !.bytes = Tail(@)]
        /\ kiss' = [kiss EXCEPT ![d] = k]
        /\ ctx' = [ctx EXCEPT ![d] = y]
        /\ printed' = printed \o lines
        /\ s \in symbols
        /\ main \in {"run", "replay"}
        /\ UNCHANGED <<process, file, cursor, history>>
    BY <1>2 DEF KissPut
  <2>2. /\ s \in Symbol /\ Tail(todo.bytes) \in Seq(Symbol)
        /\ todo' \in [from : Direction, bytes : Seq(Symbol)]
        /\ todo'.from = d /\ todo'.bytes = Tail(todo.bytes)
    <3> DEFINE b == todo.bytes
    <3>1. b \in Seq(Symbol) /\ b # << >> /\ d \in Direction
      BY <1>1, <2>1
    <3>2. todo' = [todo EXCEPT !.bytes = Tail(b)] /\ s = Head(b)
      BY <2>1
    <3> HIDE DEF b, s
    <3>3. s \in Symbol /\ Tail(b) \in Seq(Symbol)
      BY <3>1, <3>2
    <3>4. todo' \in [from : Direction, bytes : Seq(Symbol)] /\ todo'.from = d /\ todo'.bytes = Tail(b)
      BY <1>1, <3>2, <3>3
    <3> QED
      BY <3>3, <3>4 DEF b
  <2>3. x \in Item
    BY <1>1, <2>2 DEF Item
  <2>4. Items(todo) = << x >> \o Items(todo')
    <3> DEFINE a == Items(todo)
               b == Items(todo')
               n == Len(todo.bytes)
               m == Len(todo'.bytes)
    <3>1. /\ a \in Seq(Item) /\ Len(a) = n
          /\ \A k_1 \in 1 .. n : a[k_1] = [from |-> d, symbol |-> todo.bytes[k_1]]
      BY <1>1, ItemsType
    <3>2. /\ b \in Seq(Item) /\ Len(b) = m
          /\ \A k_1 \in 1 .. m : b[k_1] = [from |-> todo'.from, symbol |-> todo'.bytes[k_1]]
      BY <2>2, ItemsType
    <3>3. /\ n \in Nat \ {0} /\ m = n - 1 /\ s = todo.bytes[1]
          /\ \A k_1 \in 1 .. m : todo'.bytes[k_1] = todo.bytes[k_1 + 1]
      BY <1>1, <2>1, <2>2
    <3>4. a[1] = x /\ \A k_1 \in 1 .. m : b[k_1] = a[k_1 + 1]
      <4>1. a[1] = x
        <5>1. 1 \in 1 .. n
          BY <3>3
        <5> QED
          BY <3>1, <3>3, <5>1
      <4>2. ASSUME NEW j \in 1 .. m PROVE b[j] = a[j + 1]
        <5>1. j + 1 \in 1 .. n
          BY <3>3
        <5>2. b[j] = [from |-> d, symbol |-> todo.bytes[j + 1]]
          BY <2>2, <3>2, <3>3
        <5> HIDE DEF a, b, n, m
        <5> QED
          BY <3>1, <5>1, <5>2
      <4> QED
        BY <4>1, <4>2
    <3> HIDE DEF a, b, x, n, m
    <3>5. << x >> \o b \in Seq(Item) /\ Len(<< x >> \o b) = n
      BY <2>3, <3>2, <3>3
    <3>6. ASSUME NEW j \in 1 .. n PROVE a[j] = (<< x >> \o b)[j]
      <4>1. CASE j = 1
        BY <2>3, <3>2, <3>4, <4>1
      <4>2. CASE j # 1
        <5> DEFINE i == j - 1
        <5>1. i \in 1 .. m /\ j = i + 1
          BY <3>3, <4>2
        <5> HIDE DEF i
        <5> QED
          BY <2>3, <3>2, <3>4, <5>1
      <4> QED
        BY <4>1, <4>2
    <3> DEFINE e == << x >> \o b
    <3>7. e \in Seq(Item) /\ Len(e) = n /\ \A j \in 1 .. n : a[j] = e[j]
      BY <3>5, <3>6
    <3> HIDE DEF e
    <3>8. a = e
      BY <3>1, <3>7, SeqEqual
    <3> QED
      BY <3>8 DEF a, b, e
  <2>5. Now' = Put(Now, d, k, y, lines)
    BY <2>1 DEF Now, Put
  <2>6. Items(todo') \in Seq(Item)
    BY <2>2, ItemsType
  <2> QED
    BY <2>1, <2>3, <2>4, <2>5, <2>6
<1>3. FedOne(Now, x) =
         IF s = FEND
         THEN Put(Now, d, "idle", ctx[d],
                  IF kiss[d] = "idle" THEN << >> ELSE DecoderEnd(d, ctx[d], kiss[d] = "frame"))
         ELSE IF kiss[d] = "bad" THEN Put(Now, d, "bad", ctx[d], << >>)
         ELSE IF s = BAD THEN Put(Now, d, "bad", c, DecoderError(d))
         ELSE Put(Now, d, "frame", DecoderData(c, s), DataLines(d, c, s))
  <2>1. Now.kiss = kiss /\ Now.ctx = ctx /\ x.from = d /\ x.symbol = s
    BY DEF Now
  <2> HIDE DEF d, s, x
  <2> QED
    BY <2>1 DEF FedOne
<1> DEFINE Fed == /\ x \in Item
                  /\ Now' = FedOne(Now, x)
                  /\ Items(todo') \in Seq(Item)
                  /\ Items(todo) = << x >> \o Items(todo')
                  /\ main \in {"run", "replay"}
                  /\ UNCHANGED <<process, file, cursor, history>>
<1>4. ASSUME KissByte PROVE Fed
  <2>1. KissPut(Byte, "frame", DecoderData(c, s), DataLines(d, c, s)) /\ kiss[d] # "bad"
    BY <1>4 DEF KissByte
  <2> HIDE DEF c, d, s, x
  <2>2. s \in Byte
    BY <1>2, <2>1
  <2>3. FedOne(Now, x) = Put(Now, d, "frame", DecoderData(c, s), DataLines(d, c, s))
    BY <1>3, <2>1, <2>2, BadIsNoByte
  <2>4. Now' = Put(Now, d, "frame", DecoderData(c, s), DataLines(d, c, s))
    BY <1>2, <2>1
  <2> QED
    BY <1>2, <2>1, <2>3, <2>4
<1>5. ASSUME KissError PROVE Fed
  <2>1. KissPut({BAD}, "bad", c, DecoderError(d)) /\ kiss[d] # "bad"
    BY <1>5 DEF KissError
  <2> HIDE DEF c, d, s, x
  <2>2. s \in {BAD}
    BY <1>2, <2>1
  <2>3. FedOne(Now, x) = Put(Now, d, "bad", c, DecoderError(d))
    BY <1>3, <2>1, <2>2, BadIsNoByte
  <2> QED
    BY <1>2, <2>1, <2>3
<1>6. ASSUME KissEnd PROVE Fed
  <2>1. /\ KissPut({FEND}, "idle", ctx[d], DecoderEnd(d, ctx[d], kiss[d] = "frame"))
        /\ kiss[d] # "idle"
    BY <1>6 DEF KissEnd
  <2> HIDE DEF c, d, s, x
  <2>2. s \in {FEND}
    BY <1>2, <2>1
  <2>3. FedOne(Now, x) = Put(Now, d, "idle", ctx[d], DecoderEnd(d, ctx[d], kiss[d] = "frame"))
    BY <1>3, <2>1, <2>2
  <2> QED
    BY <1>2, <2>1, <2>3
<1>7. ASSUME KissSkip PROVE Fed
  <2>1. CASE kiss[d] = "idle" /\ KissPut({FEND}, "idle", ctx[d], << >>)
    <3> HIDE DEF c, d, s, x
    <3>2. s \in {FEND}
      BY <1>2, <2>1
    <3>3. FedOne(Now, x) = Put(Now, d, "idle", ctx[d], << >>)
      BY <1>3, <2>1, <3>2
    <3> QED
      BY <1>2, <2>1, <3>3
  <2>2. CASE kiss[d] = "bad" /\ KissPut(Byte \cup {BAD}, "bad", ctx[d], << >>)
    <3> HIDE DEF c, d, s, x
    <3>2. s \in Byte \cup {BAD}
      BY <1>2, <2>2
    <3>3. FedOne(Now, x) = Put(Now, d, "bad", ctx[d], << >>)
      BY <1>3, <2>2, <3>2, BadIsNoByte
    <3> QED
      BY <1>2, <2>2, <3>3
  <2> QED
    BY <1>7, <2>1, <2>2 DEF KissSkip
<1> QED
  BY <1>4, <1>5, <1>6, <1>7 DEF Feed

\* The process gets on by one symbol.
LEMMA AtFeed ==
    ASSUME MonInv, Feed, NEW chunks \in Seq(Chunks), At(chunks, todo, Now)
    PROVE  At(chunks, todo', Now')
<1>1. PICK fed \in Seq(Item) : Flat(chunks) = fed \o Items(todo) /\ Now = Play(fed)
  BY DEF At
<1> DEFINE x == [from |-> todo.from, symbol |-> Head(todo.bytes)]
           rest == Items(todo')
           more == Append(fed, x)
<1>2. /\ x \in Item /\ rest \in Seq(Item)
      /\ Now' = FedOne(Now, x)
      /\ Items(todo) = << x >> \o rest
  BY FeedIsFed
<1> HIDE DEF x, rest
<1>3. more \in Seq(Item) /\ fed \o (<< x >> \o rest) = more \o rest
  BY <1>2
<1>4. Now' = Play(more)
  BY <1>1, <1>2, PlayOneMore
<1> HIDE DEF more
<1>5. Flat(chunks) = more \o rest
  BY <1>1, <1>2, <1>3
<1> QED
  BY <1>3, <1>4, <1>5 DEF At, rest

\* Nothing in hand: the next chunk can be taken.
LEMMA AtChunk ==
    ASSUME NEW chunks \in Seq(Chunks), NEW hand \in [from : Direction, bytes : Seq(Symbol)],
           hand.bytes = << >>, NEW now, At(chunks, hand, now)
    PROVE  /\ now = Play(Flat(chunks))
           /\ \A chunk \in Chunks : At(Append(chunks, chunk), chunk, now)
<1>1. PICK fed \in Seq(Item) : Flat(chunks) = fed \o Items(hand) /\ now = Play(fed)
  BY DEF At
<1>2. Items(hand) = << >>
  BY ItemsType
<1>3. Flat(chunks) = fed
  BY <1>1, <1>2
<1>4. ASSUME NEW chunk \in Chunks PROVE At(Append(chunks, chunk), chunk, now)
  BY <1>1, <1>3, FlatOneMore DEF At
<1> QED
  BY <1>1, <1>3, <1>4

\* A step that decodes nothing, reads nothing and returns no success.
LEMMA PlaysQuiet ==
    ASSUME Plays,
           UNCHANGED <<args, recording_enabled, ctx, kiss, todo, printed, file, cursor,
                       forwarded, lost, earlier>>,
           code' = 0 => code = 0 /\ main' = main,
           main' = "close" => main = "close" \/ todo.bytes = << >>,
           main' = "replay" => main = "replay" \/ file.is # "none"
    PROVE  Plays'
<1>1. Now' = Now
  BY DEF Now
<1>2. ASSUME earlier.end = "none" PROVE Session'
  BY <1>1, <1>2 DEF Plays, Session
<1>3. ASSUME earlier.end # "none", lost = {} PROVE Replay'
  BY <1>1, <1>3 DEF Plays, Replay, Earlier
<1> QED
  BY <1>2, <1>3 DEF Plays

\* The steps that decode nothing, read nothing and end no session.
LEMMA PlaysSteps ==
    ASSUME MonInv, Plays,
           \/ CheckArguments
           \/ \E ok \in BOOLEAN : InitProxy(ok) \/ OpenReader(ok)
           \/ RunReturns \/ Signal \/ ReadEnd(-1) \/ UNCHANGED vars
    PROVE  Plays'
<1>0. code = 0 => main = "exit"
  BY DEF Plays
<1>1. CASE CheckArguments
  BY <1>0, <1>1, PlaysQuiet DEF CheckArguments, Exit, Goto, decoding, history
<1>2. ASSUME NEW ok \in BOOLEAN, InitProxy(ok) PROVE Plays'
  BY <1>0, <1>2, PlaysQuiet DEF InitProxy, Exit, Goto, decoding, history
<1>3. ASSUME NEW ok \in BOOLEAN, OpenReader(ok) PROVE Plays'
  BY <1>0, <1>3, PlaysQuiet DEF OpenReader, Exit, Goto, decoding, history
<1>4. CASE RunReturns
  BY <1>0, <1>4, PlaysQuiet DEF RunReturns, Goto, decoding, history
<1>5. CASE Signal
  BY <1>0, <1>5, PlaysQuiet DEF Signal, decoding
<1>6. CASE ReadEnd(-1)
  BY <1>0, <1>6, PlaysQuiet DEF ReadEnd, Exit, decoding, history
<1>7. CASE UNCHANGED vars
  BY <1>0, <1>7, PlaysQuiet DEF vars, process, decoding, history
<1> QED
  BY <1>1, <1>2, <1>3, <1>4, <1>5, <1>6, <1>7

\* The first process, with nothing recorded yet.
LEMMA PlaysOpenRecording ==
    ASSUME MonInv, Plays, NEW ok \in BOOLEAN, OpenRecording(ok)
    PROVE  Plays'
<1>1. /\ main = "recorder" /\ ((main' = "proxy" /\ code' = code) \/ (main' = "exit" /\ code' = 1))
      /\ UNCHANGED <<args, ctx, kiss, todo, printed, cursor, forwarded, lost, earlier>>
      /\ \/ UNCHANGED <<recording_enabled, file>>
         \/ args.record /\ file' = [is |-> "open", entries |-> << >>]
  BY DEF OpenRecording, Goto, Exit, decoding, history
<1>2. earlier.end = "none" /\ code # 0
  BY <1>1 DEF MonInv, Life, Live, Plays
<1>3. Session /\ Now' = Now
  BY <1>1, <1>2 DEF Plays, Now
<1>4. IsPrefix(<< >>, forwarded)
  BY PrefixFacts DEF MonInv, ChunksOK
<1>5. Session'
  BY <1>1, <1>2, <1>3, <1>4 DEF Session
<1> QED
  BY <1>1, <1>2, <1>5 DEF Plays

\* A chunk is recorded whenever no write has failed.
LEMMA PlaysForward ==
    ASSUME MonInv, Plays, NEW chunk \in Chunks, NEW ok \in BOOLEAN, Forward(chunk, ok)
    PROVE  Plays'
<1>1. /\ main = "run" /\ todo.bytes = << >> /\ todo' = chunk
      /\ forwarded' = Append(forwarded, chunk)
      /\ file' = (IF recording_enabled /\ ok
                  THEN [file EXCEPT !.entries = Append(@, chunk)] ELSE file)
      /\ lost' = (IF recording_enabled /\ ~ok THEN lost \cup {Len(forwarded')} ELSE lost)
      /\ UNCHANGED <<args, main, code, recording_enabled, ctx, kiss, printed, cursor, earlier>>
  BY ChunkType DEF Forward, process
<1>2. /\ earlier.end = "none" /\ code # 0 /\ Session /\ Now' = Now
      /\ file \in [is : {"none", "open", "closed"}, entries : Seq(Chunks)]
      /\ forwarded \in Seq(Chunks)
      /\ todo \in [from : Direction, bytes : Seq(Symbol)]
      /\ recording_enabled \in BOOLEAN
  BY <1>1 DEF MonInv, Life, Live, Plays, Now, TypeOK, ChunksOK
<1>3. At(forwarded', todo', Now')
  <2>1. At(Append(forwarded, chunk), chunk, Now)
    BY <1>1, <1>2, AtChunk DEF Session
  <2> QED
    BY <1>1, <1>2, <2>1
<1>4. ASSUME lost' = {} PROVE IsPrefix(file'.entries, forwarded')
  <2>0. lost = {} /\ (recording_enabled => ok)
    BY <1>1, <1>2, <1>4
  <2>1. CASE recording_enabled
    <3>1. args.record
      BY <1>2, <2>1 DEF Session
    <3>2. file.entries = forwarded
      <4>1. file.entries = Without(forwarded, {})
        BY <1>1, <2>0, <3>1 DEF MonInv, Recorded
      <4> QED
        BY <1>2, <4>1, WithoutNone
    <3>3. file' = [file EXCEPT !.entries = Append(@, chunk)]
      BY <1>1, <2>0, <2>1
    <3>4. file'.entries = forwarded'
      BY <1>1, <1>2, <3>2, <3>3
    <3>5. forwarded' \in Seq(Chunks)
      BY <1>1, <1>2
    <3> QED
      BY <3>4, <3>5, PrefixFacts
  <2>2. CASE ~recording_enabled
    <3>1. file' = file /\ IsPrefix(file.entries, forwarded) /\ file.entries \in Seq(Chunks)
      BY <1>1, <1>2, <2>0, <2>2 DEF Session
    <3>2. forwarded' = forwarded \o << chunk >> /\ << chunk >> \in Seq(Chunks)
          /\ forwarded' \in Seq(Chunks)
      BY <1>1, <1>2
    <3>3. IsPrefix(forwarded, forwarded')
      BY <1>2, <3>2, PrefixFacts
    <3>4. IsPrefix(file.entries, forwarded')
      <4> DEFINE e == file.entries
                 g == forwarded'
      <4>1. /\ e \in Seq(Chunks) /\ forwarded \in Seq(Chunks) /\ g \in Seq(Chunks)
            /\ IsPrefix(e, forwarded) /\ IsPrefix(forwarded, g)
        BY <1>2, <3>1, <3>2, <3>3
      <4> HIDE DEF e, g
      <4>2. IsPrefix(e, g)
        BY <4>1, PrefixTransitive
      <4> QED
        BY <4>2 DEF e, g
    <3> QED
      BY <3>1, <3>4
  <2> QED
    BY <2>1, <2>2
<1>5. file'.is = file.is
  BY <1>1, <1>2
<1>6. Session'
  BY <1>1, <1>2, <1>3, <1>4, <1>5 DEF Session
<1> QED
  BY <1>1, <1>2, <1>6 DEF Plays

\* Both processes get on by a symbol of the chunk in hand.
LEMMA PlaysFeed ==
    ASSUME MonInv, Plays, Feed
    PROVE  Plays'
<1>1. /\ main \in {"run", "replay"}
      /\ UNCHANGED <<args, main, code, recording_enabled, file, cursor, forwarded, lost,
                     earlier>>
  BY FeedIsFed DEF process, history
<1>2. code # 0 /\ forwarded \in Seq(Chunks) /\ file.entries \in Seq(Chunks)
      /\ SubSeq(file.entries, 1, cursor) \in Seq(Chunks)
  <2>1. file.entries \in Seq(Chunks) /\ cursor \in 0 .. Len(file.entries)
    BY DEF MonInv, TypeOK, ChunksOK
  <2>2. SubSeq(file.entries, 1, cursor) \in Seq(Chunks)
    BY <2>1
  <2> QED
    BY <1>1, <2>1, <2>2 DEF MonInv, ChunksOK, Plays
<1>3. ASSUME earlier.end = "none" PROVE Session'
  <2>1. Session
    BY <1>3 DEF Plays
  <2>2. At(forwarded, todo', Now')
    BY <1>2, <2>1, AtFeed DEF Session
  <2> QED
    BY <1>1, <1>2, <2>1, <2>2 DEF Session
<1>4. ASSUME earlier.end # "none", lost = {} PROVE Replay'
  <2>1. Replay
    BY <1>4 DEF Plays
  <2>2. At(SubSeq(file.entries, 1, cursor), todo', Now')
    BY <1>2, <2>1, AtFeed DEF Replay
  <2> QED
    BY <1>1, <1>2, <2>1, <2>2 DEF Replay, Earlier
<1> QED
  BY <1>1, <1>2, <1>3, <1>4 DEF Plays

\* main returns from a session with nothing in hand.
LEMMA PlaysCloseRecording ==
    ASSUME MonInv, Plays, CloseRecording
    PROVE  Plays'
<1>1. /\ main = "close" /\ main' = "exit" /\ code' = 0
      /\ file' = (IF recording_enabled THEN [file EXCEPT !.is = "closed"] ELSE file)
      /\ UNCHANGED <<args, recording_enabled, ctx, kiss, todo, printed, cursor, forwarded,
                     lost, earlier>>
  BY DEF CloseRecording, Exit, decoding, history
<1>2. /\ earlier.end = "none" /\ Session /\ Now' = Now
      /\ file \in [is : {"none", "open", "closed"}, entries : Seq(Chunks)]
  BY <1>1 DEF MonInv, Life, Live, Plays, Now, ChunksOK
<1>3. file'.entries = file.entries /\ (~recording_enabled => file' = file)
  BY <1>1, <1>2
<1>4. Session'
  BY <1>1, <1>2, <1>3 DEF Session
<1> QED
  BY <1>1, <1>2, <1>4 DEF Plays

\* A kill shortens a recording at its end, and only a recording that is made.
LEMMA PlaysKilled ==
    ASSUME MonInv, Plays, Killed
    PROVE  Plays'
<1>1. PICK kept \in 0 .. Len(file.entries) :
             /\ ~recording_enabled => kept = Len(file.entries)
             /\ file' = [file EXCEPT !.entries = SubSeq(@, 1, kept)]
  BY DEF Killed
<1>2. /\ main # "exit" /\ main' = "killed" /\ code' = code
      /\ UNCHANGED <<args, recording_enabled, ctx, kiss, todo, printed, cursor,
                     forwarded, lost, earlier>>
  BY DEF Killed, Goto, decoding, history
<1>3. /\ file \in [is : {"none", "open", "closed"}, entries : Seq(Chunks)]
      /\ forwarded \in Seq(Chunks) /\ code # 0 /\ Now' = Now
  BY <1>2 DEF MonInv, ChunksOK, Plays, Now
<1> DEFINE cut == SubSeq(file.entries, 1, kept)
<1>4. file'.is = file.is /\ file'.entries = cut
  BY <1>1, <1>3
<1>5. cut \in Seq(Chunks) /\ (kept = Len(file.entries) => cut = file.entries)
      /\ IsPrefix(cut, file.entries)
  <2> DEFINE e == file.entries
  <2>1. e \in Seq(Chunks) /\ kept \in 0 .. Len(e)
    BY <1>3
  <2>2. /\ cut \in Seq(Chunks) /\ Len(cut) = kept
        /\ \A k \in 1 .. kept : cut[k] = e[k]
        /\ kept = Len(e) => cut = e
    <3> HIDE DEF e
    <3>1. /\ SubSeq(e, 1, kept) \in Seq(Chunks) /\ Len(SubSeq(e, 1, kept)) = kept
          /\ \A k \in 1 .. kept : SubSeq(e, 1, kept)[k] = e[k]
          /\ kept = Len(e) => SubSeq(e, 1, kept) = e
      BY <2>1
    <3> QED
      BY <3>1 DEF e
  <2> HIDE DEF e, cut
  <2>3. IsPrefix(cut, e)
    BY <2>1, <2>2, PrefixMeans
  <2> QED
    BY <2>2, <2>3 DEF e
<1> HIDE DEF cut
<1>6. ASSUME earlier.end = "none" PROVE Session'
  <2>1. Session
    BY <1>6 DEF Plays
  <2>2. lost = {} => IsPrefix(cut, forwarded)
    <3> DEFINE e == file.entries
    <3>1. e \in Seq(Chunks) /\ IsPrefix(cut, e) /\ (lost = {} => IsPrefix(e, forwarded))
      BY <1>3, <1>5, <2>1 DEF Session
    <3> HIDE DEF e
    <3> QED
      BY <1>3, <1>5, <3>1, PrefixFacts
  <2> QED
    BY <1>2, <1>3, <1>4, <2>1, <2>2 DEF Session
<1>7. ASSUME earlier.end # "none", lost = {} PROVE Replay'
  <2>1. Replay /\ ~recording_enabled
    BY <1>7 DEF Plays, MonInv, Life
  <2>2. file'.entries = file.entries
    BY <1>1, <1>4, <1>5, <2>1
  <2> QED
    BY <1>2, <1>3, <1>4, <2>1, <2>2 DEF Replay, Earlier
<1> QED
  BY <1>2, <1>3, <1>6, <1>7 DEF Plays

\* The second process starts where nothing has been read or decoded.
LEMMA PlaysRestart ==
    ASSUME MonInv, Plays, Restart
    PROVE  Plays'
<1>1. /\ main \in {"exit", "killed"} /\ earlier.end = "none"
      /\ earlier'.end = (IF code = 0 THEN "returned" ELSE "cut short")
      /\ earlier'.printed = printed
      /\ main' = "arguments" /\ code' = -1
      /\ ctx' = FreshContext /\ kiss' = [d \in Direction |-> "idle"] /\ printed' = << >>
      /\ todo' = [todo EXCEPT !.bytes = << >>]
      /\ UNCHANGED <<file, cursor, forwarded, lost>>
  BY DEF Restart
<1>2. /\ Session /\ cursor = 0
      /\ forwarded \in Seq(Chunks) /\ file.entries \in Seq(Chunks)
      /\ todo \in [from : Direction, bytes : Seq(Symbol)]
      /\ code = 0 => main = "exit"
  BY <1>1 DEF Plays, MonInv, Life, ChunksOK, TypeOK
<1>3. /\ todo' \in [from : Direction, bytes : Seq(Symbol)] /\ todo'.bytes = << >>
  <2>1. << >> \in Seq(Symbol)
    OBVIOUS
  <2> QED
    BY <1>1, <1>2, <2>1
<1>4. Earlier'
  <2>1. PICK fed \in Seq(Item) : Flat(forwarded) = fed \o Items(todo) /\ Now = Play(fed)
    BY <1>2 DEF Session, At
  <2>2. Items(todo) \in Seq(Item) /\ (todo.bytes = << >> => Items(todo) = << >>)
    BY <1>2, ItemsType
  <2>3. IsPrefix(fed, Flat(forwarded))
    BY <2>1, <2>2, PrefixFacts
  <2>4. printed = Play(fed).printed
    BY <2>1 DEF Now
  <2>5. ASSUME earlier'.end = "returned" PROVE fed = Flat(forwarded)
    <3>1. code = 0
      BY <1>1, <2>5
    <3>2. Items(todo) = << >>
      BY <1>2, <2>2, <3>1 DEF Session
    <3> QED
      BY <2>1, <3>2
  <2> QED
    BY <1>1, <2>3, <2>4, <2>5 DEF Earlier
<1>5. At(SubSeq(file'.entries, 1, cursor'), todo', Now')
  <2>1. SubSeq(file.entries, 1, 0) = << >> /\ << >> \in Seq(Item) /\ << >> \o << >> = << >>
        /\ << >> \in Seq(Chunks)
    BY <1>2
  <2>2. Now' = Play(<< >>)
    <3>1. Now' = FreshSnapshot
      BY <1>1 DEF Now, FreshSnapshot
    <3> QED
      BY <2>1, <3>1, PlayOneMore
  <2>3. Items(todo') = << >>
    BY <1>3, ItemsType
  <2>4. Flat(<< >>) = << >>
    BY <2>1, FlatOneMore
  <2>5. At(<< >>, todo', Now')
    <3> DEFINE e == << >>
    <3>1. e \in Seq(Item) /\ Flat(<< >>) = e \o Items(todo') /\ Now' = Play(e)
      BY <2>1, <2>2, <2>3, <2>4
    <3> HIDE DEF e
    <3> QED
      BY <3>1 DEF At
  <2> QED
    BY <1>1, <1>2, <2>1, <2>5
<1>6. ASSUME lost = {}
      PROVE  /\ IsPrefix(file.entries, forwarded)
             /\ (earlier'.end = "returned" /\ file.is # "none") => file.entries = forwarded
  <2>1. IsPrefix(file.entries, forwarded)
    BY <1>2, <1>6 DEF Session
  <2>2. ASSUME code = 0, file.is # "none" PROVE file.entries = forwarded
    <3>1. args.record /\ main = "exit"
      BY <1>2, <2>2 DEF Session
    <3>2. file.entries = Without(forwarded, {})
      BY <1>6, <2>2, <3>1 DEF MonInv, RecordingIsComplete
    <3> QED
      BY <1>2, <3>2, WithoutNone
  <2> QED
    BY <1>1, <2>1, <2>2
<1>7. main' = "arguments" /\ code' # 0 /\ UNCHANGED <<file, forwarded, lost>>
      /\ earlier'.end # "none"
  <2>1. main' = "arguments" /\ code' = -1 /\ UNCHANGED <<file, forwarded, lost>>
    BY DEF Restart
  <2>2. earlier'.end # "none"
    BY DEF Restart
  <2> QED
    BY <2>1, <2>2
<1>8. ASSUME lost = {} PROVE Replay'
  BY <1>4, <1>5, <1>6, <1>7, <1>8 DEF Replay
<1> QED
  BY <1>7, <1>8 DEF Plays

\* An entry of the recording is taken in hand.
LEMMA PlaysReadEntry ==
    ASSUME MonInv, Plays, ReadEntry
    PROVE  Plays'
<1>1. /\ main = "replay" /\ todo.bytes = << >> /\ cursor < Len(file.entries)
      /\ cursor' = cursor + 1 /\ todo' = file.entries[cursor + 1]
      /\ UNCHANGED <<args, main, code, recording_enabled, ctx, kiss, printed, file, forwarded,
                     lost, earlier>>
  BY DEF ReadEntry, process, history
<1>2. /\ earlier.end # "none" /\ code # 0 /\ Now' = Now
      /\ file.entries \in Seq(Chunks) /\ cursor \in 0 .. Len(file.entries)
      /\ todo \in [from : Direction, bytes : Seq(Symbol)]
  BY <1>1 DEF MonInv, Life, Plays, Now, TypeOK, ChunksOK
<1>3. ASSUME lost = {} PROVE Replay'
  <2>1. Replay
    BY <1>2, <1>3 DEF Plays
  <2> DEFINE e == file.entries
             s == SubSeq(e, 1, cursor)
             x == e[cursor + 1]
  <2>2. s \in Seq(Chunks) /\ x \in Chunks /\ SubSeq(e, 1, cursor + 1) = Append(s, x)
    <3>1. e \in Seq(Chunks) /\ cursor \in Nat /\ cursor + 1 <= Len(e)
      BY <1>1, <1>2
    <3> HIDE DEF e
    <3> QED
      BY <3>1
  <2>3. At(s, todo, Now)
    BY <2>1 DEF Replay
  <2> HIDE DEF s, x
  <2>4. At(Append(s, x), x, Now)
    BY <1>1, <1>2, <2>2, <2>3, AtChunk
  <2>5. At(SubSeq(file'.entries, 1, cursor'), todo', Now')
    BY <1>1, <1>2, <2>2, <2>4 DEF x
  <2> HIDE DEF e
  <2> QED
    BY <1>1, <1>2, <2>1, <2>5 DEF Replay, Earlier
<1> QED
  BY <1>1, <1>2, <1>3 DEF Plays

\* A replay returns 0 when it has read the whole recording.
LEMMA PlaysReadEnd ==
    ASSUME MonInv, Plays, ReadEnd(1)
    PROVE  Plays'
<1>1. /\ main = "replay" /\ todo.bytes = << >> /\ cursor = Len(file.entries)
      /\ main' = "exit" /\ code' = 0
      /\ UNCHANGED <<args, recording_enabled, ctx, kiss, todo, printed, file, cursor,
                     forwarded, lost, earlier>>
  BY DEF ReadEnd, Exit, decoding, history
<1>2. earlier.end # "none" /\ Now' = Now
  BY <1>1 DEF MonInv, Life, Now
<1>3. ASSUME lost = {} PROVE Replay'
  BY <1>1, <1>2, <1>3 DEF Plays, Replay, Earlier
<1> QED
  BY <1>1, <1>2, <1>3 DEF Plays

\* The first process has been fed nothing.
LEMMA PlaysInit == Init => Plays
<1> SUFFICES ASSUME Init PROVE Plays
  OBVIOUS
<1>1. /\ code = -1 /\ earlier.end = "none" /\ forwarded = << >> /\ main = "arguments"
      /\ file.is = "none" /\ file.entries = << >> /\ recording_enabled = FALSE
      /\ kiss = [d \in Direction |-> "idle"] /\ ctx = FreshContext /\ printed = << >>
      /\ todo = [from |-> ToDevice, bytes |-> << >>]
  BY DEF Init
<1>2. << >> \in Seq(Item) /\ << >> \in Seq(Chunks) /\ << >> \in Seq(Symbol)
  OBVIOUS
<1>3. todo \in [from : Direction, bytes : Seq(Symbol)] /\ todo.bytes = << >>
  BY <1>1, <1>2 DEF Direction
<1>4. At(forwarded, todo, Now)
  <2>1. Now = Play(<< >>)
    <3>1. Now = FreshSnapshot
      BY <1>1 DEF Now, FreshSnapshot
    <3> QED
      BY <1>2, <3>1, PlayOneMore
  <2>2. Items(todo) = << >> /\ Flat(<< >>) = << >>
    BY <1>2, <1>3, ItemsType, FlatOneMore
  <2> DEFINE e == << >>
  <2>3. e \in Seq(Item) /\ Flat(forwarded) = e \o Items(todo) /\ Now = Play(e)
    BY <1>1, <1>2, <2>1, <2>2
  <2> HIDE DEF e
  <2> QED
    BY <2>3 DEF At
<1>5. IsPrefix(<< >>, << >>)
  BY <1>2, PrefixFacts
<1>6. Session
  BY <1>1, <1>3, <1>4, <1>5 DEF Session
<1> QED
  BY <1>1, <1>6 DEF Plays

\* Two processes fed what begins the same symbols print what begins the same.
LEMMA PlaysAlike ==
    ASSUME MonInv, Plays
    PROVE  ReplayShowsTheSame
<1> SUFFICES ASSUME earlier.end # "none", lost = {}
             PROVE  /\ IsPrefix(printed, earlier.printed) \/ IsPrefix(earlier.printed, printed)
                    /\ earlier.end = "returned" => IsPrefix(printed, earlier.printed)
                    /\ (main = "exit" /\ code = 0 /\ earlier.end = "returned") =>
                          printed = earlier.printed
  BY DEF ReplayShowsTheSame
<1>1. Replay
  BY DEF Plays
<1>2. /\ forwarded \in Seq(Chunks) /\ file.entries \in Seq(Chunks)
      /\ cursor \in 0 .. Len(file.entries)
      /\ todo \in [from : Direction, bytes : Seq(Symbol)]
  BY DEF MonInv, TypeOK, ChunksOK
<1> DEFINE read == SubSeq(file.entries, 1, cursor)
           all == Flat(forwarded)
<1>3. PICK first \in Seq(Item) :
        /\ IsPrefix(first, all)
        /\ earlier.printed = Play(first).printed
        /\ earlier.end = "returned" => first = all
  BY <1>1 DEF Replay, Earlier
<1>4. PICK second \in Seq(Item) : Flat(read) = second \o Items(todo) /\ Now = Play(second)
  BY <1>1 DEF Replay, At
<1>5. printed = Play(second).printed
  BY <1>4 DEF Now
<1>6. /\ read \in Seq(Chunks) /\ IsPrefix(read, file.entries)
      /\ cursor = Len(file.entries) => read = file.entries
  <2> DEFINE e == file.entries
  <2>1. e \in Seq(Chunks) /\ cursor \in 0 .. Len(e)
    BY <1>2
  <2>2. /\ read \in Seq(Chunks) /\ Len(read) = cursor
        /\ \A k \in 1 .. cursor : read[k] = e[k]
        /\ cursor = Len(e) => read = e
    <3> HIDE DEF e
    <3>1. /\ SubSeq(e, 1, cursor) \in Seq(Chunks) /\ Len(SubSeq(e, 1, cursor)) = cursor
          /\ \A k \in 1 .. cursor : SubSeq(e, 1, cursor)[k] = e[k]
          /\ cursor = Len(e) => SubSeq(e, 1, cursor) = e
      BY <2>1
    <3> QED
      BY <3>1 DEF e
  <2> HIDE DEF e, read
  <2>3. IsPrefix(read, e)
    BY <2>1, <2>2, PrefixMeans
  <2> QED
    BY <2>2, <2>3 DEF e
<1>7. IsPrefix(read, forwarded)
  <2> DEFINE e == file.entries
  <2>1. e \in Seq(Chunks) /\ IsPrefix(read, e) /\ IsPrefix(e, forwarded)
    BY <1>1, <1>2, <1>6 DEF Replay
  <2> HIDE DEF e, read
  <2> QED
    BY <1>2, <1>6, <2>1, PrefixFacts
<1> HIDE DEF read
<1>8. all \in Seq(Item) /\ Flat(read) \in Seq(Item) /\ IsPrefix(Flat(read), all)
  BY <1>2, <1>6, <1>7, FlatGrows, FlatOneMore
<1> HIDE DEF all
<1>9. Items(todo) \in Seq(Item) /\ (todo.bytes = << >> => Items(todo) = << >>)
  BY <1>2, ItemsType
<1>10. IsPrefix(second, all)
  <2> DEFINE t == Flat(read)
  <2>1. t \in Seq(Item) /\ IsPrefix(t, all) /\ t = second \o Items(todo)
    BY <1>4, <1>8
  <2> HIDE DEF t
  <2>2. IsPrefix(second, t)
    BY <1>9, <2>1, PrefixFacts
  <2>3. all \in Seq(Item)
    BY <1>8
  <2> QED
    BY <2>1, <2>2, <2>3, PrefixTransitive
<1>11. IsPrefix(printed, earlier.printed) \/ IsPrefix(earlier.printed, printed)
  <2>1. IsPrefix(first, second) \/ IsPrefix(second, first)
    BY <1>3, <1>8, <1>10, PrefixFacts
  <2> QED
    BY <1>3, <1>5, <2>1, PlayGrows
<1>12. earlier.end = "returned" => IsPrefix(printed, earlier.printed)
  BY <1>3, <1>5, <1>8, <1>10, PlayGrows
<1>13. ASSUME main = "exit", code = 0, earlier.end = "returned" PROVE printed = earlier.printed
  <2>1. read = forwarded /\ todo.bytes = << >>
    BY <1>1, <1>6, <1>13 DEF Replay
  <2>2. all = second
    BY <1>4, <1>9, <2>1 DEF all
  <2> QED
    BY <1>3, <1>5, <1>13, <2>2
<1> QED
  BY <1>11, <1>12, <1>13

\* A replay of a recording without a failed write shows what the session it was
\* made in showed, in the same order and, when that session returned and the
\* replay reads it to its end, all of it.
THEOREM ReplayTheSame == Spec => []ReplayShowsTheSame
<1>1. MonInv /\ Plays /\ [Next]_vars => Plays'
  <2> SUFFICES ASSUME MonInv, Plays, [Next]_vars PROVE Plays'
    OBVIOUS
  <2>1. CASE CheckArguments \/ (\E ok \in BOOLEAN : InitProxy(ok) \/ OpenReader(ok))
             \/ RunReturns \/ Signal \/ ReadEnd(-1) \/ UNCHANGED vars
    BY <2>1, PlaysSteps
  <2>2. ASSUME NEW ok \in BOOLEAN, OpenRecording(ok) PROVE Plays'
    BY <2>2, PlaysOpenRecording
  <2>3. ASSUME NEW chunk \in Chunks, NEW ok \in BOOLEAN, Forward(chunk, ok) PROVE Plays'
    BY <2>3, PlaysForward
  <2>4. CASE Feed
    BY <2>4, PlaysFeed
  <2>5. CASE CloseRecording
    BY <2>5, PlaysCloseRecording
  <2>6. CASE Killed
    BY <2>6, PlaysKilled
  <2>7. CASE Restart
    BY <2>7, PlaysRestart
  <2>8. CASE ReadEntry
    BY <2>8, PlaysReadEntry
  <2>9. CASE ReadEnd(1)
    BY <2>9, PlaysReadEnd
  <2> QED
    BY <2>1, <2>2, <2>3, <2>4, <2>5, <2>6, <2>7, <2>8, <2>9 DEF Next
<1>2. MonInv /\ Plays => ReplayShowsTheSame
  BY PlaysAlike
<1> QED
  BY <1>1, <1>2, PlaysInit, MonitorInvariance, PTL DEF Spec

=============================================================================
