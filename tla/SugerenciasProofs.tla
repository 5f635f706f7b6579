-------------------------- MODULE SugerenciasProofs --------------------------
(****************************************************************************)
(* The list of suggestions: the positions kept at every point of the loop   *)
(* are those of the lines read, with their own score and reason, and the    *)
(* sort and the cut show the best of them.                                  *)
(****************************************************************************)
EXTENDS Sugerencias, FunctionTheorems, FiniteSetTheorems, SequenceTheorems, TLAPS

\* Antes[x] is what goes before x: the elements of S form one line.
EnFila(S, Antes) ==
  /\ Antes \in [S -> SUBSET S]
  /\ \A x \in S : x \notin Antes[x]
  /\ \A x, y \in S : x # y =>
       \/ x \in Antes[y] /\ Antes[x] \subseteq Antes[y]
       \/ y \in Antes[x] /\ Antes[y] \subseteq Antes[x]

(* In a finite set whose elements form a line every rank is somebody's, and   *)
(* of one only: there are as many ranks as elements and no two share one.     *)
LEMMA UnoPorRango ==
  ASSUME NEW S, IsFiniteSet(S), NEW Antes, EnFila(S, Antes)
  PROVE  /\ \A x \in S : Cardinality(Antes[x]) \in 0..(Cardinality(S) - 1)
         /\ \A x, y \in S : Cardinality(Antes[x]) = Cardinality(Antes[y]) => x = y
         /\ \A k : k \in 0..(Cardinality(S) - 1) => \E x : x \in S /\ Cardinality(Antes[x]) = k
<1> DEFINE n == Cardinality(S)
           T == 0..(n - 1)
           rango == [x \in S |-> Cardinality(Antes[x])]
<1> USE DEF EnFila
<1>1. n \in Nat
  BY FS_CardinalityType
<1>2. ASSUME NEW x \in S PROVE IsFiniteSet(Antes[x]) /\ Cardinality(Antes[x]) \in T
  <2>1. IsFiniteSet(Antes[x]) /\ Cardinality(Antes[x]) <= n /\ (n = Cardinality(Antes[x]) => S = Antes[x])
    BY FS_Subset
  <2>2. Cardinality(Antes[x]) \in Nat
    BY <2>1, FS_CardinalityType
  <2>3. Cardinality(Antes[x]) # n
    BY <2>1
  <2> QED BY <1>1, <2>1, <2>2, <2>3
<1>3. ASSUME NEW x \in S, NEW y \in S, x \in Antes[y], Antes[x] \subseteq Antes[y]
      PROVE  Cardinality(Antes[x]) # Cardinality(Antes[y])
  <2>1. Cardinality(Antes[y]) = Cardinality(Antes[x]) => Antes[y] = Antes[x]
    BY <1>2, <1>3, FS_Subset
  <2> QED BY <1>3, <2>1
<1>4. ASSUME NEW x \in S, NEW y \in S, Cardinality(Antes[x]) = Cardinality(Antes[y])
      PROVE  x = y
  BY <1>3, <1>4
<1>5. rango \in Injection(S, T)
  <2>1. rango \in [S -> T]
    BY <1>2
  <2>2. \A x, y \in S : rango[x] = rango[y] => x = y
    BY <1>4
  <2> HIDE DEF rango, T
  <2> QED BY <2>1, <2>2, Fun_IsInj
<1>6. IsFiniteSet(T) /\ Cardinality(T) = n
  <2>1. 0 \in Int /\ n - 1 \in Int
    BY <1>1
  <2>2. IsFiniteSet(0..(n - 1)) /\ Cardinality(0..(n - 1)) = IF 0 > n - 1 THEN 0 ELSE (n - 1) - 0 + 1
    BY <2>1, FS_Interval
  <2> QED BY <1>1, <2>2
<1>7. rango \in Surjection(S, T)
  <2> HIDE DEF rango, T
  <2> QED BY <1>5, <1>6, FS_Injection
<1>8. \A k \in T : \E x \in S : rango[x] = k
  <2> HIDE DEF rango, T
  <2> QED BY <1>7, Fun_SurjectionProperties
<1> QED BY <1>2, <1>4, <1>8

(* The k-th element is one of the set and has k - 1 below it.                  *)
LEMMA EnesimoEsta ==
  ASSUME NEW S, S \subseteq Nat, IsFiniteSet(S), NEW k \in 1..Cardinality(S)
  PROVE  /\ Enesimo(S, k) \in S
         /\ Cardinality({m \in S : m < Enesimo(S, k)}) = k - 1
<1> DEFINE Antes == [x \in S |-> {m \in S : m < x}]
<1>1. Antes \in [S -> SUBSET S]
  OBVIOUS
<1>2. \A x \in S : x \notin Antes[x]
  OBVIOUS
<1>3. \A x, y \in S : x # y =>
           \/ x \in Antes[y] /\ Antes[x] \subseteq Antes[y]
           \/ y \in Antes[x] /\ Antes[y] \subseteq Antes[x]
  <2>1. ASSUME NEW x \in S, NEW y \in S, x < y
        PROVE  x \in Antes[y] /\ Antes[x] \subseteq Antes[y]
    <3>1. \A m \in S : m < x => m < y
      BY <2>1
    <3> QED BY <2>1, <3>1
  <2>2. ASSUME NEW x \in S, NEW y \in S PROVE x = y \/ x < y \/ y < x
    OBVIOUS
  <2> HIDE DEF Antes
  <2> QED BY <2>1, <2>2
<1>4. Cardinality(S) \in Nat
  BY FS_CardinalityType
<1>5. k - 1 \in 0..(Cardinality(S) - 1)
  BY <1>4
<1>6. \E x \in S : Cardinality(Antes[x]) = k - 1
  <2> HIDE DEF Antes
  <2>1. EnFila(S, Antes)
    BY <1>1, <1>2, <1>3, Zenon DEF EnFila
  <2>2. ASSUME NEW A, EnFila(S, A), NEW j, j \in 0..(Cardinality(S) - 1)
        PROVE  \E x : x \in S /\ Cardinality(A[x]) = j
    BY <2>2, UnoPorRango
  <2> QED BY <1>5, <2>1, <2>2
<1>7. \E x \in S : Cardinality({m \in S : m < x}) = k - 1
  BY <1>6
<1> QED BY <1>7 DEF Enesimo

(* An element with k - 1 below it is the k-th.                                 *)
LEMMA EnesimoEs ==
  ASSUME NEW S, S \subseteq Nat, IsFiniteSet(S), NEW x \in S
  PROVE  /\ Cardinality({m \in S : m < x}) + 1 \in 1..Cardinality(S)
         /\ \A k \in 1..Cardinality(S) :
              Cardinality({m \in S : m < x}) = k - 1 => x = Enesimo(S, k)
<1> DEFINE bajo(y) == {m \in S : m < y}
           c == Cardinality(bajo(x))
<1>1. IsFiniteSet(bajo(x)) /\ c <= Cardinality(S) /\ (c = Cardinality(S) => bajo(x) = S)
  BY FS_Subset
<1>2. c \in Nat /\ Cardinality(S) \in Nat
  BY <1>1, FS_CardinalityType
<1>3. x \notin bajo(x)
  OBVIOUS
<1>4. c + 1 \in 1..Cardinality(S)
  BY <1>1, <1>2, <1>3
<1>5. ASSUME NEW y \in S, Cardinality(bajo(y)) = c PROVE ~(y < x) /\ ~(x < y)
  <2>1. ASSUME NEW u \in S, NEW v \in S, u < v PROVE Cardinality(bajo(u)) # Cardinality(bajo(v))
    <3>1. bajo(u) \subseteq bajo(v) /\ u \in bajo(v) /\ u \notin bajo(u)
      <4>1. u \in Nat /\ v \in Nat /\ \A m \in S : m \in Nat
        OBVIOUS
      <4>2. \A m \in S : m < u => m < v
        BY <2>1, <4>1
      <4>3. ~(u < u)
        BY <4>1
      <4> QED BY <2>1, <4>2, <4>3
    <3>2. IsFiniteSet(bajo(v))
      BY FS_Subset
    <3>3. Cardinality(bajo(v)) = Cardinality(bajo(u)) => bajo(v) = bajo(u)
      <4> HIDE DEF bajo
      <4> QED BY <3>1, <3>2, FS_Subset
    <3> QED BY <3>1, <3>3
  <2> QED BY <1>5, <2>1
<1>6. ASSUME NEW k \in 1..Cardinality(S), c = k - 1 PROVE x = Enesimo(S, k)
  <2>1. /\ Enesimo(S, k) \in S
        /\ Cardinality({m \in S : m < Enesimo(S, k)}) = k - 1
    BY EnesimoEsta
  <2>2. Enesimo(S, k) = x \/ Enesimo(S, k) < x \/ x < Enesimo(S, k)
    <3>1. Enesimo(S, k) \in Nat /\ x \in Nat
      BY <2>1
    <3> QED BY <3>1
  <2> QED BY <1>5, <1>6, <2>1, <2>2
<1> QED BY <1>4, <1>6

(* The elements come in order.                                                 *)
LEMMA EnesimoCrece ==
  ASSUME NEW S, S \subseteq Nat, IsFiniteSet(S),
         NEW k \in 1..Cardinality(S), NEW l \in 1..Cardinality(S), k < l
  PROVE  Enesimo(S, k) < Enesimo(S, l)
<1> DEFINE x == Enesimo(S, k)
           y == Enesimo(S, l)
<1>1. /\ x \in S /\ Cardinality({m \in S : m < x}) = k - 1
      /\ y \in S /\ Cardinality({m \in S : m < y}) = l - 1
  BY EnesimoEsta
<1> HIDE DEF x, y
<1>2. Cardinality(S) \in Nat
  BY FS_CardinalityType
<1>3. CASE ~(x < y)
  <2>1. {m \in S : m < y} \subseteq {m \in S : m < x}
    <3>1. \A m \in S : m < y => m < x
      BY <1>1, <1>3
    <3> QED BY <3>1
  <2>2. IsFiniteSet({m \in S : m < x})
    BY FS_Subset
  <2>3. Cardinality({m \in S : m < y}) <= Cardinality({m \in S : m < x})
    BY <2>1, <2>2, FS_Subset
  <2>4. l - 1 <= k - 1
    BY <1>1, <2>3
  <2> QED BY <1>2, <2>4
<1> QED BY <1>3 DEF x, y
----------------------------------------------------------------------------
\* A sequence of scored lines in the order of the text, one for each of S.
ListaDe(s, S) ==
  /\ \A i \in DOMAIN s : s[i].puntuacion \in Nat /\ s[i].linea \in S
  /\ \A i, j \in DOMAIN s : i < j => s[i].linea < s[j].linea
  /\ \A n \in S : \E i \in DOMAIN s : s[i].linea = n

\* pi[k] is the place that the k-th of the sorted list had before.
Reordena(pi, s) ==
  /\ pi \in [DOMAIN s -> DOMAIN s]
  /\ \A j, k \in DOMAIN s : pi[j] = pi[k] => j = k
  /\ \A k \in DOMAIN s : Ordenadas(s)[k] = s[pi[k]]
  /\ \A k, i \in DOMAIN s : i \in Delante(s, pi[k]) => \E j \in DOMAIN s : j < k /\ pi[j] = i

(* list.sort loses and repeats nothing, and puts everything that goes before  *)
(* a position in front of it.                                                 *)
LEMMA OrdenadasReordena ==
  ASSUME NEW V, NEW s \in Seq(V), \A i \in DOMAIN s : s[i].puntuacion \in Nat
  PROVE  \E pi : Reordena(pi, s)
<1> DEFINE D == 1..Len(s)
           A == [i \in D |-> Delante(s, i)]
<1>1. Len(s) \in Nat /\ DOMAIN s = D
  BY LenProperties
<1>2. IsFiniteSet(D) /\ Cardinality(D) = Len(s)
  <2>1. IsFiniteSet(1..Len(s)) /\ Cardinality(1..Len(s)) = IF 1 > Len(s) THEN 0 ELSE Len(s) - 1 + 1
    BY <1>1, FS_Interval
  <2> QED BY <1>1, <2>1
<1>3. EnFila(D, A)
  <2>1. A \in [D -> SUBSET D]
    BY <1>1 DEF Delante
  <2>2. ASSUME NEW x \in D PROVE x \notin A[x]
    <3>1. s[x].puntuacion \in Nat /\ x \in Nat
      BY <1>1
    <3> QED BY <3>1 DEF Delante
  <2>3. ASSUME NEW x \in D, NEW y \in D, x # y
        PROVE  \/ x \in A[y] /\ A[x] \subseteq A[y]
               \/ y \in A[x] /\ A[y] \subseteq A[x]
    <3>1. \A z \in D : s[z].puntuacion \in Nat /\ z \in Nat
      BY <1>1
    <3>2. \A u, v, z \in D : u \in A[v] /\ z \in A[u] => z \in A[v]
      BY <1>1, <3>1 DEF Delante
    <3>3. x \in A[y] \/ y \in A[x]
      BY <1>1, <2>3, <3>1 DEF Delante
    <3>4. A[x] \subseteq D /\ A[y] \subseteq D
      BY <2>1
    <3> HIDE DEF A, D
    <3> QED BY <3>2, <3>3, <3>4
  <2> HIDE DEF A, D
  <2> QED BY <2>1, <2>2, <2>3, Zenon DEF EnFila
<1>4. /\ \A x \in D : Cardinality(A[x]) \in 0..(Cardinality(D) - 1)
      /\ \A x, y \in D : Cardinality(A[x]) = Cardinality(A[y]) => x = y
      /\ \A k : k \in 0..(Cardinality(D) - 1) => \E x : x \in D /\ Cardinality(A[x]) = k
  <2> HIDE DEF A, D
  <2> QED BY <1>2, <1>3, UnoPorRango
<1> DEFINE p == [k \in D |-> CHOOSE i \in D : Cardinality(Delante(s, i)) = k - 1]
<1>5. ASSUME NEW k \in D PROVE p[k] \in D /\ Cardinality(A[p[k]]) = k - 1
  <2>1. k - 1 \in 0..(Cardinality(D) - 1)
    BY <1>1, <1>2
  <2>2. \E x \in D : Cardinality(Delante(s, x)) = k - 1
    BY <1>4, <2>1
  <2> QED BY <2>2
<1>6. p \in [D -> D]
  BY <1>5
<1>7. ASSUME NEW k \in D PROVE Ordenadas(s)[k] = s[p[k]]
  BY <1>1, <1>5 DEF Ordenadas
<1>8. ASSUME NEW j \in D, NEW k \in D, p[j] = p[k] PROVE j = k
  <2>1. \A l \in D : Cardinality(A[p[l]]) = l - 1 /\ l \in Nat
    <3>1. \A l \in D : l \in Nat
      OBVIOUS
    <3> QED BY <1>5, <3>1
  <2> HIDE DEF p, A, D
  <2>2. j - 1 = k - 1 /\ j \in Nat /\ k \in Nat
    BY <1>8, <2>1
  <2> QED BY <2>2
<1>9. ASSUME NEW k \in D, NEW i \in D, i \in Delante(s, p[k])
      PROVE  \E j \in D : j < k /\ p[j] = i
  <2> DEFINE c == Cardinality(A[i])
  <2>1. i \in A[p[k]]
    BY <1>5, <1>9
  <2>2. A[i] \subseteq A[p[k]] /\ i \notin A[i]
    <3> HIDE DEF A, D
    <3> QED BY <1>3, <1>5, <2>1 DEF EnFila
  <2>3. IsFiniteSet(A[p[k]])
    <3>1. \A x \in D : A[x] \subseteq D
      BY <1>1 DEF Delante
    <3> HIDE DEF A, D
    <3>2. A[p[k]] \subseteq D
      BY <1>5, <3>1
    <3> QED BY <1>2, <3>2, FS_Subset
  <2>4. c <= k - 1 /\ c # k - 1
    <3> HIDE DEF A, D, p
    <3>1. /\ Cardinality(A[i]) <= Cardinality(A[p[k]])
          /\ Cardinality(A[p[k]]) = Cardinality(A[i]) => A[p[k]] = A[i]
      BY <2>2, <2>3, FS_Subset
    <3> QED BY <1>5, <2>1, <2>2, <3>1
  <2>5. c \in 0..(Len(s) - 1)
    BY <1>2, <1>4
  <2>6. c + 1 \in D /\ c + 1 < k /\ (c + 1) - 1 = c
    BY <1>1, <2>4, <2>5
  <2>7. Cardinality(A[p[c + 1]]) = Cardinality(A[i]) /\ p[c + 1] \in D
    <3>1. \A l \in D : p[l] \in D /\ Cardinality(A[p[l]]) = l - 1
      BY <1>5
    <3> HIDE DEF p, D, A
    <3> QED BY <2>6, <3>1
  <2>8. p[c + 1] = i
    <3> HIDE DEF p, D, A
    <3> QED BY <1>4, <2>7
  <2> HIDE DEF c, p, D
  <2> QED BY <2>6, <2>8
<1> HIDE DEF p, D
<1>10. Reordena(p, s)
  BY <1>1, <1>6, <1>7, <1>8, <1>9 DEF Reordena
<1> QED BY <1>10

\* How many of a list of n are shown.
Visibles(n) == IF n < 5 THEN n ELSE 5

(* The cut keeps the first of the sorted list, at most five.                  *)
LEMMA MejoresSon ==
  ASSUME NEW V, NEW s \in Seq(V), NEW pi, Reordena(pi, s)
  PROVE  /\ Visibles(Len(s)) \in Nat /\ Visibles(Len(s)) <= Len(s)
         /\ DOMAIN Mejores(s) = 1..Visibles(Len(s))
         /\ Len(Mejores(s)) = Visibles(Len(s))
         /\ \A k \in 1..Visibles(Len(s)) : k \in DOMAIN s /\ Mejores(s)[k] = s[pi[k]]
<1> DEFINE o == Ordenadas(s)
           v == Visibles(Len(s))
<1>1. Len(s) \in Nat /\ DOMAIN s = 1..Len(s) /\ \A i \in DOMAIN s : s[i] \in V
  BY LenProperties, ElementOfSeq
<1>2. v \in Nat /\ v <= Len(s) /\ 1..v \subseteq DOMAIN s
  BY <1>1 DEF Visibles
<1>3. \A k \in DOMAIN s : o[k] = s[pi[k]] /\ pi[k] \in DOMAIN s
  BY DEF Reordena
<1>4. o \in Seq(V)
  <2>1. DOMAIN o = 1..Len(s) /\ o = [k \in 1..Len(s) |-> o[k]]
    BY <1>1 DEF Ordenadas
  <2>2. \A k \in 1..Len(s) : o[k] \in V
    BY <1>1, <1>3
  <2>3. o \in [1..Len(s) -> V]
    <3> HIDE DEF o
    <3> QED BY <2>1, <2>2
  <2> QED BY <1>1, <2>3, SeqDef
<1>5. Len(o) = Len(s)
  <2>1. o = [k \in 1..Len(s) |-> o[k]]
    BY <1>1 DEF Ordenadas
  <2> HIDE DEF o
  <2> QED BY <1>1, <2>1
<1>6. Mejores(s) = SubSeq(o, 1, v)
  BY <1>5 DEF Mejores, Primeras, Visibles
<1> HIDE DEF o, v
<1>7. \A i \in 1..v : o[i] \in V
  BY <1>1, <1>2, <1>3
<1>8. /\ SubSeq(o, 1, v) \in Seq(V)
      /\ Len(SubSeq(o, 1, v)) = IF 1 <= v THEN v - 1 + 1 ELSE 0
      /\ \A i \in 1..(v - 1 + 1) : SubSeq(o, 1, v)[i] = o[1 + i - 1]
  BY <1>2, <1>7, SubSeqProperties
<1>9. Len(Mejores(s)) = v
  BY <1>2, <1>6, <1>8
<1>10. DOMAIN Mejores(s) = 1..v
  BY <1>6, <1>8, <1>9, LenProperties
<1>11. ASSUME NEW k \in 1..v PROVE k \in DOMAIN s /\ Mejores(s)[k] = s[pi[k]]
  <2>1. k \in 1..(v - 1 + 1) /\ 1 + k - 1 = k
    BY <1>2
  <2>2. Mejores(s)[k] = o[k]
    BY <1>6, <1>8, <2>1
  <2> QED BY <1>2, <1>3, <2>2
<1> QED BY <1>2, <1>9, <1>10, <1>11 DEF v

(* Of a list that has one position for each line of S, as many are shown as    *)
(* S has, up to five, each another line of S.                                 *)
LEMMA CuantasSeVen ==
  ASSUME NEW S, S \subseteq Nat, IsFiniteSet(S), NEW V, NEW s \in Seq(V), ListaDe(s, S)
  PROVE  /\ {Mejores(s)[k].linea : k \in DOMAIN Mejores(s)} \subseteq S
         /\ Cardinality({Mejores(s)[k].linea : k \in DOMAIN Mejores(s)}) = Len(Mejores(s))
         /\ Len(Mejores(s)) = Visibles(Cardinality(S))
<1> DEFINE m == Mejores(s)
           v == Visibles(Len(s))
<1>1. PICK pi : Reordena(pi, s)
  BY OrdenadasReordena DEF ListaDe
<1>2. /\ v \in Nat /\ v <= Len(s)
      /\ DOMAIN m = 1..v /\ Len(m) = v
      /\ \A k \in 1..v : k \in DOMAIN s /\ m[k] = s[pi[k]]
  BY <1>1, MejoresSon
<1>3. Len(s) \in Nat /\ DOMAIN s = 1..Len(s)
  BY LenProperties
<1> DEFINE T == {m[k].linea : k \in 1..v}
<1> HIDE DEF m, v
<1>4. \A k \in 1..v : pi[k] \in DOMAIN s /\ m[k].linea = s[pi[k]].linea /\ m[k].linea \in S
  <2>1. \A k \in 1..v : pi[k] \in DOMAIN s
    BY <1>1, <1>2 DEF Reordena
  <2> QED BY <1>2, <2>1 DEF ListaDe
<1>5. \A j, k \in 1..v : m[j].linea = m[k].linea => j = k
  <2> SUFFICES ASSUME NEW j \in 1..v, NEW k \in 1..v, m[j].linea = m[k].linea PROVE j = k
    OBVIOUS
  <2>1. pi[j] \in DOMAIN s /\ pi[k] \in DOMAIN s /\ s[pi[j]].linea = s[pi[k]].linea
    BY <1>4
  <2>2. pi[j] = pi[k]
    <3>1. \A a, b \in DOMAIN s : a < b => s[a].linea < s[b].linea
      BY DEF ListaDe
    <3>2. \A a \in DOMAIN s : s[a].linea \in Nat /\ a \in Nat
      <4>1. \A a \in DOMAIN s : s[a].linea \in S
        BY DEF ListaDe
      <4>2. \A a \in DOMAIN s : s[a].linea \in Nat
        BY <4>1
      <4>3. \A a \in DOMAIN s : a \in Nat
        BY <1>3
      <4> QED BY <4>2, <4>3
    <3>3. ~(pi[j] < pi[k]) /\ ~(pi[k] < pi[j])
      BY <2>1, <3>1, <3>2
    <3> QED BY <2>1, <3>2, <3>3
  <2> QED BY <1>1, <1>2, <2>2 DEF Reordena
<1>6. Cardinality(T) = v
  <2> DEFINE f == [k \in 1..v |-> m[k].linea]
  <2>1. f \in Surjection(1..v, T)
    <3>1. f \in [1..v -> T] /\ \A t \in T : \E k \in 1..v : f[k] = t
      OBVIOUS
    <3> HIDE DEF f, T
    <3> QED BY <3>1, Fun_IsSurj
  <2>2. f \in Injection(1..v, T)
    <3>1. f \in [1..v -> T] /\ \A j, k \in 1..v : f[j] = f[k] => j = k
      BY <1>5
    <3> HIDE DEF f, T
    <3> QED BY <3>1, Fun_IsInj
  <2>3. IsFiniteSet(1..v) /\ Cardinality(1..v) = v
    <3>1. IsFiniteSet(1..v) /\ Cardinality(1..v) = IF 1 > v THEN 0 ELSE v - 1 + 1
      BY <1>2, FS_Interval
    <3> QED BY <1>2, <3>1
  <2> HIDE DEF f, T
  <2>4. ExistsBijection(1..v, T)
    BY <2>1, <2>2 DEF Bijection, ExistsBijection
  <2> QED BY <2>3, <2>4, FS_Bijection
<1>7. Cardinality(S) = Len(s)
  <2> DEFINE f == [i \in 1..Len(s) |-> s[i].linea]
  <2>1. f \in Surjection(1..Len(s), S)
    <3>1. f \in [1..Len(s) -> S]
      BY <1>3 DEF ListaDe
    <3>2. ASSUME NEW t \in S PROVE \E k \in 1..Len(s) : f[k] = t
      BY <1>3 DEF ListaDe
    <3> HIDE DEF f
    <3> QED BY <3>1, <3>2, Fun_IsSurj
  <2>2. f \in Injection(1..Len(s), S)
    <3>1. f \in [1..Len(s) -> S]
      BY <1>3 DEF ListaDe
    <3>2. ASSUME NEW j \in 1..Len(s), NEW k \in 1..Len(s), f[j] = f[k] PROVE j = k
      <4>1. \A a, b \in 1..Len(s) : a < b => s[a].linea < s[b].linea
        BY <1>3 DEF ListaDe
      <4>2. s[j].linea = s[k].linea /\ s[j].linea \in Nat
        BY <1>3, <3>2 DEF ListaDe
      <4>3. ~(j < k) /\ ~(k < j) /\ j \in Nat /\ k \in Nat
        BY <4>1, <4>2
      <4> QED BY <4>3
    <3> HIDE DEF f
    <3> QED BY <3>1, <3>2, Fun_IsInj
  <2>3. IsFiniteSet(1..Len(s)) /\ Cardinality(1..Len(s)) = Len(s)
    <3>1. IsFiniteSet(1..Len(s)) /\ Cardinality(1..Len(s)) = IF 1 > Len(s) THEN 0 ELSE Len(s) - 1 + 1
      BY <1>3, FS_Interval
    <3> QED BY <1>3, <3>1
  <2> HIDE DEF f
  <2>4. ExistsBijection(1..Len(s), S)
    BY <2>1, <2>2 DEF Bijection, ExistsBijection
  <2> QED BY <2>3, <2>4, FS_Bijection
<1>8. {m[k].linea : k \in DOMAIN m} = T
  BY <1>2
<1>9. T \subseteq S
  BY <1>4
<1> HIDE DEF T
<1> QED BY <1>2, <1>6, <1>7, <1>8, <1>9 DEF m, v

----------------------------------------------------------------------------
Pedidas == ConAsiento("pedido")

\* The lines with a reason from this one on, before the next position.
Suyas(n) == {m \in DOMAIN lineas : /\ m >= n /\ lineas[m].razon # Nada
                                   /\ ~\E q \in Pedidas : n < q /\ q <= m}

SuRazon(p) ==
  \/ Suyas(p.linea) = {} /\ p.razon = ""
  \/ \E m \in Suyas(p.linea) : /\ \A q \in Suyas(p.linea) : q <= m
                               /\ p.razon = lineas[m].razon

TipoDeLectura ==
  /\ lineas \in Seq(Lineas) /\ posiciones \in Seq(Posicion)
  /\ posicion_actual \in Posicion \cup {Nada}

\* What is kept after any line: a position for each line asked for, in the
\* order of the text, with its own score and reason.
LecturaFiel ==
  /\ posicion_actual = Nada => posiciones = <<>>
  /\ ListaDe(Guardadas, Pedidas)
  /\ \A k \in DOMAIN Guardadas :
       Guardadas[k].puntuacion = lineas[Guardadas[k].linea].puntos /\ SuRazon(Guardadas[k])

RespuestaFiel ==
  respuesta # Nada =>
    \/ Guardadas # <<>> /\ respuesta = Mejores(Guardadas)
    \/ /\ Guardadas = <<>>
       /\ \E antes, despues \in 0..MaxAlcance : respuesta = Mejores(Flexible(antes, despues))

SugerenciasInv == TipoDeLectura /\ LecturaFiel /\ RespuestaFiel

Con(l, pos) == IF l.razon # Nada /\ pos # Nada THEN [pos EXCEPT !.razon = l.razon] ELSE pos

Abierta(l, n) == [linea |-> n, puntuacion |-> l.puntos, razon |-> ""]

(* What is known of every line an answer may have.                            *)
LEMMA UnaLinea ==
  ASSUME NEW l \in Lineas
  PROVE  /\ l.razon \in Razon \cup {Nada} /\ l.puntos \in Nat \cup {Nada}
         /\ l.asiento = "pedido" => l.puntos \in Nat
         /\ Nada \notin Posicion
BY SugerenciasAssumption DEF Linea

(* Another line is the last one, and the others stay.                         *)
LEMMA LineaAgregada ==
  ASSUME TipoDeLectura, NEW l \in Lineas, lineas' = Append(lineas, l)
  PROVE  /\ Len(lineas) \in Nat /\ DOMAIN lineas = 1..Len(lineas)
         /\ lineas' \in Seq(Lineas) /\ Len(lineas') = Len(lineas) + 1
         /\ DOMAIN lineas' = 1..(Len(lineas) + 1)
         /\ lineas'[Len(lineas) + 1] = l
         /\ \A i \in 1..Len(lineas) : lineas'[i] = lineas[i]
BY DEF TipoDeLectura

LEMMA GuardadasTipo ==
  ASSUME TipoDeLectura
  PROVE  Guardadas \in Seq(Posicion)
BY DEF TipoDeLectura, Guardadas

(* A line with a position closes the one before and opens its own.            *)
LEMMA LeerPedido ==
  ASSUME TipoDeLectura, LecturaFiel, NEW l \in Lineas, l.asiento = "pedido",
         lineas' = Append(lineas, l), posiciones' = Guardadas,
         posicion_actual' = Con(l, Abierta(l, Len(lineas')))
  PROVE  TipoDeLectura' /\ LecturaFiel'
<1>n. PICK N : N = Len(lineas)
  OBVIOUS
<1>r. PICK r : r = IF l.razon # Nada THEN l.razon ELSE ""
  OBVIOUS
<1>1. /\ N \in Nat /\ DOMAIN lineas = 1..N
      /\ lineas' \in Seq(Lineas) /\ Len(lineas') = N + 1 /\ DOMAIN lineas' = 1..(N + 1)
      /\ lineas'[N + 1] = l /\ \A i \in 1..N : lineas'[i] = lineas[i]
  BY <1>n, LineaAgregada
<1>2. /\ l.razon \in Razon \cup {Nada} /\ l.puntos \in Nat /\ Nada \notin Posicion
  BY UnaLinea
<1>3. PICK G : G = Guardadas
  OBVIOUS
<1>4. G \in Seq(Posicion)
  BY <1>3, GuardadasTipo
<1>5. PICK p : p = posicion_actual'
  OBVIOUS
<1>6. /\ p \in Posicion /\ p # Nada
      /\ p.linea = N + 1 /\ p.puntuacion = l.puntos /\ p.razon = r
  <2>1. PICK n, u : n = N + 1 /\ u = l.puntos
    OBVIOUS
  <2>2. n \in Nat /\ u \in Nat /\ r \in Razon \cup {""}
    <3>1. n \in Nat
      BY <1>1, <2>1
    <3>2. r \in Razon \cup {""}
      BY <1>2, <1>r, Zenon
    <3> QED BY <1>2, <2>1, <3>1, <3>2
  <2>3. PICK q : q = [linea |-> n, puntuacion |-> u, razon |-> ""]
    OBVIOUS
  <2>4. q \in Posicion
    BY <2>2, <2>3 DEF Posicion
  <2>5. Abierta(l, Len(lineas')) = q
    BY <1>1, <2>1, <2>3 DEF Abierta
  <2>6. p = [linea |-> n, puntuacion |-> u, razon |-> r]
    <3>1. p = IF l.razon # Nada THEN [q EXCEPT !.razon = l.razon] ELSE q
      BY <1>2, <1>5, <2>4, <2>5 DEF Con
    <3>2. CASE l.razon # Nada
      <4>1. r = l.razon /\ p = [q EXCEPT !.razon = r]
        BY <1>r, <3>1, <3>2
      <4> QED BY <2>3, <4>1
    <3>3. CASE l.razon = Nada
      <4>1. r = "" /\ p = q
        BY <1>r, <3>1, <3>3
      <4> QED BY <2>3, <4>1
    <3> QED BY <3>2, <3>3
  <2>7. p \in Posicion
    BY <2>2, <2>6 DEF Posicion
  <2> QED BY <1>2, <2>1, <2>6, <2>7
<1>7. Guardadas' = Append(G, p)
  BY <1>3, <1>5, <1>6 DEF Guardadas
<1>8. TipoDeLectura'
  BY <1>1, <1>3, <1>4, <1>5, <1>6 DEF TipoDeLectura
<1>9. /\ Len(G) \in Nat /\ DOMAIN G = 1..Len(G)
      /\ DOMAIN Append(G, p) = 1..(Len(G) + 1)
      /\ Append(G, p)[Len(G) + 1] = p
      /\ \A k \in 1..Len(G) : Append(G, p)[k] = G[k]
  BY <1>4, <1>6
<1>10. /\ \A n \in Pedidas' : n \in Pedidas \/ n = N + 1
       /\ \A n \in Pedidas : n \in Pedidas' /\ n \in 1..N
       /\ N + 1 \in Pedidas'
  BY <1>1 DEF Pedidas, ConAsiento
<1>11. /\ \A k \in 1..Len(G) : G[k].puntuacion \in Nat /\ G[k].linea \in Pedidas
       /\ \A j, k \in 1..Len(G) : j < k => G[j].linea < G[k].linea
       /\ \A n \in Pedidas : \E k \in 1..Len(G) : G[k].linea = n
       /\ \A k \in 1..Len(G) : G[k].puntuacion = lineas[G[k].linea].puntos /\ SuRazon(G[k])
  BY <1>3, <1>9 DEF LecturaFiel, ListaDe
<1>12. ASSUME NEW n \in 1..N PROVE Suyas(n)' = Suyas(n)
  <2>1. ASSUME NEW m \in Suyas(n)' PROVE m \in Suyas(n)
    <3>1. m # N + 1
      BY <1>1, <1>10, <2>1 DEF Suyas
    <3> QED BY <1>1, <1>10, <2>1, <3>1 DEF Suyas
  <2>2. ASSUME NEW m \in Suyas(n) PROVE m \in Suyas(n)'
    <3>1. m \in 1..N /\ m # N + 1 /\ ~(N + 1 <= m)
      BY <1>1, <2>2 DEF Suyas
    <3> QED BY <1>1, <1>10, <2>2, <3>1 DEF Suyas
  <2> QED BY <2>1, <2>2
<1>13. Suyas(N + 1)' = IF l.razon # Nada THEN {N + 1} ELSE {}
  <2>1. ASSUME NEW m \in Suyas(N + 1)' PROVE m = N + 1 /\ l.razon # Nada
    BY <1>1, <2>1 DEF Suyas
  <2>2. ASSUME l.razon # Nada PROVE N + 1 \in Suyas(N + 1)'
    <3>1. PICK n : n = N + 1
      OBVIOUS
    <3>2. n \in DOMAIN lineas' /\ n >= n /\ lineas'[n].razon # Nada
      BY <1>1, <2>2, <3>1
    <3>3. ~\E q \in Pedidas' : n < q /\ q <= n
      BY <1>1, <1>10, <3>1
    <3>4. n \in Suyas(n)'
      BY <3>2, <3>3 DEF Suyas
    <3> QED BY <3>1, <3>4
  <2> QED BY <2>1, <2>2
<1>14. ASSUME NEW k \in 1..Len(G)
       PROVE  G[k].puntuacion = lineas'[G[k].linea].puntos /\ SuRazon(G[k])'
  <2>1. PICK n : n = G[k].linea
    OBVIOUS
  <2>2. n \in 1..N
    BY <1>10, <1>11, <2>1
  <2>3. PICK S : S = Suyas(n)
    OBVIOUS
  <2>4. Suyas(n)' = S /\ lineas'[n] = lineas[n]
    BY <1>1, <1>12, <2>2, <2>3
  <2>5. \A m \in S : lineas'[m] = lineas[m]
    BY <1>1, <2>3 DEF Suyas
  <2>6. \/ S = {} /\ G[k].razon = ""
        \/ \E m \in S : (\A q \in S : q <= m) /\ G[k].razon = lineas[m].razon
    BY <1>11, <2>1, <2>3 DEF SuRazon
  <2>7. \/ S = {} /\ G[k].razon = ""
        \/ \E m \in S : (\A q \in S : q <= m) /\ G[k].razon = lineas'[m].razon
    BY <2>5, <2>6
  <2> QED BY <1>11, <2>1, <2>4, <2>7 DEF SuRazon
<1>15. p.puntuacion = lineas'[p.linea].puntos /\ SuRazon(p)'
  <2>1. p.linea = N + 1 /\ p.razon = r /\ p.puntuacion = l.puntos
    BY <1>6
  <2>4. PICK n : n = N + 1
    OBVIOUS
  <2>5. p.linea = n
    BY <2>1, <2>4
  <2>6. p.puntuacion = lineas'[p.linea].puntos
    BY <1>1, <2>1
  <2>2. CASE l.razon # Nada
    <3>1. Suyas(n)' = {n} /\ p.razon = lineas'[n].razon /\ n <= n
      BY <1>1, <1>r, <1>13, <2>1, <2>2, <2>4
    <3> QED BY <2>5, <2>6, <3>1 DEF SuRazon
  <2>3. CASE l.razon = Nada
    <3>1. Suyas(n)' = {} /\ p.razon = ""
      BY <1>r, <1>13, <2>1, <2>3, <2>4
    <3> QED BY <2>5, <2>6, <3>1 DEF SuRazon
  <2> QED BY <2>2, <2>3
<1>16. PICK H : H = Append(G, p)
  OBVIOUS
<1>17. \A k \in DOMAIN H : \/ k \in 1..Len(G) /\ H[k] = G[k]
                           \/ k = Len(G) + 1 /\ H[k] = p
  BY <1>9, <1>16
<1>18. ListaDe(H, Pedidas')
  <2>1. ASSUME NEW k \in DOMAIN H PROVE H[k].puntuacion \in Nat /\ H[k].linea \in Pedidas'
    BY <1>2, <1>6, <1>10, <1>11, <1>17
  <2>2. ASSUME NEW j \in DOMAIN H, NEW k \in DOMAIN H, j < k PROVE H[j].linea < H[k].linea
    <3>1. j \in 1..Len(G) /\ H[j] = G[j] /\ G[j].linea \in 1..N
      BY <1>9, <1>10, <1>11, <1>16, <1>17, <2>2
    <3>2. CASE k \in 1..Len(G)
      BY <1>9, <1>11, <1>17, <2>2, <3>1, <3>2
    <3>3. CASE k = Len(G) + 1
      BY <1>1, <1>6, <1>9, <1>17, <3>1, <3>3
    <3> QED BY <1>17, <3>2, <3>3
  <2>3. ASSUME NEW n \in Pedidas' PROVE \E k \in DOMAIN H : H[k].linea = n
    <3>1. \A k \in 1..Len(G) : k \in DOMAIN H /\ H[k] = G[k]
      BY <1>9, <1>16
    <3>2. Len(G) + 1 \in DOMAIN H /\ H[Len(G) + 1].linea = N + 1
      BY <1>6, <1>9, <1>16
    <3>3. CASE n \in Pedidas
      BY <1>11, <3>1, <3>3
    <3>4. CASE n = N + 1
      BY <3>2, <3>4
    <3> QED BY <1>10, <2>3, <3>3, <3>4
  <2> QED BY <2>1, <2>2, <2>3 DEF ListaDe
<1>19. \A k \in DOMAIN H : H[k].puntuacion = lineas'[H[k].linea].puntos /\ SuRazon(H[k])'
  BY <1>14, <1>15, <1>17
<1>20. LecturaFiel'
  <2>1. Guardadas' = H
    BY <1>7, <1>16
  <2>2. posicion_actual' # Nada
    BY <1>2, <1>5, <1>6
  <2> QED BY <1>18, <1>19, <2>1, <2>2 DEF LecturaFiel
<1> QED BY <1>8, <1>20

(* Any other line can only give the open position its reason.                 *)
LEMMA LeerOtra ==
  ASSUME TipoDeLectura, LecturaFiel, NEW l \in Lineas, l.asiento # "pedido",
         lineas' = Append(lineas, l), posiciones' = posiciones,
         posicion_actual' = Con(l, posicion_actual)
  PROVE  TipoDeLectura' /\ LecturaFiel'
<1>n. PICK N : N = Len(lineas)
  OBVIOUS
<1>1. /\ N \in Nat /\ DOMAIN lineas = 1..N
      /\ lineas' \in Seq(Lineas) /\ Len(lineas') = N + 1 /\ DOMAIN lineas' = 1..(N + 1)
      /\ lineas'[N + 1] = l /\ \A i \in 1..N : lineas'[i] = lineas[i]
  BY <1>n, LineaAgregada
<1>2. /\ l.razon \in Razon \cup {Nada} /\ Nada \notin Posicion
  BY UnaLinea
<1>3. Pedidas' = Pedidas /\ \A n \in Pedidas : n \in 1..N
  BY <1>1 DEF Pedidas, ConAsiento
<1>4. CASE posicion_actual = Nada
  <2>1. posicion_actual' = Nada
    BY <1>4 DEF Con
  <2>2. posiciones' = <<>> /\ posiciones = <<>>
    BY <1>4 DEF LecturaFiel
  <2>3. Guardadas' = <<>> /\ Guardadas = <<>>
    BY <1>4, <2>1, <2>2 DEF Guardadas
  <2>4. TipoDeLectura'
    BY <1>1, <2>1 DEF TipoDeLectura
  <2>5. ListaDe(<<>>, Pedidas)
    BY <2>3 DEF LecturaFiel
  <2>6. ListaDe(Guardadas', Pedidas')
    BY <1>3, <2>3, <2>5
  <2>7. DOMAIN Guardadas' = {}
    BY <2>3
  <2> QED BY <2>2, <2>4, <2>6, <2>7 DEF LecturaFiel
<1>5. CASE posicion_actual # Nada
  <2>1. PICK B, a : B = posiciones /\ a = posicion_actual
    OBVIOUS
  <2>2. PICK p : p = posicion_actual'
    OBVIOUS
  <2>3. B \in Seq(Posicion) /\ a \in Posicion
    BY <1>5, <2>1 DEF TipoDeLectura
  <2>4. /\ p \in Posicion /\ p # Nada
        /\ p.linea = a.linea /\ p.puntuacion = a.puntuacion
        /\ p.razon = IF l.razon # Nada THEN l.razon ELSE a.razon
    <3>1. p = IF l.razon # Nada THEN [a EXCEPT !.razon = l.razon] ELSE a
      BY <1>5, <2>1, <2>2 DEF Con
    <3> QED BY <1>2, <2>3, <3>1 DEF Posicion
  <2>5. Guardadas = Append(B, a) /\ Guardadas' = Append(B, p) /\ posiciones' = B
    BY <1>5, <2>1, <2>2, <2>4 DEF Guardadas
  <2>6. TipoDeLectura'
    BY <1>1, <2>2, <2>3, <2>4, <2>5 DEF TipoDeLectura
  <2>7. PICK b : b = Len(B)
    OBVIOUS
  <2>8. PICK G, H : G = Append(B, a) /\ H = Append(B, p)
    OBVIOUS
  <2>9. /\ b \in Nat /\ DOMAIN G = 1..(b + 1) /\ DOMAIN H = 1..(b + 1)
        /\ G[b + 1] = a /\ H[b + 1] = p
        /\ \A k \in 1..b : G[k] = B[k] /\ H[k] = B[k]
    BY <2>3, <2>4, <2>7, <2>8
  <2>10. /\ \A k \in 1..(b + 1) : G[k].puntuacion \in Nat /\ G[k].linea \in Pedidas
         /\ \A j, k \in 1..(b + 1) : j < k => G[j].linea < G[k].linea
         /\ \A n \in Pedidas : \E k \in 1..(b + 1) : G[k].linea = n
         /\ \A k \in 1..(b + 1) : G[k].puntuacion = lineas[G[k].linea].puntos /\ SuRazon(G[k])
    BY <2>5, <2>8, <2>9 DEF LecturaFiel, ListaDe
  <2>11. \A k \in 1..(b + 1) : H[k].linea = G[k].linea /\ H[k].puntuacion = G[k].puntuacion
    BY <2>4, <2>9
  <2>12. a.linea \in Pedidas /\ a.linea \in 1..N /\ \A q \in Pedidas : ~(a.linea < q)
    <3>1. b + 1 \in 1..(b + 1)
      BY <2>9
    <3>2. a.linea \in Pedidas /\ a.linea \in 1..N
      BY <1>3, <2>9, <2>10, <3>1
    <3>3. ASSUME NEW q \in Pedidas PROVE ~(a.linea < q)
      <4>1. PICK k \in 1..(b + 1) : G[k].linea = q
        BY <2>10
      <4>2. CASE k = b + 1
        BY <1>1, <2>9, <3>2, <4>1, <4>2
      <4>3. CASE k < b + 1
        <5>1. G[k].linea < G[b + 1].linea /\ q \in 1..N
          BY <1>3, <2>10, <3>1, <4>3
        <5> QED BY <1>1, <2>9, <3>2, <4>1, <5>1
      <4> QED BY <2>9, <4>2, <4>3
    <3> QED BY <3>2, <3>3
  <2>13. ASSUME NEW k \in 1..b PROVE Suyas(G[k].linea)' = Suyas(G[k].linea)
    <3>1. PICK n : n = G[k].linea
      OBVIOUS
    <3>2. n \in 1..N /\ n < a.linea
      <4>1. k \in 1..(b + 1) /\ b + 1 \in 1..(b + 1) /\ k < b + 1
        BY <2>9
      <4> QED BY <1>3, <2>9, <2>10, <3>1, <4>1
    <3>3. ~(\A q \in Pedidas : ~(n < q /\ q <= N + 1))
      BY <1>1, <2>12, <3>2
    <3>4. \A m \in 1..(N + 1) : m = N + 1 \/ m \in 1..N
      BY <1>1
    <3>5. ASSUME NEW m \in Suyas(n)' PROVE m \in Suyas(n)
      <4>1. m # N + 1
        BY <1>3, <3>3, <3>5 DEF Suyas
      <4> QED BY <1>1, <1>3, <3>4, <3>5, <4>1 DEF Suyas
    <3>6. ASSUME NEW m \in Suyas(n) PROVE m \in Suyas(n)'
      BY <1>1, <1>3, <3>6 DEF Suyas
    <3> QED BY <3>1, <3>5, <3>6
  <2>14. ASSUME NEW k \in 1..b PROVE SuRazon(H[k])'
    <3>1. PICK n : n = G[k].linea
      OBVIOUS
    <3>2. H[k] = G[k] /\ k \in 1..(b + 1)
      BY <2>9
    <3>3. PICK S : S = Suyas(n)
      OBVIOUS
    <3>4. Suyas(n)' = S
      BY <2>13, <3>1, <3>3
    <3>5. \A m \in S : lineas'[m] = lineas[m]
      BY <1>1, <3>3 DEF Suyas
    <3>6. \/ S = {} /\ G[k].razon = ""
          \/ \E m \in S : (\A q \in S : q <= m) /\ G[k].razon = lineas[m].razon
      BY <2>10, <3>1, <3>2, <3>3 DEF SuRazon
    <3>7. \/ S = {} /\ G[k].razon = ""
          \/ \E m \in S : (\A q \in S : q <= m) /\ G[k].razon = lineas'[m].razon
      BY <3>5, <3>6
    <3> QED BY <3>1, <3>2, <3>4, <3>7 DEF SuRazon
  <2>15. SuRazon(p)'
    <3>1. PICK n : n = a.linea
      OBVIOUS
    <3>2. PICK S : S = Suyas(n)
      OBVIOUS
    <3>3. /\ \A m \in S : m \in 1..N /\ lineas'[m] = lineas[m]
          /\ n \in 1..N
      BY <1>1, <2>12, <3>1, <3>2 DEF Suyas
    <3>4. \/ S = {} /\ a.razon = ""
          \/ \E m \in S : (\A q \in S : q <= m) /\ a.razon = lineas[m].razon
      <4>1. b + 1 \in 1..(b + 1)
        BY <2>9
      <4> QED BY <2>9, <2>10, <3>1, <3>2, <4>1 DEF SuRazon
    <3>5. \A m \in 1..N : m \in Suyas(n)' <=> m \in S
      BY <1>1, <1>3, <3>2 DEF Suyas
    <3>6. N + 1 \in Suyas(n)' <=> l.razon # Nada
      <4>1. N + 1 >= n /\ N + 1 \in 1..(N + 1)
        BY <1>1, <3>3
      <4>2. ~\E q \in Pedidas : n < q /\ q <= N + 1
        BY <2>12, <3>1
      <4> QED BY <1>1, <1>3, <4>1, <4>2 DEF Suyas
    <3>7. \A m \in Suyas(n)' : m \in 1..N \/ m = N + 1
      BY <1>1 DEF Suyas
    <3>8. CASE l.razon # Nada
      <4>1. N + 1 \in Suyas(n)' /\ (\A q \in Suyas(n)' : q <= N + 1) /\ p.razon = lineas'[N + 1].razon
        BY <1>1, <2>4, <3>6, <3>7, <3>8
      <4> QED BY <2>4, <3>1, <4>1 DEF SuRazon
    <3>9. CASE l.razon = Nada
      <4>1. Suyas(n)' = S
        BY <3>3, <3>5, <3>6, <3>7, <3>9
      <4>2. \/ S = {} /\ p.razon = ""
            \/ \E m \in S : (\A q \in S : q <= m) /\ p.razon = lineas'[m].razon
        BY <2>4, <3>3, <3>4, <3>9
      <4> QED BY <2>4, <3>1, <4>1, <4>2 DEF SuRazon
    <3> QED BY <3>8, <3>9
  <2>16. ListaDe(H, Pedidas')
    <3>1. \A k \in 1..(b + 1) : H[k].puntuacion \in Nat /\ H[k].linea \in Pedidas
      BY <2>10, <2>11
    <3>2. \A j, k \in 1..(b + 1) : j < k => H[j].linea < H[k].linea
      BY <2>10, <2>11
    <3>3. \A n \in Pedidas : \E k \in 1..(b + 1) : H[k].linea = n
      BY <2>10, <2>11
    <3>4. DOMAIN H = 1..(b + 1)
      BY <2>9
    <3>5. Pedidas' = Pedidas
      BY <1>3
    <3> QED BY <3>1, <3>2, <3>3, <3>4, <3>5 DEF ListaDe
  <2>17. ASSUME NEW k \in DOMAIN H
         PROVE  H[k].puntuacion = lineas'[H[k].linea].puntos /\ SuRazon(H[k])'
    <3>1. k \in 1..(b + 1)
      BY <2>9
    <3>2. H[k].linea = G[k].linea /\ H[k].puntuacion = lineas[G[k].linea].puntos /\ G[k].linea \in 1..N
      BY <1>3, <2>10, <2>11, <3>1
    <3>3. k \in 1..b \/ k = b + 1
      BY <2>9, <3>1
    <3> QED BY <1>1, <2>9, <2>14, <2>15, <3>2, <3>3
  <2>18. posicion_actual' # Nada /\ Guardadas' = H
    BY <2>2, <2>4, <2>5, <2>8
  <2> QED BY <2>6, <2>16, <2>17, <2>18 DEF LecturaFiel
<1> QED BY <1>4, <1>5

----------------------------------------------------------------------------
Sueltas == ConAsiento("suelto")

(* A score found around a loose seat, or the default, is a number.            *)
LEMMA PuntajeHallado ==
  ASSUME TipoDeLectura, NEW S, S \subseteq DOMAIN lineas
  PROVE  Primero(S, Puntos, 3) \in Nat
<1> DEFINE con == {n \in S : Puntos[n] # Nada}
<1>1. /\ Len(lineas) \in Nat /\ DOMAIN lineas = 1..Len(lineas)
      /\ \A n \in DOMAIN lineas : lineas[n] \in Lineas
  BY DEF TipoDeLectura
<1>2. \A n \in S : Puntos[n] \in Nat \cup {Nada}
  <2>1. \A n \in S : n \in DOMAIN lineas /\ Puntos[n] = lineas[n].puntos
    BY DEF Puntos
  <2> QED BY <1>1, <2>1, UnaLinea
<1>3. IsFiniteSet(con) /\ con \subseteq Nat
  <2>1. IsFiniteSet(1..Len(lineas))
    BY <1>1, FS_Interval
  <2>2. con \subseteq 1..Len(lineas)
    BY <1>1
  <2>3. \A n \in 1..Len(lineas) : n \in Nat
    OBVIOUS
  <2> HIDE DEF con
  <2> QED BY <2>1, <2>2, <2>3, FS_Subset
<1>4. CASE con = {}
  BY <1>4 DEF Primero
<1>5. CASE con # {}
  <2>1. Enesimo(con, 1) \in con
    <3> HIDE DEF con
    <3>1. Cardinality(con) \in Nat /\ Cardinality(con) # 0
      BY <1>3, <1>5, FS_CardinalityType, FS_EmptySet
    <3>2. 1 \in 1..Cardinality(con)
      BY <3>1
    <3> QED BY <1>3, <3>2, EnesimoEsta
  <2>2. Primero(S, Puntos, 3) = Puntos[Enesimo(con, 1)]
    BY <1>5 DEF Primero
  <2> QED BY <1>2, <2>1, <2>2
<1> QED BY <1>4, <1>5

(* The second reading gives one position for each loose seat, in order.       *)
LEMMA FlexibleEsLista ==
  ASSUME TipoDeLectura, NEW antes, NEW despues
  PROVE  /\ Sueltas \subseteq Nat /\ IsFiniteSet(Sueltas)
         /\ \E V : Flexible(antes, despues) \in Seq(V)
         /\ ListaDe(Flexible(antes, despues), Sueltas)
<1> DEFINE c == Cardinality(Sueltas)
           cerca(n) == {m \in DOMAIN lineas : m + antes >= n /\ m <= n + despues}
           de(n) == [linea |-> n, puntuacion |-> Primero(cerca(n), Puntos, 3),
                     razon |-> Primero(cerca(n), Razones, "Ubicacion recomendada")]
           F == [k \in 1..c |-> de(Enesimo(Sueltas, k))]
<1>1. Len(lineas) \in Nat /\ DOMAIN lineas = 1..Len(lineas)
  BY DEF TipoDeLectura
<1>2. Sueltas \subseteq 1..Len(lineas)
  BY <1>1 DEF Sueltas, ConAsiento
<1>3. Sueltas \subseteq Nat /\ IsFiniteSet(Sueltas)
  <2>1. IsFiniteSet(1..Len(lineas))
    BY <1>1, FS_Interval
  <2>2. \A n \in 1..Len(lineas) : n \in Nat
    OBVIOUS
  <2> QED BY <1>2, <2>1, <2>2, FS_Subset
<1>4. c \in Nat
  BY <1>3, FS_CardinalityType
<1>5. Flexible(antes, despues) = F
  BY DEF Flexible, Sueltas
<1>6. ASSUME NEW n PROVE de(n).linea = n /\ de(n).puntuacion \in Nat
  <2>1. cerca(n) \subseteq DOMAIN lineas
    OBVIOUS
  <2>2. Primero(cerca(n), Puntos, 3) \in Nat
    <3> HIDE DEF cerca
    <3> QED BY <2>1, PuntajeHallado
  <2> HIDE DEF cerca
  <2> QED BY <2>2
<1> HIDE DEF de
<1>7. /\ DOMAIN F = 1..c
      /\ \A k \in 1..c : F[k].linea = Enesimo(Sueltas, k) /\ F[k].puntuacion \in Nat
  BY <1>6
<1>8. \A k \in 1..c : Enesimo(Sueltas, k) \in Sueltas
  BY <1>3, EnesimoEsta
<1>9. \A j, k \in 1..c : j < k => Enesimo(Sueltas, j) < Enesimo(Sueltas, k)
  BY <1>3, EnesimoCrece
<1>10. ASSUME NEW n \in Sueltas PROVE \E k \in 1..c : Enesimo(Sueltas, k) = n
  <2> DEFINE k == Cardinality({m \in Sueltas : m < n}) + 1
  <2>1. /\ k \in 1..c
        /\ \A j \in 1..c : Cardinality({m \in Sueltas : m < n}) = j - 1 => n = Enesimo(Sueltas, j)
    BY <1>3, EnesimoEs
  <2>2. IsFiniteSet({m \in Sueltas : m < n})
    BY <1>3, FS_Subset
  <2>3. Cardinality({m \in Sueltas : m < n}) = k - 1
    BY <2>2, FS_CardinalityType
  <2> QED BY <2>1, <2>3
<1>11. \E V : F \in Seq(V)
  <2>1. F \in [1..c -> {F[k] : k \in 1..c}]
    OBVIOUS
  <2> HIDE DEF F
  <2>2. F \in Seq({F[k] : k \in 1..c})
    BY <1>4, <2>1, SeqDef
  <2> QED BY <2>2
<1>12. ListaDe(F, Sueltas)
  <2> HIDE DEF F, c
  <2> QED BY <1>7, <1>8, <1>9, <1>10 DEF ListaDe
<1> QED BY <1>3, <1>5, <1>11, <1>12

(* The list that is answered, whichever reading made it, has one position for *)
(* each line that counts.                                                     *)
LEMMA ListaAnswered ==
  ASSUME SugerenciasInv, respuesta # Nada
  PROVE  \E s, S, V : /\ respuesta = Mejores(s) /\ s \in Seq(V) /\ ListaDe(s, S)
                      /\ S \subseteq Nat /\ IsFiniteSet(S)
                      /\ S = IF Pedidas # {} THEN Pedidas ELSE Sueltas
<1>1. TipoDeLectura /\ ListaDe(Guardadas, Pedidas)
  BY DEF SugerenciasInv, LecturaFiel
<1>2. Guardadas \in Seq(Posicion)
  BY <1>1, GuardadasTipo
<1>3. CASE Guardadas # <<>> /\ respuesta = Mejores(Guardadas)
  <2>1. Pedidas # {}
    <3>1. 1 \in DOMAIN Guardadas
      BY <1>2, <1>3
    <3> QED BY <1>1, <3>1 DEF ListaDe
  <2>2. Pedidas \subseteq Nat /\ IsFiniteSet(Pedidas)
    <3>1. Len(lineas) \in Nat /\ DOMAIN lineas = 1..Len(lineas)
      BY <1>1 DEF TipoDeLectura
    <3>2. IsFiniteSet(1..Len(lineas)) /\ Pedidas \subseteq 1..Len(lineas)
      BY <3>1, FS_Interval DEF Pedidas, ConAsiento
    <3>3. \A n \in 1..Len(lineas) : n \in Nat
      OBVIOUS
    <3> QED BY <3>2, <3>3, FS_Subset
  <2> QED BY <1>1, <1>2, <1>3, <2>1, <2>2
<1>4. CASE /\ Guardadas = <<>>
           /\ \E antes, despues \in 0..MaxAlcance : respuesta = Mejores(Flexible(antes, despues))
  <2>1. Pedidas = {}
    BY <1>1, <1>4 DEF ListaDe
  <2>2. PICK antes, despues \in 0..MaxAlcance : respuesta = Mejores(Flexible(antes, despues))
    BY <1>4
  <2>3. /\ Sueltas \subseteq Nat /\ IsFiniteSet(Sueltas)
        /\ \E V : Flexible(antes, despues) \in Seq(V)
        /\ ListaDe(Flexible(antes, despues), Sueltas)
    BY <1>1, FlexibleEsLista
  <2> QED BY <2>1, <2>2, <2>3
<1> QED BY <1>3, <1>4 DEF SugerenciasInv, RespuestaFiel

(* An answer made from the form asked for comes from the positions kept.      *)
LEMMA DeLoPedido ==
  ASSUME SugerenciasInv, respuesta # Nada, Pedidas # {}
  PROVE  respuesta = Mejores(Guardadas) /\ Guardadas \in Seq(Posicion)
<1>1. TipoDeLectura /\ ListaDe(Guardadas, Pedidas)
  BY DEF SugerenciasInv, LecturaFiel
<1>2. Guardadas # <<>>
  BY <1>1 DEF ListaDe
<1> QED BY <1>1, <1>2, GuardadasTipo DEF SugerenciasInv, RespuestaFiel

LEMMA MejoresPrimeroVale ==
  ASSUME SugerenciasInv
  PROVE  MejoresPrimero
<1> SUFFICES ASSUME respuesta # Nada, NEW n \in Pedidas, NEW m \in Pedidas,
                    \/ lineas[n].puntos > lineas[m].puntos
                    \/ lineas[n].puntos = lineas[m].puntos /\ n < m,
                    Puesta(m)
             PROVE  AntesEnRespuesta(n, m)
  BY DEF MejoresPrimero, Pedidas
<1>1. PICK G : G = Guardadas
  OBVIOUS
<1>2. respuesta = Mejores(G) /\ G \in Seq(Posicion)
  BY <1>1, DeLoPedido
<1>3. ListaDe(G, Pedidas) /\ \A k \in DOMAIN G : G[k].puntuacion = lineas[G[k].linea].puntos
  BY <1>1 DEF SugerenciasInv, LecturaFiel
<1>4. PICK pi : Reordena(pi, G)
  BY <1>2, <1>3, OrdenadasReordena DEF ListaDe
<1>5. PICK v : v = Visibles(Len(G))
  OBVIOUS
<1>6. /\ v \in Nat /\ v <= Len(G) /\ DOMAIN respuesta = 1..v
      /\ \A k \in 1..v : k \in DOMAIN G /\ respuesta[k] = G[pi[k]]
  BY <1>2, <1>4, <1>5, MejoresSon
<1>7. PICK k \in 1..v : respuesta[k].linea = m
  BY <1>6 DEF Puesta
<1>8. PICK i \in DOMAIN G : G[i].linea = n
  BY <1>3 DEF ListaDe
<1>9. pi[k] \in DOMAIN G /\ G[pi[k]].linea = m
  BY <1>4, <1>6, <1>7 DEF Reordena
<1>10. DOMAIN G = 1..Len(G) /\ Len(G) \in Nat
  BY <1>2
<1>11. i \in Delante(G, pi[k])
  <2>1. G[i].puntuacion = lineas[n].puntos /\ G[pi[k]].puntuacion = lineas[m].puntos
    BY <1>3, <1>8, <1>9
  <2>2. CASE lineas[n].puntos > lineas[m].puntos
    BY <1>8, <2>1, <2>2 DEF Delante
  <2>3. CASE lineas[n].puntos = lineas[m].puntos /\ n < m
    <3>1. i < pi[k]
      <4>1. \A a, b \in DOMAIN G : a < b => G[a].linea < G[b].linea
        BY <1>3 DEF ListaDe
      <4>2. n \in Nat /\ m \in Nat
        BY DEF SugerenciasInv, TipoDeLectura, Pedidas, ConAsiento
      <4>3. CASE pi[k] < i
        BY <1>8, <1>9, <2>3, <4>1, <4>2, <4>3
      <4>4. CASE pi[k] = i
        BY <1>8, <1>9, <2>3, <4>2, <4>4
      <4> QED BY <1>8, <1>9, <1>10, <4>3, <4>4
    <3> QED BY <1>8, <2>1, <2>3, <3>1 DEF Delante
  <2> QED BY <2>2, <2>3
<1>12. PICK j \in DOMAIN G : j < k /\ pi[j] = i
  BY <1>4, <1>6, <1>7, <1>8, <1>11 DEF Reordena
<1>13. j \in 1..v
  BY <1>6, <1>7, <1>10, <1>12
<1> QED BY <1>6, <1>7, <1>8, <1>12, <1>13 DEF AntesEnRespuesta

LEMMA TodaPosicionCuentaVale ==
  ASSUME SugerenciasInv
  PROVE  TodaPosicionCuenta
<1> SUFFICES ASSUME respuesta # Nada
             PROVE  LET hay == IF Pedidas # {} THEN Pedidas ELSE Sueltas
                        puestas == {respuesta[k].linea : k \in DOMAIN respuesta}
                    IN  /\ puestas \subseteq hay
                        /\ Cardinality(puestas) = Len(respuesta)
                        /\ Len(respuesta) = IF Cardinality(hay) < 5 THEN Cardinality(hay) ELSE 5
  BY DEF TodaPosicionCuenta, Pedidas, Sueltas
<1>1. PICK s, S, V : /\ respuesta = Mejores(s) /\ s \in Seq(V) /\ ListaDe(s, S)
                     /\ S \subseteq Nat /\ IsFiniteSet(S)
                     /\ S = IF Pedidas # {} THEN Pedidas ELSE Sueltas
  BY ListaAnswered
<1>2. /\ {Mejores(s)[k].linea : k \in DOMAIN Mejores(s)} \subseteq S
      /\ Cardinality({Mejores(s)[k].linea : k \in DOMAIN Mejores(s)}) = Len(Mejores(s))
      /\ Len(Mejores(s)) = Visibles(Cardinality(S))
  <2>1. S \subseteq Nat /\ IsFiniteSet(S) /\ s \in Seq(V) /\ ListaDe(s, S)
    BY <1>1
  <2> QED BY <2>1, CuantasSeVen
<1> QED BY <1>1, <1>2 DEF Visibles

LEMMA RazonPropiaVale ==
  ASSUME SugerenciasInv
  PROVE  RazonPropia
<1> SUFFICES ASSUME respuesta # Nada, Pedidas # {}, NEW k \in DOMAIN respuesta
             PROVE  /\ respuesta[k].puntuacion = lineas[respuesta[k].linea].puntos
                    /\ SuRazon(respuesta[k])
  BY DEF RazonPropia, SuRazon, Suyas, Pedidas
<1>1. PICK G : G = Guardadas
  OBVIOUS
<1>2. respuesta = Mejores(G) /\ G \in Seq(Posicion)
  BY <1>1, DeLoPedido
<1>3. /\ ListaDe(G, Pedidas)
      /\ \A i \in DOMAIN G : G[i].puntuacion = lineas[G[i].linea].puntos /\ SuRazon(G[i])
  BY <1>1 DEF SugerenciasInv, LecturaFiel
<1>4. PICK pi : Reordena(pi, G)
  BY <1>2, <1>3, OrdenadasReordena DEF ListaDe
<1>5. k \in DOMAIN G /\ respuesta[k] = G[pi[k]]
  BY <1>2, <1>4, MejoresSon
<1>6. pi[k] \in DOMAIN G
  BY <1>4, <1>5 DEF Reordena
<1> QED BY <1>3, <1>5, <1>6

LEMMA SugerenciasInicial ==
  ASSUME Init
  PROVE  SugerenciasInv
<1>1. Guardadas = <<>> /\ Pedidas = {}
  BY DEF Init, Guardadas, Pedidas, ConAsiento
<1>2. TipoDeLectura
  BY DEF Init, TipoDeLectura
<1>3. ListaDe(<<>>, {})
  BY DEF ListaDe
<1>4. LecturaFiel
  BY <1>1, <1>3 DEF Init, LecturaFiel
<1> QED BY <1>2, <1>4 DEF Init, SugerenciasInv, RespuestaFiel

LEMMA SugerenciasPaso ==
  ASSUME SugerenciasInv, [Next]_vars
  PROVE  SugerenciasInv'
<1>1. CASE ReadLine
  <2>1. respuesta = Nada /\ respuesta' = respuesta
    BY <1>1 DEF ReadLine
  <2>2. PICK l \in Lineas :
          /\ lineas' = Append(lineas, l)
          /\ IF l.asiento = "pedido"
               THEN posiciones' = Guardadas /\ posicion_actual' = Con(l, Abierta(l, Len(lineas')))
               ELSE posiciones' = posiciones /\ posicion_actual' = Con(l, posicion_actual)
    BY <1>1 DEF ReadLine, Con, Abierta
  <2>3. TipoDeLectura /\ LecturaFiel
    BY DEF SugerenciasInv
  <2>4. TipoDeLectura' /\ LecturaFiel'
    BY <2>2, <2>3, LeerPedido, LeerOtra
  <2> QED BY <2>1, <2>4 DEF SugerenciasInv, RespuestaFiel
<1>2. ASSUME UNCHANGED <<lineas, posiciones, posicion_actual>>
      PROVE  TipoDeLectura' /\ LecturaFiel' /\ Guardadas' = Guardadas
  <2>1. Guardadas' = Guardadas /\ Pedidas' = Pedidas
    BY <1>2 DEF Guardadas, Pedidas, ConAsiento
  <2>2. \A p : SuRazon(p)' <=> SuRazon(p)
    BY <1>2, <2>1 DEF SuRazon, Suyas
  <2>3. TipoDeLectura'
    BY <1>2 DEF SugerenciasInv, TipoDeLectura
  <2>4. LecturaFiel'
    BY <1>2, <2>1, <2>2 DEF SugerenciasInv, LecturaFiel
  <2> QED BY <2>1, <2>3, <2>4
<1>3. CASE Answer
  <2>1. UNCHANGED <<lineas, posiciones, posicion_actual>>
    BY <1>3 DEF Answer
  <2>2. TipoDeLectura' /\ LecturaFiel' /\ Guardadas' = Guardadas
    BY <1>2, <2>1
  <2>3. \A a, d \in 0..MaxAlcance : Flexible(a, d)' = Flexible(a, d)
    BY <2>1 DEF Flexible, ConAsiento, Puntos, Razones
  <2>4. RespuestaFiel'
    BY <1>3, <2>2, <2>3 DEF Answer, RespuestaFiel
  <2> QED BY <2>2, <2>4 DEF SugerenciasInv
<1>4. CASE UNCHANGED vars
  <2>1. UNCHANGED <<lineas, posiciones, posicion_actual>> /\ respuesta' = respuesta
    BY <1>4 DEF vars
  <2>2. TipoDeLectura' /\ LecturaFiel' /\ Guardadas' = Guardadas
    BY <1>2, <2>1
  <2>3. \A a, d \in 0..MaxAlcance : Flexible(a, d)' = Flexible(a, d)
    BY <2>1 DEF Flexible, ConAsiento, Puntos, Razones
  <2>4. RespuestaFiel'
    BY <2>1, <2>2, <2>3 DEF SugerenciasInv, RespuestaFiel
  <2> QED BY <2>2, <2>4 DEF SugerenciasInv
<1> QED BY <1>1, <1>3, <1>4 DEF Next, Answered

(* After every line the positions kept are those of the lines read, each with *)
(* its own score and reason, and an answer comes from them.                   *)
THEOREM LoGuardadoEsLoLeido == Spec => []SugerenciasInv
BY SugerenciasInicial, SugerenciasPaso, PTL DEF Spec

(* The best positions are shown, and everything better than one that is shown *)
(* is shown before it, however long the answer (puesto_trabajo.py 450-457).   *)
THEOREM SiempreMejoresPrimero == Spec => []MejoresPrimero
BY LoGuardadoEsLoLeido, MejoresPrimeroVale, PTL

(* The positions written as asked for are lost to the cut at five only, the   *)
(* loosely written ones to that and to the presence of one written as asked   *)
(* for, which drops them all; none is repeated or made up                     *)
(* (puesto_trabajo.py 424-457 and 460-507).                                   *)
THEOREM SiempreTodaPosicionCuenta == Spec => []TodaPosicionCuenta
BY LoGuardadoEsLoLeido, TodaPosicionCuentaVale, PTL

(* A position never shows the score or the reason of another                  *)
(* (puesto_trabajo.py 424-443).                                               *)
THEOREM SiempreRazonPropia == Spec => []RazonPropia
BY LoGuardadoEsLoLeido, RazonPropiaVale, PTL
=============================================================================
