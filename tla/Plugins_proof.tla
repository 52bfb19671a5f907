---------------------------- MODULE Plugins_proof ----------------------------
(***************************************************************************)
(* The plugin list, for any plugins and any directives; and, for any rules *)
(* and environment and any lists of plugins: the limits that counters      *)
(* enforces, what mailrules answers, and what is left of earlier messages. *)
(***************************************************************************)
EXTENDS Plugins, FiniteSetTheorems, FunctionTheorems, Responses_proof

(***************************************************************************)
(* The pointers of m are the list w.                                       *)
(***************************************************************************)
Pointers == [next : [Plugin -> Plugin \cup {Null}], head : Plugin \cup {Null},
             tail : Plugin \cup {Null}, flags : BOOLEAN]

OnceEach(w) == \A i, j \in 1 .. Len(w) : w[i] = w[j] => i = j

Linked(m, w) ==
  /\ \A i \in 1 .. Len(w) - 1 : m.next[w[i]] = w[i + 1]
  /\ IF w = <<>> THEN m.head = Null /\ m.tail = Null
     ELSE m.head = w[1] /\ m.tail = w[Len(w)] /\ m.next[m.tail] = Null

Describes(m, w) ==
  m \in Pointers /\ w \in Seq(Plugin) /\ OnceEach(w) /\ Linked(m, w)

LEMMA CountToN ==
  ASSUME NEW n \in Nat
  PROVE  Cardinality(1 .. n) = n
<1>1. Cardinality(1 .. n) = IF 1 > n THEN 0 ELSE n - 1 + 1
  BY FS_Interval
<1> QED BY <1>1

\* A list without duplicates is no longer than there are plugins.
LEMMA ListIsShort ==
  ASSUME NEW w \in Seq(Plugin), OnceEach(w)
  PROVE  Len(w) <= Cardinality(Plugin) /\ Cardinality(Plugin) \in Nat
<1>1. w \in Injection(1 .. Len(w), Plugin)
  <2>1. w \in [1 .. Len(w) -> Plugin]
    OBVIOUS
  <2> QED BY <2>1, Fun_IsInj DEF OnceEach
<1>2. IsFiniteSet(Plugin)
  BY ModuleListAssumption
<1>3. Cardinality(1 .. Len(w)) = Len(w)
  BY CountToN
<1>4. Cardinality(1 .. Len(w)) <= Cardinality(Plugin) /\ Cardinality(Plugin) \in Nat
  BY <1>1, <1>2, FS_Injection, FS_CardinalityType
<1> QED BY <1>3, <1>4

\* Following the pointers of a list gives the list.
LEMMA WalkIsList ==
  ASSUME NEW m, NEW w, Describes(m, w)
  PROVE  Walk(m) = w
<1> DEFINE N == Cardinality(Plugin)
           D == 1 .. N + 1
           Body(f, k) == IF k = 1 THEN m.head
                         ELSE IF f[k - 1] = Null THEN Null ELSE m.next[f[k - 1]]
           nth == CHOOSE f : f = [k \in D |-> Body(f, k)]
           g == [k \in D |-> IF k <= Len(w) THEN w[k] ELSE Null]
<1>1. w \in Seq(Plugin) /\ Len(w) \in Nat /\ Len(w) <= N /\ N \in Nat
  BY ListIsShort DEF Describes
<1> HIDE DEF N
<1>2. ASSUME NEW k \in D
      PROVE  g[k] = Body(g, k)
  <2>1. CASE k = 1
    BY <1>1, <2>1 DEF Describes, Linked
  <2>2. CASE k # 1 /\ k <= Len(w)
    <3>1. k - 1 \in D /\ k - 1 \in 1 .. Len(w) - 1 /\ w[k - 1] \in Plugin
      BY <1>1, <2>2
    <3>2. g[k - 1] = w[k - 1] /\ w[k - 1] # Null /\ g[k] = w[k]
      BY <1>1, <2>2, <3>1, ModuleListAssumption
    <3>3. m.next[w[k - 1]] = w[k]
      BY <1>1, <2>2, <3>1 DEF Describes, Linked
    <3> QED BY <2>2, <3>2, <3>3
  <2>3. CASE k # 1 /\ k = Len(w) + 1
    <3>1. k - 1 \in D /\ g[k - 1] = w[Len(w)] /\ w[Len(w)] \in Plugin /\ w # <<>>
      BY <1>1, <2>3
    <3>2. m.next[w[Len(w)]] = Null
      BY <3>1 DEF Describes, Linked
    <3> QED BY <1>1, <2>3, <3>1, <3>2
  <2>4. CASE k # 1 /\ k > Len(w) + 1
    BY <1>1, <2>4
  <2> QED BY <1>1, <2>1, <2>2, <2>3, <2>4
<1>3. g = [k \in D |-> Body(g, k)]
  BY <1>2
<1>4. nth = [k \in D |-> Body(nth, k)]
  BY <1>3
<1> HIDE DEF nth
<1>5. nth = g
  <2> DEFINE Bad == {k \in D : nth[k] # g[k]}
  <2>1. SUFFICES Bad = {}
    BY <1>3, <1>4
  <2>2. SUFFICES ASSUME Bad # {} PROVE FALSE
    OBVIOUS
  <2>3. Bad \in SUBSET Nat
    BY <1>1
  <2>4. PICK k \in Bad : \A j \in Bad : k <= j
    BY <2>2, <2>3, MinOfPositions
  <2>5. k \in D /\ nth[k] # g[k] /\ (k # 1 => k - 1 \in D /\ nth[k - 1] = g[k - 1])
    BY <1>1, <2>4
  <2>6. nth[k] = Body(nth, k) /\ g[k] = Body(g, k)
    <3>1. \A j \in D : nth[j] = Body(nth, j)
      BY <1>4
    <3> QED BY <1>2, <2>5, <3>1
  <2> QED BY <2>5, <2>6
<1>9. DOMAIN nth = D
  BY <1>5
<1>6. {k \in D : nth[k] # Null} = 1 .. Len(w)
  <2>1. \A k \in 1 .. Len(w) : w[k] # Null
    BY <1>1, ModuleListAssumption
  <2>2. \A k \in D : nth[k] # Null <=> k <= Len(w)
    BY <1>1, <1>5, <2>1
  <2> HIDE DEF g
  <2>3. 1 .. Len(w) \subseteq D /\ \A k \in D : k <= Len(w) <=> k \in 1 .. Len(w)
    BY <1>1
  <2> QED BY <2>2, <2>3
<1>7. Cardinality(1 .. Len(w)) = Len(w)
  BY <1>1, CountToN
<1>8. Walk(m) = [k \in 1 .. Cardinality({k \in DOMAIN nth : nth[k] # Null}) |-> nth[k]]
  BY DEF Walk, N, nth
<1>10. Walk(m) = [k \in 1 .. Len(w) |-> w[k]]
  BY <1>1, <1>5, <1>6, <1>7, <1>8, <1>9
<1> QED BY <1>1, <1>10


Lists(w, p) == \E i \in 1 .. Len(w) : w[i] = p

\* A plugin that is not in the list goes to its end, or to its beginning.
LEMMA AppendDescribes ==
  ASSUME NEW m, NEW w, Describes(m, w), NEW p \in Plugin, ~ Lists(w, p)
  PROVE  Describes(append_plugin(m, p), Append(w, p))
<1> DEFINE a == append_plugin(m, p)
           v == Append(w, p)
           n == Len(w)
<1>1. /\ m \in Pointers /\ w \in Seq(Plugin) /\ n \in Nat
      /\ \A i \in 1 .. n : w[i] \in Plugin /\ w[i] # p
  BY DEF Describes, Lists
<1>2. /\ v \in Seq(Plugin) /\ Len(v) = n + 1 /\ v[n + 1] = p
      /\ \A i \in 1 .. n : v[i] = w[i]
  BY <1>1
<1> HIDE DEF v
<1>3. OnceEach(v)
  BY <1>1, <1>2 DEF OnceEach, Describes
<1>4. CASE n = 0
  <2>1. w = <<>> /\ m.tail = Null
    BY <1>1, <1>4 DEF Describes, Linked
  <2>2. /\ a.next = [m.next EXCEPT ![p] = Null] /\ a.head = p /\ a.tail = p
        /\ a.flags = m.flags /\ a \in Pointers
    BY <1>1, <2>1 DEF append_plugin, Pointers
  <2>3. a.next[p] = Null
    BY <1>1, <2>2 DEF Pointers
  <2> HIDE DEF a
  <2>4. v # <<>> /\ Len(v) = 1 /\ v[1] = p /\ \A i \in 1 .. Len(v) - 1 : FALSE
    <3>1. n + 1 = 1 /\ \A i \in 1 .. 1 - 1 : FALSE
      BY <1>4
    <3>2. Len(v) = 1 /\ v[1] = p
      BY <1>2, <3>1
    <3>3. v # <<>>
      BY <3>2
    <3> QED BY <3>1, <3>2, <3>3
  <2>5. Linked(a, v)
    BY <2>2, <2>3, <2>4 DEF Linked
  <2> QED BY <1>2, <1>3, <2>2, <2>5 DEF Describes, v, a
<1>5. CASE n # 0
  <2>1. w # <<>> /\ m.head = w[1] /\ m.tail = w[n] /\ w[n] \in Plugin /\ w[n] # p /\ w[n] # Null
    BY <1>1, <1>5, ModuleListAssumption DEF Describes, Linked
  <2> DEFINE nx == [m.next EXCEPT ![p] = Null]
  <2>2. /\ a.next = [nx EXCEPT ![w[n]] = p] /\ a.head = w[1] /\ a.tail = p
        /\ a \in Pointers
    BY <1>1, <2>1 DEF append_plugin, Pointers
  <2>3. /\ a.next[p] = Null /\ a.next[w[n]] = p
        /\ \A q \in Plugin \ {p, w[n]} : a.next[q] = m.next[q]
    <3>1. /\ nx \in [Plugin -> Plugin \cup {Null}] /\ nx[p] = Null
          /\ \A q \in Plugin \ {p} : nx[q] = m.next[q]
      BY <1>1 DEF Pointers
    <3> HIDE DEF nx
    <3> QED BY <2>1, <2>2, <3>1
  <2> HIDE DEF a
  <2>4. ASSUME NEW i \in 1 .. n
        PROVE  a.next[v[i]] = v[i + 1]
    <3>1. CASE i = n
      BY <1>1, <1>2, <2>3, <3>1
    <3>2. CASE i # n
      <4>1. i \in 1 .. n - 1 /\ i + 1 \in 1 .. n /\ n \in 1 .. n
        BY <1>1, <3>2
      <4>2. w[i] # w[n]
        BY <1>1, <3>2, <4>1 DEF Describes, OnceEach
      <4>3. m.next[w[i]] = w[i + 1]
        BY <4>1 DEF Describes, Linked
      <4> QED BY <1>1, <1>2, <2>3, <4>1, <4>2, <4>3
    <3> QED BY <3>1, <3>2
  <2>5. v # <<>> /\ v[1] = w[1] /\ Len(v) - 1 = n
    BY <1>1, <1>2, <1>5
  <2>6. Linked(a, v)
    BY <1>2, <2>2, <2>3, <2>4, <2>5 DEF Linked
  <2> QED BY <1>2, <1>3, <2>2, <2>6 DEF Describes, v, a
<1> QED BY <1>1, <1>4, <1>5

LEMMA PrependDescribes ==
  ASSUME NEW m, NEW w, Describes(m, w), NEW p \in Plugin, ~ Lists(w, p)
  PROVE  Describes(prepend_plugin(m, p), <<p>> \o w)
<1> DEFINE a == prepend_plugin(m, p)
           v == <<p>> \o w
           n == Len(w)
<1>1. /\ m \in Pointers /\ w \in Seq(Plugin) /\ n \in Nat
      /\ \A i \in 1 .. n : w[i] \in Plugin /\ w[i] # p
  BY DEF Describes, Lists
<1>2. /\ v \in Seq(Plugin) /\ Len(v) = n + 1 /\ v[1] = p
      /\ \A i \in 1 .. n : v[i + 1] = w[i]
  <2>1. <<p>> \in Seq(Plugin) /\ Len(<<p>>) = 1 /\ <<p>>[1] = p
    OBVIOUS
  <2>2. /\ v \in Seq(Plugin) /\ Len(v) = Len(<<p>>) + Len(w)
        /\ \A i \in 1 .. Len(<<p>>) + Len(w) :
             v[i] = IF i <= Len(<<p>>) THEN <<p>>[i] ELSE w[i - Len(<<p>>)]
    BY <1>1, <2>1
  <2> HIDE DEF v
  <2>3. \A i \in 1 .. n : i + 1 \in 1 .. n + 1 /\ (i + 1) - 1 = i /\ ~ (i + 1 <= 1)
    BY <1>1
  <2> QED BY <1>1, <2>1, <2>2, <2>3
<1> HIDE DEF v
<1>3. \A i \in 1 .. n + 1 : i # 1 => i - 1 \in 1 .. n /\ v[i] = w[i - 1]
  <2> SUFFICES ASSUME NEW i \in 1 .. n + 1, i # 1
               PROVE  i - 1 \in 1 .. n /\ v[i] = w[i - 1]
    OBVIOUS
  <2>1. i - 1 \in 1 .. n /\ (i - 1) + 1 = i
    BY <1>1
  <2>2. v[(i - 1) + 1] = w[i - 1]
    BY <1>2, <2>1
  <2> QED BY <2>1, <2>2
<1>4. OnceEach(v)
  <2> SUFFICES ASSUME NEW i \in 1 .. n + 1, NEW j \in 1 .. n + 1, v[i] = v[j]
               PROVE  i = j
    BY <1>2 DEF OnceEach
  <2>1. CASE i = 1 \/ j = 1
    BY <1>1, <1>2, <1>3, <2>1
  <2>2. CASE i # 1 /\ j # 1
    <3>1. i - 1 \in 1 .. n /\ j - 1 \in 1 .. n /\ w[i - 1] = w[j - 1]
      BY <1>3, <2>2
    <3>2. i - 1 = j - 1
      BY <3>1 DEF Describes, OnceEach
    <3> QED BY <1>1, <3>2
  <2> QED BY <2>1, <2>2
<1>5. /\ a.next = [m.next EXCEPT ![p] = m.head] /\ a.head = p
      /\ a.tail = (IF m.tail = Null THEN p ELSE m.tail) /\ a \in Pointers
  BY <1>1 DEF prepend_plugin, Pointers
<1>6. /\ a.next[p] = m.head
      /\ \A q \in Plugin \ {p} : a.next[q] = m.next[q]
  BY <1>1, <1>5 DEF Pointers
<1> HIDE DEF a
<1>7. CASE n = 0
  <2>1. w = <<>> /\ m.head = Null /\ m.tail = Null
    BY <1>1, <1>7 DEF Describes, Linked
  <2>2. v # <<>> /\ Len(v) = 1 /\ \A i \in 1 .. Len(v) - 1 : FALSE
    <3>1. n + 1 = 1 /\ \A i \in 1 .. 1 - 1 : FALSE
      BY <1>7
    <3>2. Len(v) = 1
      BY <1>2, <3>1
    <3>3. v # <<>>
      BY <3>2
    <3> QED BY <3>1, <3>2, <3>3
  <2>3. Linked(a, v)
    BY <1>2, <1>5, <1>6, <2>1, <2>2 DEF Linked
  <2> QED BY <1>2, <1>4, <1>5, <2>3 DEF Describes, v, a
<1>8. CASE n # 0
  <2>1. /\ w # <<>> /\ m.head = w[1] /\ m.tail = w[n] /\ m.next[w[n]] = Null
        /\ n \in 1 .. n /\ w[n] \in Plugin /\ w[n] # p /\ w[n] # Null
    BY <1>1, <1>8, ModuleListAssumption DEF Describes, Linked
  <2>2. ASSUME NEW i \in 1 .. n
        PROVE  a.next[v[i]] = v[i + 1]
    <3>1. CASE i = 1
      BY <1>2, <1>6, <2>1, <3>1
    <3>2. CASE i # 1
      <4>1. i - 1 \in 1 .. n - 1 /\ i - 1 \in 1 .. n /\ v[i] = w[i - 1] /\ v[i + 1] = w[i]
        BY <1>1, <1>2, <1>3, <3>2
      <4>2. m.next[w[i - 1]] = w[(i - 1) + 1]
        BY <4>1 DEF Describes, Linked
      <4> QED BY <1>1, <1>6, <4>1, <4>2
    <3> QED BY <3>1, <3>2
  <2>3. v # <<>> /\ v[Len(v)] = w[n] /\ Len(v) - 1 = n
    BY <1>1, <1>2, <2>1
  <2>4. a.tail = w[n] /\ a.next[w[n]] = Null
    BY <1>5, <1>6, <2>1
  <2>5. Linked(a, v)
    BY <1>2, <1>5, <2>2, <2>3, <2>4 DEF Linked
  <2> QED BY <1>2, <1>4, <1>5, <2>5 DEF Describes, v, a
<1> QED BY <1>1, <1>7, <1>8


LEMMA WithoutOne ==
  ASSUME NEW w \in Seq(Plugin), NEW k \in 1 .. Len(w)
  PROVE  /\ RemoveAt(w, k) \in Seq(Plugin) /\ Len(RemoveAt(w, k)) = Len(w) - 1
         /\ \A i \in 1 .. Len(w) - 1 :
              RemoveAt(w, k)[i] = IF i < k THEN w[i] ELSE w[i + 1]
<1> DEFINE n == Len(w)
           s == SubSeq(w, 1, k - 1)
           t == SubSeq(w, k + 1, n)
<1>1. n \in Nat /\ k \in Nat /\ 1 <= k /\ k <= n
  OBVIOUS
<1>2. s \in Seq(Plugin) /\ Len(s) = k - 1 /\ \A i \in 1 .. k - 1 : s[i] = w[i]
  BY <1>1
<1>3. t \in Seq(Plugin) /\ Len(t) = n - k /\ \A i \in 1 .. n - k : t[i] = w[k + i]
  BY <1>1
<1> HIDE DEF n, s, t
<1>4. /\ s \o t \in Seq(Plugin) /\ Len(s \o t) = Len(s) + Len(t)
      /\ \A i \in 1 .. Len(s) + Len(t) :
           (s \o t)[i] = IF i <= Len(s) THEN s[i] ELSE t[i - Len(s)]
  <2>1. \A u1, u2 \in Seq(Plugin) :
          /\ u1 \o u2 \in Seq(Plugin) /\ Len(u1 \o u2) = Len(u1) + Len(u2)
          /\ \A i \in 1 .. Len(u1) + Len(u2) :
               (u1 \o u2)[i] = IF i <= Len(u1) THEN u1[i] ELSE u2[i - Len(u1)]
    OBVIOUS
  <2> QED BY <1>2, <1>3, <2>1
<1>5. RemoveAt(w, k) = s \o t
  BY DEF RemoveAt, n, s, t
<1>6. Len(s) + Len(t) = n - 1
  BY <1>1, <1>2, <1>3
<1>7. ASSUME NEW i \in 1 .. n - 1
      PROVE  (s \o t)[i] = IF i < k THEN w[i] ELSE w[i + 1]
  <2>1. CASE i < k
    <3>1. i \in 1 .. k - 1 /\ i <= Len(s)
      BY <1>1, <1>2, <2>1
    <3> QED BY <1>2, <1>4, <1>6, <2>1, <3>1
  <2>2. CASE ~ (i < k)
    <3>1. ~ (i <= Len(s)) /\ i - (k - 1) \in 1 .. n - k /\ k + (i - (k - 1)) = i + 1
      BY <1>1, <1>2, <2>2
    <3>2. (s \o t)[i] = t[i - (k - 1)]
      BY <1>2, <1>4, <1>6, <3>1
    <3> QED BY <1>3, <2>2, <3>1, <3>2
  <2> QED BY <2>1, <2>2
<1> QED BY <1>4, <1>5, <1>6, <1>7 DEF n


\* Unlinking a plugin leaves the others, in their order.
LEMMA RemoveDescribes ==
  ASSUME NEW m, NEW w, Describes(m, w), NEW name \in Plugin \cup {"*"}
  PROVE  /\ Describes(remove_plugin(m, name), Without(w, name))
         /\ ~ Lists(Without(w, name), name)
<1> DEFINE a == remove_plugin(m, name)
           v == Without(w, name)
           n == Len(w)
           at == {i \in DOMAIN w : w[i] = name}
           k == CHOOSE i \in at : TRUE
<1>1. /\ m \in Pointers /\ w \in Seq(Plugin) /\ n \in Nat /\ DOMAIN w = 1 .. n
      /\ \A i \in 1 .. n : w[i] \in Plugin
  BY DEF Describes
<1>2. Walk(m) = w
  BY WalkIsList
<1>3. CASE name = "*"
  <2>1. a = [m EXCEPT !.head = Null, !.tail = Null] /\ v = <<>>
    BY <1>3 DEF remove_plugin, Without
  <2>2. a \in Pointers /\ a.head = Null /\ a.tail = Null
    BY <1>1, <2>1 DEF Pointers
  <2>3. v \in Seq(Plugin) /\ \A i \in 1 .. Len(v) : FALSE
    BY <2>1
  <2>4. \A i \in 1 .. Len(v) - 1 : FALSE
    BY <2>1
  <2> HIDE DEF a, v
  <2>5. Linked(a, v)
    BY <2>1, <2>2, <2>4 DEF Linked
  <2>6. OnceEach(v) /\ ~ Lists(v, name)
    BY <2>3 DEF OnceEach, Lists
  <2> QED BY <2>2, <2>3, <2>5, <2>6 DEF Describes, a, v
<1>4. CASE name # "*" /\ at = {}
  <2>1. a = m /\ v = w
    BY <1>2, <1>4 DEF remove_plugin, Without
  <2> QED BY <1>1, <1>4, <2>1 DEF Lists
<1>5. CASE name # "*" /\ at # {}
  <2>1. k \in 1 .. n /\ w[k] = name /\ name \in Plugin
    BY <1>1, <1>5
  <2>2. v = RemoveAt(w, k)
    BY <1>5 DEF Without
  <2>0. n \in Nat /\ k \in Nat /\ 1 <= k /\ k <= n
    BY <1>1, <2>1
  <2> DEFINE prev == IF k = 1 THEN Null ELSE w[k - 1]
             after == m.next[name]
             cut == IF k = 1 THEN [m EXCEPT !.head = after]
                    ELSE [m EXCEPT !.next[prev] = after]
  <2>3. a = IF after = Null THEN [cut EXCEPT !.tail = prev] ELSE cut
    BY <1>2, <1>5 DEF remove_plugin
  <2> HIDE DEF k, a, v, n
  <2>4. /\ v \in Seq(Plugin) /\ Len(v) = n - 1
        /\ \A i \in 1 .. n - 1 : v[i] = IF i < k THEN w[i] ELSE w[i + 1]
    BY <1>1, <2>1, <2>2, WithoutOne DEF n
  <2>5. \A i \in 1 .. n : i # k => w[i] # name
    BY <1>1, <2>1 DEF Describes, OnceEach
  <2>6. OnceEach(v)
    <3> SUFFICES ASSUME NEW i \in 1 .. n - 1, NEW j \in 1 .. n - 1, v[i] = v[j]
                 PROVE  i = j
      BY <2>4 DEF OnceEach
    <3>1. \A x1, x2 \in 1 .. n : w[x1] = w[x2] => x1 = x2
      BY DEF Describes, OnceEach, n
    <3>2. i \in 1 .. n /\ i + 1 \in 1 .. n /\ j \in 1 .. n /\ j + 1 \in 1 .. n
      BY <1>1
    <3> QED BY <1>1, <2>1, <2>4, <3>1, <3>2
  <2>7. ~ Lists(v, name)
    <3> SUFFICES ASSUME NEW i \in 1 .. n - 1 PROVE v[i] # name
      BY <2>4 DEF Lists
    <3>1. i \in 1 .. n /\ i + 1 \in 1 .. n /\ (i < k => i # k) /\ (~ (i < k) => i + 1 # k)
      BY <1>1, <2>1
    <3> QED BY <2>4, <2>5, <3>1
  <2>8. /\ \A i \in 1 .. n - 1 : m.next[w[i]] = w[i + 1]
        /\ m.head = w[1] /\ m.tail = w[n] /\ m.next[w[n]] = Null
    BY <1>1, <2>1 DEF Describes, Linked
  <2>9. after = IF k = n THEN Null ELSE w[k + 1]
    <3>1. k # n => k \in 1 .. n - 1
      BY <1>1, <2>1
    <3> QED BY <2>1, <2>8, <3>1
  <2>10. after = Null <=> k = n
    <3>1. k # n => k + 1 \in 1 .. n
      BY <1>1, <2>1
    <3> QED BY <1>1, <2>9, <3>1, ModuleListAssumption
  <2>11. after \in Plugin \cup {Null} /\ prev \in Plugin \cup {Null}
    <3>1. k # 1 => k - 1 \in 1 .. n
      BY <1>1, <2>1
    <3> QED BY <1>1, <2>1, <3>1 DEF Pointers
  <2> HIDE DEF after
  <2>12. CASE k = 1
    <3>1. a \in Pointers /\ a.next = m.next /\ a.head = after
          /\ a.tail = IF n = 1 THEN Null ELSE w[n]
      BY <1>1, <2>3, <2>8, <2>10, <2>11, <2>12 DEF Pointers
    <3>2. CASE n = 1
      <4>1. v = <<>>
        BY <2>4, <3>2
      <4>2. Len(v) = 0 /\ \A i \in 1 .. 0 - 1 : FALSE
        BY <2>4, <3>2
      <4>3. a.head = Null /\ a.tail = Null
        BY <2>10, <2>12, <3>1, <3>2
      <4>4. Linked(a, v)
        BY <4>1, <4>2, <4>3 DEF Linked
      <4> QED BY <2>4, <2>6, <2>7, <3>1, <4>4 DEF Describes, a, v
    <3>3. CASE n # 1
      <4>1. /\ 1 \in 1 .. n - 1 /\ n - 1 \in 1 .. n - 1 /\ (n - 1) + 1 = n /\ ~ (1 < 1)
            /\ ~ (n - 1 < 1)
        BY <1>1, <2>1, <3>3
      <4>2. v[1] = w[1 + 1] /\ v[Len(v)] = w[n]
        BY <2>4, <2>12, <4>1
      <4>3. v # <<>>
        BY <2>4, <4>1
      <4>4. a.head = v[1] /\ a.tail = w[n]
        BY <2>9, <2>12, <3>1, <3>3, <4>2
      <4>5. ASSUME NEW i \in 1 .. Len(v) - 1
            PROVE  a.next[v[i]] = v[i + 1]
        <5>1. i \in 1 .. n - 1 /\ i + 1 \in 1 .. n - 1 /\ ~ (i < 1) /\ ~ (i + 1 < 1)
          BY <1>1, <2>4, <3>3
        <5>2. v[i] = w[i + 1] /\ v[i + 1] = w[(i + 1) + 1]
          BY <2>4, <2>12, <5>1
        <5> QED BY <2>8, <3>1, <5>1, <5>2
      <4>6. Linked(a, v)
        BY <2>8, <3>1, <4>2, <4>3, <4>4, <4>5 DEF Linked
      <4> QED BY <2>4, <2>6, <2>7, <3>1, <4>6 DEF Describes, a, v
    <3> QED BY <3>2, <3>3
  <2>13. CASE k # 1
    <3>1. k - 1 \in 1 .. n /\ k - 1 \in 1 .. n - 1 /\ prev = w[k - 1] /\ prev \in Plugin
      BY <1>1, <2>1, <2>13
    <3>2. /\ a \in Pointers /\ a.next = [m.next EXCEPT ![w[k - 1]] = after]
          /\ a.head = m.head /\ a.tail = IF k = n THEN w[k - 1] ELSE w[n]
      BY <1>1, <2>3, <2>8, <2>10, <2>11, <2>13, <3>1 DEF Pointers
    <3>3. /\ a.next[w[k - 1]] = after
          /\ \A i \in 1 .. n : i # k - 1 => a.next[w[i]] = m.next[w[i]]
      <4>1. \A i \in 1 .. n : i # k - 1 => w[i] # w[k - 1]
        BY <3>1 DEF Describes, OnceEach, n
      <4> QED BY <1>1, <3>1, <3>2, <4>1 DEF Pointers
    <3>4. v # <<>> /\ 1 \in 1 .. n - 1 /\ 1 < k /\ v[1] = w[1]
      <4>1. 1 \in 1 .. n - 1 /\ 1 < k
        BY <1>1, <2>1, <2>13
      <4>2. v # <<>>
        BY <2>4, <4>1
      <4> QED BY <2>4, <4>1, <4>2
    <3>5. v[Len(v)] = a.tail /\ a.next[a.tail] = Null
      <4>1. CASE k = n
        <5>1. n - 1 \in 1 .. n - 1 /\ n - 1 < k /\ k - 1 = n - 1
          BY <1>1, <3>1, <4>1
        <5>2. after = Null
          BY <2>10, <4>1
        <5> QED BY <2>4, <3>2, <3>3, <4>1, <5>1, <5>2
      <4>2. CASE k # n
        <5>1. /\ n - 1 \in 1 .. n - 1 /\ ~ (n - 1 < k) /\ (n - 1) + 1 = n /\ n \in 1 .. n
              /\ n # k - 1
          BY <1>1, <2>1, <3>1, <4>2
        <5> QED BY <2>4, <2>8, <3>2, <3>3, <4>2, <5>1
      <4> QED BY <4>1, <4>2
    <3>6. ASSUME NEW i \in 1 .. Len(v) - 1
          PROVE  a.next[v[i]] = v[i + 1]
      <4>1. /\ i \in 1 .. n - 1 /\ i + 1 \in 1 .. n - 1 /\ i \in 1 .. n /\ i + 1 \in 1 .. n
        BY <1>1, <2>4
      <4>2. CASE i < k - 1
        <5>1. i < k /\ i + 1 < k /\ i # k - 1
          BY <1>1, <2>1, <4>2
        <5> QED BY <2>4, <2>8, <3>3, <4>1, <5>1
      <4>3. CASE i = k - 1
        <5>1. i < k /\ ~ (i + 1 < k) /\ i + 1 = k /\ k # n
          BY <1>1, <2>1, <4>1, <4>3
        <5>2. v[i] = w[k - 1] /\ v[i + 1] = w[k + 1]
          BY <2>4, <4>1, <4>3, <5>1
        <5> QED BY <2>9, <3>3, <5>1, <5>2
      <4>4. CASE i >= k
        <5>1. ~ (i < k) /\ ~ (i + 1 < k) /\ i + 1 # k - 1
          BY <1>1, <2>1, <4>1, <4>4
        <5>2. v[i] = w[i + 1] /\ v[i + 1] = w[(i + 1) + 1]
          BY <2>4, <4>1, <5>1
        <5> QED BY <2>8, <3>3, <4>1, <5>1, <5>2
      <4> QED BY <1>1, <2>1, <4>1, <4>2, <4>3, <4>4
    <3>7. Linked(a, v)
      BY <2>8, <3>2, <3>4, <3>5, <3>6 DEF Linked
    <3> QED BY <2>4, <2>6, <2>7, <3>2, <3>7 DEF Describes, a, v
  <2> QED BY <2>12, <2>13
<1> QED BY <1>3, <1>4, <1>5


\* Directive by directive: what the pointers and the list of names become.
LEMMA LoadDescribes ==
  ASSUME NEW m, NEW w, Describes(m, w), NEW d, IsDirective(d)
  PROVE  Describes(load_add_plugin(m, d), ListedAfter(w, d))
<1> DEFINE without == remove_plugin(m, d.name)
           v == Without(w, d.name)
<1>1. d.name \in Plugin \cup {"*"} /\ (d.op # "-" => d.name \in Plugin)
      /\ d.op \in {"", "+", "-"}
  BY DEF IsDirective
<1>2. Describes(without, v) /\ ~ Lists(v, d.name)
  BY <1>1, RemoveDescribes
<1> HIDE DEF without, v
<1>3. CASE d.op = "-"
  <2>1. load_add_plugin(m, d) = without /\ ListedAfter(w, d) = v
    BY <1>3 DEF load_add_plugin, ListedAfter, without, v
  <2> QED BY <1>2, <2>1
<1>4. ASSUME NEW a, NEW l, Describes(a, l), NEW f \in BOOLEAN
      PROVE  Describes([a EXCEPT !.flags = f], l)
  <2> DEFINE b == [a EXCEPT !.flags = f]
  <2>1. b \in Pointers /\ b.next = a.next /\ b.head = a.head /\ b.tail = a.tail
    BY <1>4 DEF Describes, Pointers
  <2> HIDE DEF b
  <2>2. Linked(a, l)
    BY <1>4 DEF Describes
  <2>3. Linked(b, l)
    BY <2>1, <2>2 DEF Linked
  <2> QED BY <1>4, <2>1, <2>3 DEF Describes, b
<1>5. CASE d.op # "-"
  <2> DEFINE a == IF d.op = "+" THEN prepend_plugin(without, d.name)
                  ELSE append_plugin(without, d.name)
  <2>1. Describes(a, ListedAfter(w, d))
    <3>1. CASE d.op = "+"
      <4>1. ListedAfter(w, d) = <<d.name>> \o v /\ a = prepend_plugin(without, d.name)
        BY <3>1 DEF ListedAfter, v
      <4> QED BY <1>1, <1>2, <1>5, <4>1, PrependDescribes
    <3>2. CASE d.op # "+"
      <4>1. ListedAfter(w, d) = Append(v, d.name) /\ a = append_plugin(without, d.name)
        BY <1>5, <3>2 DEF ListedAfter, v
      <4> QED BY <1>1, <1>2, <1>5, <4>1, AppendDescribes
    <3> QED BY <3>1, <3>2
  <2> DEFINE f == a.flags \/ d.name \in NeedsFile
  <2>2. load_add_plugin(m, d) = [a EXCEPT !.flags = f]
    BY <1>5 DEF load_add_plugin, without
  <2>3. f \in BOOLEAN
    OBVIOUS
  <2> HIDE DEF a, f
  <2>4. Describes([a EXCEPT !.flags = f], ListedAfter(w, d))
    BY <1>4, <2>1, <2>3
  <2> QED BY <2>2, <2>4
<1> QED BY <1>3, <1>5

LEMMA NothingDescribes == Describes(NoPlugins, <<>>)
<1>1. NoPlugins \in Pointers /\ NoPlugins.head = Null /\ NoPlugins.tail = Null
  <2>1. [p \in Plugin |-> Null] \in [Plugin -> Plugin \cup {Null}]
    OBVIOUS
  <2> QED BY <2>1 DEF NoPlugins, Pointers
<1>2. \A i \in 1 .. 0 : FALSE
  OBVIOUS
<1>3. \A i \in 1 .. 0 - 1 : FALSE
  OBVIOUS
<1>4. Len(<<>>) = 0 /\ <<>> \in Seq(Plugin)
  OBVIOUS
<1>5. Linked(NoPlugins, <<>>)
  BY <1>1, <1>3, <1>4 DEF Linked
<1>6. OnceEach(<<>>)
  BY <1>2, <1>4 DEF OnceEach
<1> QED BY <1>1, <1>4, <1>5, <1>6 DEF Describes

LEMMA DescribesIsAsLoaded ==
  ASSUME Describes(modules, listed)
  PROVE  ListIsAsLoaded
<1>1. listed \in Seq(Plugin) /\ Linked(modules, listed)
  BY DEF Describes
<1>2. Walk(modules) = listed
  BY WalkIsList
<1>3. listed # <<>> => modules.tail = listed[Len(listed)] /\ modules.next[modules.tail] = Null
  BY <1>1 DEF Linked
<1> QED BY <1>2, <1>3 DEF ListIsAsLoaded, Last

(***************************************************************************)
(* The session record: its type, and what the table of numbers, the        *)
(* environment and minenv do to it.                                        *)
(***************************************************************************)
NumberName == {"maxdatabytes", "maxmsgs", "maxrcpts", "authenticated"}
Numbers == UNION {[D -> Nat \ {0}] : D \in SUBSET NumberName}
Session == [env : SUBSET Assignment, nums : Numbers, rcpt_count : Nat, msg_count : Nat,
            data_bytes : Nat, loaded : BOOLEAN, saved_sender : Sender \cup {"none"}]

\* t is s but for the environment and the numbers.
SameCounts(s, t) ==
  /\ t.rcpt_count = s.rcpt_count /\ t.msg_count = s.msg_count
  /\ t.data_bytes = s.data_bytes /\ t.loaded = s.loaded
  /\ t.saved_sender = s.saved_sender

LEMMA NumbersAre ==
  ASSUME NEW f
  PROVE  f \in Numbers <=> /\ f = [n \in DOMAIN f |-> f[n]]
                           /\ DOMAIN f \in SUBSET NumberName
                           /\ \A n \in DOMAIN f : f[n] \in Nat \ {0}
<1>1. ASSUME f \in Numbers
      PROVE  /\ f = [n \in DOMAIN f |-> f[n]] /\ DOMAIN f \in SUBSET NumberName
             /\ \A n \in DOMAIN f : f[n] \in Nat \ {0}
  <2>1. PICK D \in SUBSET NumberName : f \in [D -> Nat \ {0}]
    BY <1>1 DEF Numbers
  <2> QED BY <2>1
<1>2. ASSUME f = [n \in DOMAIN f |-> f[n]], DOMAIN f \in SUBSET NumberName,
             \A n \in DOMAIN f : f[n] \in Nat \ {0}
      PROVE  f \in Numbers
  <2>1. f \in [DOMAIN f -> Nat \ {0}]
    BY <1>2
  <2> QED BY <1>2, <2>1 DEF Numbers
<1> QED BY <1>1, <1>2

LEMMA SetNumType ==
  ASSUME NEW s \in Session, NEW name \in NumberName, NEW value \in Nat \ {0}
  PROVE  /\ session_setnum(s, name, value) \in Session
         /\ SameCounts(s, session_setnum(s, name, value))
         /\ session_setnum(s, name, value).env = s.env
         /\ session_setnum(s, name, value).nums[name] = value
         /\ session_hasnum(session_setnum(s, name, value), name)
<1> DEFINE f == [n \in {name} \cup DOMAIN s.nums |-> IF n = name THEN value ELSE s.nums[n]]
           t == session_setnum(s, name, value)
<1>1. t = [s EXCEPT !.nums = f]
  BY DEF session_setnum
<1>2. s.nums \in Numbers
  BY DEF Session
<1>3. f \in Numbers /\ f[name] = value /\ name \in DOMAIN f
  <2>1. /\ DOMAIN s.nums \in SUBSET NumberName
        /\ \A n \in DOMAIN s.nums : s.nums[n] \in Nat \ {0}
    BY <1>2, NumbersAre
  <2>2. f \in [{name} \cup DOMAIN s.nums -> Nat \ {0}] /\ f[name] = value
    BY <2>1
  <2> QED BY <2>1, <2>2 DEF Numbers
<1> HIDE DEF f
<1>4. t \in Session /\ SameCounts(s, t) /\ t.env = s.env /\ t.nums = f
  BY <1>1, <1>3 DEF Session, SameCounts
<1> QED BY <1>3, <1>4 DEF session_hasnum

LEMMA DelNumType ==
  ASSUME NEW s \in Session, NEW name
  PROVE  session_delnum(s, name) \in Session /\ SameCounts(s, session_delnum(s, name))
<1> DEFINE f == [n \in DOMAIN s.nums \ {name} |-> s.nums[n]]
           t == session_delnum(s, name)
<1>1. t = [s EXCEPT !.nums = f]
  BY DEF session_delnum, Restrict
<1>2. s.nums \in Numbers
  BY DEF Session
<1>3. f \in Numbers
  <2>1. /\ DOMAIN s.nums \in SUBSET NumberName
        /\ \A n \in DOMAIN s.nums : s.nums[n] \in Nat \ {0}
    BY <1>2, NumbersAre
  <2>2. f \in [DOMAIN s.nums \ {name} -> Nat \ {0}]
    BY <2>1
  <2> QED BY <2>1, <2>2 DEF Numbers
<1> HIDE DEF f
<1> QED BY <1>1, <1>3 DEF Session, SameCounts

LEMMA GetNumType ==
  ASSUME NEW s \in Session, NEW name, NEW dflt \in Nat
  PROVE  /\ session_getnum(s, name, dflt) \in Nat
         /\ dflt > 0 => session_getnum(s, name, dflt) > 0
<1>1. \A n \in DOMAIN s.nums : s.nums[n] \in Nat \ {0}
  BY NumbersAre DEF Session
<1> QED BY <1>1 DEF session_getnum, session_hasnum

LEMMA PutEnvType ==
  ASSUME NEW s \in Session, NEW as \in SUBSET Assignment
  PROVE  /\ session_putenv(s, as) \in Session /\ SameCounts(s, session_putenv(s, as))
         /\ session_resetenv(s) \in Session /\ SameCounts(s, session_resetenv(s))
<1> DEFINE t == [s EXCEPT !.env = @ \cup as]
           u == [s EXCEPT !.env = {}]
<1>1. s.env \cup as \in SUBSET Assignment
  BY DEF Session
<1>2. t \in Session /\ SameCounts(s, t)
  BY <1>1 DEF Session, SameCounts
<1>3. u \in Session /\ SameCounts(s, u)
  BY DEF Session, SameCounts
<1> QED BY <1>2, <1>3 DEF session_putenv, session_resetenv

\* The value of a variable is the least of its values that are not 0.
LEMMA GetEnv ==
  ASSUME NEW s \in Session, NEW name
  PROVE  /\ session_getenvu(s, name) \in UnsignedLong
         /\ session_getenvu(s, name) # 0 => session_getenvu(s, name) \in ValuesOf(s, name)
         /\ \A v \in ValuesOf(s, name) \ {0} :
              session_getenvu(s, name) > 0 /\ session_getenvu(s, name) <= v
         /\ ValuesOf(s, name) \subseteq UnsignedLong
<1> DEFINE values == ValuesOf(s, name) \ {0}
<1>1. ValuesOf(s, name) \in SUBSET UnsignedLong
  <2>1. \A b \in s.env : b[2] \in UnsignedLong
    BY MailrulesAssumption DEF Session, Assignment, IsRule
  <2>2. {a[2] : a \in {b \in s.env : b[1] = name}} \in SUBSET UnsignedLong
    BY <2>1
  <2> QED BY <2>2, SessionStoreAssumption DEF ValuesOf
<1>2. UnsignedLong \subseteq Nat /\ 0 \in UnsignedLong
  BY DEF UnsignedLong, Unlimited
<1>3. values \in SUBSET Nat /\ 0 \notin values /\ values \subseteq ValuesOf(s, name)
  BY <1>1, <1>2
<1> HIDE DEF values
<1>4. session_getenvu(s, name) = IF values = {} THEN 0 ELSE Min(values)
  BY DEF session_getenvu, values
<1>5. CASE values = {}
  BY <1>1, <1>2, <1>4, <1>5 DEF values
<1>6. CASE values # {}
  <2>1. PICK v : v = Min(values)
    OBVIOUS
  <2>2. v \in values /\ \A e \in values : v <= e
    BY <1>3, <1>6, <2>1, MinOfPositions
  <2>3. v \in Nat /\ v # 0
    BY <1>3, <2>2
  <2>4. v > 0
    BY <2>3
  <2>5. session_getenvu(s, name) = v
    BY <1>4, <1>6, <2>1
  <2> QED BY <1>1, <1>3, <2>2, <2>4, <2>5 DEF values
<1> QED BY <1>5, <1>6

LEMMA GetEnvType ==
  ASSUME NEW s \in Session, NEW name
  PROVE  /\ session_getenvu(s, name) \in Nat
         /\ \A e \in OfProcess(name) \ {0} :
              session_getenvu(s, name) > 0 /\ session_getenvu(s, name) <= e
<1>1. UnsignedLong \subseteq Nat
  BY DEF UnsignedLong, Unlimited
<1>2. OfProcess(name) \subseteq ValuesOf(s, name)
  BY DEF OfProcess, ValuesOf
<1> QED BY <1>1, <1>2, GetEnv

(***************************************************************************)
(* The number that follows a variable is no more than it afterwards, and   *)
(* is what minenv returns.                                                 *)
(***************************************************************************)
LEMMA MinenvType ==
  ASSUME NEW s \in Session, NEW sname \in NumberName, NEW name
  PROVE  /\ minenv(s, sname, name).x \in Session /\ SameCounts(s, minenv(s, sname, name).x)
         /\ minenv(s, sname, name).u \in Nat
         /\ \A e \in OfProcess(name) \ {0} :
              /\ session_getnum(minenv(s, sname, name).x, sname, Unlimited) <= e
              /\ minenv(s, sname, name).u > 0 /\ minenv(s, sname, name).u <= e
<1> DEFINE value == session_getenvu(s, name)
           number == session_getnum(s, sname, 0)
           has == session_hasnum(s, sname)
           t == session_setnum(s, sname, value)
           m == minenv(s, sname, name)
<1>1. /\ value \in Nat
      /\ \A e \in OfProcess(name) \ {0} : value > 0 /\ value <= e /\ e \in Nat
  <2>1. \A e \in OfProcess(name) : e \in Nat
    BY SessionStoreAssumption DEF OfProcess, UnsignedLong, Unlimited
  <2> QED BY <2>1, GetEnvType
<1>2. number \in Nat /\ (has => number > 0 /\ number = session_getnum(s, sname, Unlimited))
  <2>1. \A n \in DOMAIN s.nums : s.nums[n] \in Nat \ {0}
    BY NumbersAre DEF Session
  <2>2. CASE has
    <3>1. number = s.nums[sname] /\ session_getnum(s, sname, Unlimited) = s.nums[sname]
      BY <2>2 DEF session_getnum, session_hasnum
    <3>2. s.nums[sname] \in Nat \ {0}
      BY <2>1, <2>2 DEF session_hasnum
    <3> HIDE DEF number
    <3>3. number \in Nat /\ number # 0
      BY <3>1, <3>2
    <3> QED BY <3>1, <3>3
  <2>3. CASE ~ has
    BY <2>3 DEF session_getnum, session_hasnum
  <2> QED BY <2>2, <2>3
<1>3. SameCounts(s, s)
  BY DEF SameCounts
<1> HIDE DEF value, number, has
<1>4. CASE value > 0 /\ (~ has \/ number > value)
  <2>1. m = [x |-> t, u |-> value]
    BY <1>4 DEF minenv, value, number, has
  <2>2. t \in Session /\ SameCounts(s, t) /\ t.nums[sname] = value /\ session_hasnum(t, sname)
    <3>1. value \in Nat \ {0}
      BY <1>1, <1>4
    <3> QED BY <3>1, SetNumType
  <2>3. session_getnum(t, sname, Unlimited) = value
    BY <2>2 DEF session_getnum
  <2> QED BY <1>1, <2>1, <2>2, <2>3
<1>5. CASE ~ (value > 0 /\ (~ has \/ number > value))
  <2>1. m.x = s /\ m.u = IF value > 0 THEN number ELSE 0
    <3>1. CASE value = 0
      <4>1. m = [x |-> s, u |-> 0]
        BY <3>1 DEF minenv, value
      <4> QED BY <3>1, <4>1
    <3>2. CASE value # 0
      <4>1. m = [x |-> s, u |-> number] /\ value > 0
        BY <1>1, <1>5, <3>2 DEF minenv, value, number, has
      <4> QED BY <4>1
    <3> QED BY <3>1, <3>2
  <2>2. ASSUME NEW e \in OfProcess(name) \ {0}
        PROVE  /\ session_getnum(s, sname, Unlimited) <= e
               /\ m.u > 0 /\ m.u <= e
    <3>1. value > 0 /\ value <= e /\ e \in Nat /\ has /\ m.u = number
      BY <1>1, <1>5, <2>1
    <3>2. number <= e /\ number > 0
      BY <1>1, <1>2, <1>5, <3>1
    <3> QED BY <1>2, <3>1, <3>2
  <2> HIDE DEF m
  <2> QED BY <1>2, <1>3, <2>1, <2>2 DEF m
<1> QED BY <1>4, <1>5


(***************************************************************************)
(* Where numbers come from.  NumIs is the number of a name, if it has one. *)
(***************************************************************************)
NumIs(s, name) == IF name \in DOMAIN s.nums THEN {s.nums[name]} ELSE {}
SizeOf(s) == session_getnum(s, "maxdatabytes", Unlimited)

LEMMA NumType ==
  ASSUME NEW s \in Session, NEW name
  PROVE  /\ \A v \in NumIs(s, name) : v \in Nat /\ v > 0 /\ session_getnum(s, name, Unlimited) = v
         /\ NumIs(s, name) = {} => session_getnum(s, name, Unlimited) = Unlimited
         /\ session_getnum(s, name, Unlimited) \in Nat
<1>1. \A n \in DOMAIN s.nums : s.nums[n] \in Nat \ {0}
  BY NumbersAre DEF Session
<1>2. CASE name \in DOMAIN s.nums
  <2>1. PICK v : v = s.nums[name]
    OBVIOUS
  <2>2. v \in Nat /\ v # 0
    BY <1>1, <1>2, <2>1
  <2>3. v > 0
    BY <2>2
  <2>4. NumIs(s, name) = {v} /\ session_getnum(s, name, Unlimited) = v
    BY <1>2, <2>1 DEF NumIs, session_getnum, session_hasnum
  <2> QED BY <2>2, <2>3, <2>4
<1>3. CASE name \notin DOMAIN s.nums
  BY <1>3 DEF NumIs, session_getnum, session_hasnum, Unlimited
<1> QED BY <1>2, <1>3

LEMMA SameSize ==
  ASSUME NEW s \in Session, NEW t \in Session, NumIs(t, "maxdatabytes") = NumIs(s, "maxdatabytes")
  PROVE  SizeOf(t) = SizeOf(s)
<1>1. CASE NumIs(s, "maxdatabytes") = {}
  BY <1>1, NumType DEF SizeOf
<1>2. CASE NumIs(s, "maxdatabytes") # {}
  <2>1. PICK v : v \in NumIs(s, "maxdatabytes")
    BY <1>2
  <2>2. SizeOf(s) = v /\ SizeOf(t) = v
    BY <2>1, NumType DEF SizeOf
  <2> QED BY <2>2
<1> QED BY <1>1, <1>2

LEMMA SetNumIs ==
  ASSUME NEW s \in Session, NEW name \in NumberName, NEW value \in Nat \ {0}
  PROVE  /\ NumIs(session_setnum(s, name, value), name) = {value}
         /\ \A n : n # name => NumIs(session_setnum(s, name, value), n) = NumIs(s, n)
<1> DEFINE nums == [n \in {name} \cup DOMAIN s.nums |-> IF n = name THEN value ELSE s.nums[n]]
           t == session_setnum(s, name, value)
<1>1. t.nums = nums
  BY DEF session_setnum, Session
<1> HIDE DEF t
<1>2. NumIs(t, name) = {value}
  BY <1>1 DEF NumIs
<1>3. ASSUME NEW n, n # name
      PROVE  NumIs(t, n) = NumIs(s, n)
  BY <1>1, <1>3 DEF NumIs
<1> QED BY <1>2, <1>3 DEF t

LEMMA DelNumIs ==
  ASSUME NEW s \in Session, NEW name
  PROVE  /\ NumIs(session_delnum(s, name), name) = {}
         /\ \A n : n # name => NumIs(session_delnum(s, name), n) = NumIs(s, n)
         /\ session_delnum(s, name).env = s.env
<1> DEFINE nums == [n \in DOMAIN s.nums \ {name} |-> s.nums[n]]
           t == session_delnum(s, name)
<1>1. t.nums = nums /\ t.env = s.env
  BY DEF session_delnum, Restrict, Session
<1> HIDE DEF t
<1>2. NumIs(t, name) = {}
  BY <1>1 DEF NumIs
<1>3. ASSUME NEW n, n # name
      PROVE  NumIs(t, n) = NumIs(s, n)
  BY <1>1, <1>3 DEF NumIs
<1> QED BY <1>1, <1>2, <1>3 DEF t

(***************************************************************************)
(* minenv keeps the environment and the other numbers; its own number is   *)
(* the old one or a value of the variable, and only ever goes down.        *)
(***************************************************************************)
LEMMA MinenvNum ==
  ASSUME NEW s \in Session, NEW sname \in NumberName, NEW name
  PROVE  LET t == minenv(s, sname, name).x
             u == minenv(s, sname, name).u
         IN  /\ t.env = s.env
             /\ \A n : n # sname => NumIs(t, n) = NumIs(s, n)
             /\ NumIs(t, sname) \subseteq NumIs(s, sname) \cup (ValuesOf(s, name) \ {0})
             /\ session_getnum(t, sname, Unlimited) <= session_getnum(s, sname, Unlimited)
             /\ \A v \in ValuesOf(s, name) \ {0} : session_getnum(t, sname, Unlimited) <= v
             /\ u # 0 => NumIs(t, sname) = {u}
<1> DEFINE value == session_getenvu(s, name)
           has == session_hasnum(s, sname)
           number == session_getnum(s, sname, 0)
           t == session_setnum(s, sname, value)
           m == minenv(s, sname, name)
           old == session_getnum(s, sname, Unlimited)
<1>1. /\ value \in UnsignedLong /\ (value # 0 => value \in ValuesOf(s, name))
      /\ \A v \in ValuesOf(s, name) \ {0} : value > 0 /\ value <= v
      /\ ValuesOf(s, name) \subseteq UnsignedLong
  BY GetEnv
<1>2. IF has THEN NumIs(s, sname) = {number} /\ old = number /\ number \in Nat
      ELSE NumIs(s, sname) = {} /\ old = Unlimited
  <2>1. CASE has
    BY <2>1, NumType DEF NumIs, session_getnum, session_hasnum
  <2>2. CASE ~ has
    BY <2>2 DEF NumIs, session_getnum, session_hasnum
  <2> QED BY <2>1, <2>2
<1>3. value \in Nat /\ value <= Unlimited /\ old \in Nat
  BY <1>1, NumType, SMTT(30) DEF UnsignedLong, Unlimited
<1> HIDE DEF value, has, number, old
<1>4. CASE value # 0 /\ (~ has \/ number > value)
  <2>1. m.x = t /\ m.u = value
    <3>1. m = [x |-> t, u |-> value]
      BY <1>4 DEF minenv, value, has, number
    <3> QED BY <3>1
  <2>2. /\ t.env = s.env /\ t \in Session
        /\ NumIs(t, sname) = {value} /\ \A n : n # sname => NumIs(t, n) = NumIs(s, n)
    <3>1. value \in Nat \ {0}
      BY <1>3, <1>4
    <3> QED BY <3>1, SetNumType, SetNumIs
  <2>3. session_getnum(t, sname, Unlimited) = value
    BY <2>2, NumType
  <2>4. value <= old
    <3>1. CASE has
      BY <1>2, <1>3, <1>4, <3>1
    <3>2. CASE ~ has
      BY <1>2, <1>3, <3>2
    <3> QED BY <3>1, <3>2
  <2> HIDE DEF m, t
  <2> QED BY <1>1, <1>4, <2>1, <2>2, <2>3, <2>4 DEF m, old
<1>5. CASE ~ (value # 0 /\ (~ has \/ number > value))
  <2>1. m.x = s /\ (m.u # 0 => m.u = number /\ has)
    <3>1. CASE value = 0
      <4>1. m = [x |-> s, u |-> 0]
        BY <3>1 DEF minenv, value
      <4> QED BY <4>1
    <3>2. CASE value # 0
      <4>1. m = [x |-> s, u |-> number] /\ has
        BY <1>5, <3>2 DEF minenv, value, number, has
      <4> QED BY <4>1
    <3> QED BY <3>1, <3>2
  <2>2. ASSUME NEW v \in ValuesOf(s, name) \ {0}
        PROVE  old <= v
    <3>1. value # 0 /\ value <= v /\ v \in Nat
      BY <1>1, <1>3, <2>2, SMTT(30) DEF UnsignedLong, Unlimited
    <3>2. has /\ number <= value
      BY <1>2, <1>3, <1>5, <3>1
    <3> QED BY <1>2, <1>3, <3>1, <3>2
  <2>3. old <= old
    BY <1>3
  <2> HIDE DEF m
  <2> QED BY <1>2, <2>1, <2>2, <2>3 DEF m, old
<1> QED BY <1>4, <1>5

(***************************************************************************)
(* The hooks of counters: how they leave the counts, what they answer, and *)
(* what an answer that is not a refusal says.                              *)
(***************************************************************************)
Answered(a, s) ==
  a.x \in Session /\ SameCounts(s, a.x) /\ a.resp \in {"none", "perm"}

LEMMA LowerSizeType ==
  ASSUME NEW s \in Session
  PROVE  LowerSize(s) \in Session /\ SameCounts(s, LowerSize(s))
BY MinenvType DEF NumberName, LowerSize

LEMMA RefusedType ==
  ASSUME NEW s \in Session
  PROVE  RefusedForRecipients(s).x \in Session /\ SameCounts(s, RefusedForRecipients(s).x)
<1> DEFINE m == minenv(s, "maxrcpts", "MAXRCPTS")
<1>1. m.x \in Session /\ SameCounts(s, m.x) /\ SameCounts(s, s)
  BY MinenvType DEF NumberName, SameCounts
<1> HIDE DEF m
<1>2. RefusedForRecipients(s).x = IF IsSet(s, "MAXRCPTS_REJECT") THEN m.x ELSE s
  BY DEF RefusedForRecipients, m
<1> QED BY <1>1, <1>2

LEMMA CountersSender ==
  ASSUME NEW s \in Session, NEW size
  PROVE  Answered(counters_sender(s, size), s)
<1> DEFINE t == minenv(s, "maxmsgs", "MAXMSGS").x
           l == LowerSize(t)
           u == minenv(l, "maxrcpts", "MAXRCPTS").x
           big == size > session_getnum(u, "maxdatabytes", Unlimited)
<1>1. t \in Session /\ SameCounts(s, t)
  BY MinenvType DEF NumberName
<1>2. l \in Session /\ SameCounts(t, l)
  BY <1>1, LowerSizeType
<1>3. u \in Session /\ SameCounts(l, u)
  BY <1>2, MinenvType DEF NumberName
<1>4. SameCounts(s, u)
  BY <1>1, <1>2, <1>3 DEF SameCounts
<1>5. counters_sender(s, size) =
        IF TooManyMessages(t) THEN Reply(t, "perm")
        ELSE Reply(u, IF big THEN "perm" ELSE "none")
  BY DEF counters_sender
<1> HIDE DEF t, u, l, big
<1> QED BY <1>1, <1>3, <1>4, <1>5 DEF Answered, Reply

LEMMA CountersRecipient ==
  ASSUME NEW s \in Session
  PROVE  LET a == counters_recipient(s)
         IN  /\ a.x \in Session /\ a.x.msg_count = s.msg_count /\ a.resp \in {"none", "perm"}
             /\ a.x.rcpt_count = s.rcpt_count + 1
             /\ \A e \in OfProcess("MAXRCPTS") \ {0} : a.resp = "none" => a.x.rcpt_count <= e
<1> DEFINE m == minenv(s, "maxrcpts", "MAXRCPTS")
           l == LowerSize(m.x)
           t == [l EXCEPT !.rcpt_count = @ + 1]
           a == counters_recipient(s)
<1>1. m.x \in Session /\ SameCounts(s, m.x) /\ m.u \in Nat
  BY MinenvType DEF NumberName
<1>2. l \in Session /\ SameCounts(m.x, l)
  BY <1>1, LowerSizeType
<1>3. t \in Session /\ t.msg_count = s.msg_count /\ t.rcpt_count = s.rcpt_count + 1
  BY <1>1, <1>2 DEF SameCounts, Session
<1>4. a.x = t /\ a.resp = IF TooManyRecipients(t, m.u) THEN "perm" ELSE "none"
  BY DEF counters_recipient, Reply
<1>5. ASSUME NEW e \in OfProcess("MAXRCPTS") \ {0}
      PROVE  m.u > 0 /\ m.u <= e /\ e \in Nat
  <2>1. m.u > 0 /\ m.u <= e
    BY MinenvType DEF NumberName
  <2>2. e \in Nat
    BY SessionStoreAssumption DEF OfProcess, UnsignedLong, Unlimited
  <2> QED BY <2>1, <2>2
<1> HIDE DEF m, t, a, l
<1> QED BY <1>1, <1>3, <1>4, <1>5 DEF TooManyRecipients, Session, a


BelowMax(s) == \A max \in OfProcess("MAXMSGS") : s.msg_count < max

LEMMA CountersInit ==
  ASSUME NEW s \in Session
  PROVE  Answered(counters_init(s), s)
BY LowerSizeType DEF counters_init, Answered, Reply

LEMMA CountersReset ==
  ASSUME NEW s \in Session
  PROVE  LET a == counters_reset(s)
         IN  /\ a.x \in Session /\ a.x.msg_count = s.msg_count /\ a.x.rcpt_count = 0
             /\ a.resp = "none"
<1> DEFINE l == LowerSize(s)
           t == [l EXCEPT !.rcpt_count = 0]
<1>1. l \in Session /\ SameCounts(s, l)
  BY LowerSizeType
<1>2. t \in Session /\ t.msg_count = s.msg_count /\ t.rcpt_count = 0
  BY <1>1 DEF SameCounts, Session
<1>3. counters_reset(s) = [x |-> t, resp |-> "none"]
  BY DEF counters_reset, Reply
<1> HIDE DEF t
<1> QED BY <1>2, <1>3

LEMMA CountersStart ==
  ASSUME NEW s \in Session
  PROVE  LET a == counters_start(s)
         IN  /\ a.x \in Session /\ a.x.msg_count = s.msg_count
             /\ a.x.rcpt_count = s.rcpt_count /\ a.resp \in {"none", "perm"}
             /\ 0 \notin OfProcess("MAXMSGS") /\ a.resp = "none" => BelowMax(a.x)
<1> DEFINE t == minenv(s, "maxmsgs", "MAXMSGS").x
           y == RefusedForRecipients(t)
           l == LowerSize(y.x)
           u == [l EXCEPT !.data_bytes = 0]
           a == counters_start(s)
<1>1. /\ t \in Session /\ SameCounts(s, t)
      /\ \A e \in OfProcess("MAXMSGS") \ {0} : session_getnum(t, "maxmsgs", Unlimited) <= e
  BY MinenvType DEF NumberName
<1>2. y.x \in Session /\ SameCounts(t, y.x)
  BY <1>1, RefusedType
<1>3. l \in Session /\ SameCounts(y.x, l)
  BY <1>2, LowerSizeType
<1>4. /\ u \in Session /\ u.msg_count = s.msg_count /\ u.rcpt_count = s.rcpt_count
  BY <1>1, <1>2, <1>3 DEF SameCounts, Session
<1>5. a = IF TooManyMessages(t) THEN Reply(t, "perm")
          ELSE IF y.refused THEN Reply(y.x, "perm") ELSE Reply(u, "none")
  BY DEF counters_start
<1>6. ASSUME ~ TooManyMessages(t), 0 \notin OfProcess("MAXMSGS")
      PROVE  BelowMax(u)
  <2> SUFFICES ASSUME NEW e \in OfProcess("MAXMSGS") PROVE u.msg_count < e
    BY DEF BelowMax
  <2>1. PICK n : n = session_getnum(t, "maxmsgs", Unlimited)
    OBVIOUS
  <2>2. n \in Nat
    <3>1. Unlimited \in Nat
      BY DEF Unlimited
    <3> QED BY <1>1, <2>1, <3>1, GetNumType
  <2>3. e \in Nat /\ n <= e
    <3>1. e \in OfProcess("MAXMSGS") \ {0}
      BY <1>6
    <3>2. e \in Nat
      BY SessionStoreAssumption DEF OfProcess, UnsignedLong, Unlimited
    <3> QED BY <1>1, <2>1, <3>1, <3>2
  <2>4. ~ (t.msg_count >= n)
    BY <1>6, <2>1 DEF TooManyMessages
  <2>5. t.msg_count \in Nat /\ u.msg_count = t.msg_count
    BY <1>1, <1>4 DEF Session, SameCounts
  <2> HIDE DEF t, u
  <2> QED BY <2>2, <2>3, <2>4, <2>5
<1>7. t.msg_count = s.msg_count /\ t.rcpt_count = s.rcpt_count
      /\ y.x.msg_count = s.msg_count /\ y.x.rcpt_count = s.rcpt_count
  BY <1>1, <1>2 DEF SameCounts
<1> HIDE DEF t, u, y, a
<1>8. CASE TooManyMessages(t)
  BY <1>1, <1>5, <1>7, <1>8 DEF Reply, a
<1>9. CASE ~ TooManyMessages(t) /\ y.refused
  BY <1>2, <1>5, <1>7, <1>9 DEF Reply, a
<1>10. CASE ~ TooManyMessages(t) /\ ~ y.refused
  BY <1>4, <1>5, <1>6, <1>10 DEF Reply, a
<1> QED BY <1>8, <1>9, <1>10

LEMMA CountersBlock ==
  ASSUME NEW s \in Session
  PROVE  LET a == counters_block(s, 1)
         IN  /\ a.x \in Session /\ a.x.msg_count = s.msg_count
             /\ a.x.rcpt_count = s.rcpt_count /\ a.resp \in {"none", "perm"}
             /\ a.x.data_bytes = s.data_bytes + 1
             /\ a.resp = "none" => a.x.data_bytes <= SizeOf(a.x)
<1> DEFINE t == [s EXCEPT !.data_bytes = @ + 1]
           n == session_getnum(t, "maxdatabytes", Unlimited)
           a == counters_block(s, 1)
<1>1. /\ t \in Session /\ t.msg_count = s.msg_count /\ t.rcpt_count = s.rcpt_count
      /\ t.data_bytes = s.data_bytes + 1 /\ t.data_bytes \in Nat
  BY DEF Session
<1>2. n \in Nat /\ n > 0
  <2>1. Unlimited \in Nat /\ Unlimited > 0
    BY DEF Unlimited
  <2> QED BY <1>1, <2>1, GetNumType
<1>3. a = [x |-> t, resp |-> IF n > 0 /\ t.data_bytes > n THEN "perm" ELSE "none"]
  BY DEF counters_block, Reply
<1> HIDE DEF t, n, a
<1>4. a.resp = "none" => t.data_bytes <= n
  BY <1>1, <1>2, <1>3
<1>5. n = SizeOf(t)
  BY DEF n, SizeOf
<1> QED BY <1>1, <1>3, <1>4, <1>5 DEF a

LEMMA CountersEnd ==
  ASSUME NEW s \in Session
  PROVE  LET a == counters_end(s)
         IN  /\ a.x \in Session /\ a.x.rcpt_count = s.rcpt_count
             /\ a.resp \in {"none", "perm"}
             /\ a.x.msg_count = IF a.resp = "none" THEN s.msg_count + 1 ELSE s.msg_count
<1> DEFINE y == RefusedForRecipients(s)
           t == [y.x EXCEPT !.msg_count = @ + 1]
           a == counters_end(s)
<1>1. y.x \in Session /\ SameCounts(s, y.x)
  BY RefusedType
<1>2. t \in Session /\ t.msg_count = s.msg_count + 1 /\ t.rcpt_count = s.rcpt_count
  BY <1>1 DEF SameCounts, Session
<1>3. a = IF y.refused THEN [x |-> y.x, resp |-> "perm"] ELSE [x |-> t, resp |-> "none"]
  BY DEF counters_end, Reply
<1>4. y.x.msg_count = s.msg_count /\ y.x.rcpt_count = s.rcpt_count
  BY <1>1 DEF SameCounts
<1> HIDE DEF y, t, a
<1> QED BY <1>1, <1>2, <1>3, <1>4 DEF a


(***************************************************************************)
(* Lowers: t is s after some hooks of counters, which take their numbers   *)
(* from the variables and never raise the limit on the size.               *)
(***************************************************************************)
Lowers(s, t) ==
  /\ t \in Session /\ t.loaded = s.loaded /\ t.saved_sender = s.saved_sender /\ t.env = s.env
  /\ NumIs(t, "maxdatabytes") \subseteq
       NumIs(s, "maxdatabytes") \cup (ValuesOf(s, "DATABYTES") \ {0})
  /\ NumIs(t, "maxrcpts") \subseteq NumIs(s, "maxrcpts") \cup (ValuesOf(s, "MAXRCPTS") \ {0})
  /\ SizeOf(t) <= SizeOf(s)

LEMMA LowersCount ==
  ASSUME NEW s \in Session, NEW t \in Session, t.loaded = s.loaded,
         t.saved_sender = s.saved_sender, t.env = s.env, t.nums = s.nums
  PROVE  Lowers(s, t)
<1>1. NumIs(t, "maxdatabytes") = NumIs(s, "maxdatabytes") /\ NumIs(t, "maxrcpts") = NumIs(s, "maxrcpts")
  BY DEF NumIs
<1>2. SizeOf(t) = SizeOf(s) /\ SizeOf(s) \in Nat
  BY NumType DEF SizeOf, session_getnum, session_hasnum
<1> QED BY <1>1, <1>2 DEF Lowers

LEMMA LowersTwice ==
  ASSUME NEW s \in Session, NEW t, NEW u, Lowers(s, t), Lowers(t, u)
  PROVE  Lowers(s, u)
<1>1. \A name : ValuesOf(t, name) = ValuesOf(s, name)
  BY DEF Lowers, ValuesOf
<1>2. SizeOf(s) \in Nat /\ SizeOf(t) \in Nat /\ SizeOf(u) \in Nat
  BY NumType DEF Lowers, SizeOf
<1>3. SizeOf(u) <= SizeOf(s)
  BY <1>2 DEF Lowers
<1> QED BY <1>1, <1>3 DEF Lowers

LEMMA LowersMinenv ==
  ASSUME NEW s \in Session
  PROVE  /\ Lowers(s, LowerSize(s))
         /\ Lowers(s, minenv(s, "maxmsgs", "MAXMSGS").x)
         /\ Lowers(s, minenv(s, "maxrcpts", "MAXRCPTS").x)
         /\ Lowers(s, RefusedForRecipients(s).x)
<1>0. Lowers(s, s)
  BY LowersCount
<1>1. SizeOf(s) \in Nat /\ SizeOf(s) <= SizeOf(s)
  BY NumType DEF SizeOf
<1>2. Lowers(s, LowerSize(s))
  <2> DEFINE t == minenv(s, "maxdatabytes", "DATABYTES").x
  <2>1. t \in Session /\ SameCounts(s, t)
    BY MinenvType DEF NumberName
  <2>2. /\ t.env = s.env /\ \A n : n # "maxdatabytes" => NumIs(t, n) = NumIs(s, n)
        /\ NumIs(t, "maxdatabytes") \subseteq
             NumIs(s, "maxdatabytes") \cup (ValuesOf(s, "DATABYTES") \ {0})
        /\ SizeOf(t) <= SizeOf(s)
    BY MinenvNum DEF NumberName, SizeOf
  <2> HIDE DEF t
  <2>3. Lowers(s, t)
    BY <2>1, <2>2 DEF Lowers, SameCounts
  <2> QED BY <2>3 DEF LowerSize, t
<1>3. Lowers(s, minenv(s, "maxmsgs", "MAXMSGS").x)
  <2> DEFINE t == minenv(s, "maxmsgs", "MAXMSGS").x
  <2>1. t \in Session /\ SameCounts(s, t)
    BY MinenvType DEF NumberName
  <2>2. t.env = s.env /\ \A n : n # "maxmsgs" => NumIs(t, n) = NumIs(s, n)
    BY MinenvNum DEF NumberName
  <2> HIDE DEF t
  <2>3. SizeOf(t) = SizeOf(s)
    BY <2>1, <2>2, SameSize
  <2>4. SizeOf(t) <= SizeOf(s)
    BY <1>1, <2>3
  <2>5. /\ NumIs(t, "maxdatabytes") = NumIs(s, "maxdatabytes")
        /\ NumIs(t, "maxrcpts") = NumIs(s, "maxrcpts")
    BY <2>2
  <2>6. Lowers(s, t)
    BY <2>1, <2>2, <2>4, <2>5 DEF Lowers, SameCounts
  <2> QED BY <2>6 DEF t
<1>4. Lowers(s, minenv(s, "maxrcpts", "MAXRCPTS").x)
  <2> DEFINE t == minenv(s, "maxrcpts", "MAXRCPTS").x
  <2>1. t \in Session /\ SameCounts(s, t)
    BY MinenvType DEF NumberName
  <2>2. /\ t.env = s.env /\ \A n : n # "maxrcpts" => NumIs(t, n) = NumIs(s, n)
        /\ NumIs(t, "maxrcpts") \subseteq NumIs(s, "maxrcpts") \cup (ValuesOf(s, "MAXRCPTS") \ {0})
    BY MinenvNum DEF NumberName
  <2> HIDE DEF t
  <2>3. SizeOf(t) = SizeOf(s)
    BY <2>1, <2>2, SameSize
  <2>4. SizeOf(t) <= SizeOf(s)
    BY <1>1, <2>3
  <2>5. NumIs(t, "maxdatabytes") = NumIs(s, "maxdatabytes")
    BY <2>2
  <2>6. NumIs(t, "maxrcpts") \subseteq NumIs(s, "maxrcpts") \cup (ValuesOf(s, "MAXRCPTS") \ {0})
    BY <2>2
  <2>7. Lowers(s, t)
    BY <2>1, <2>2, <2>4, <2>5, <2>6 DEF Lowers, SameCounts
  <2> QED BY <2>7 DEF t
<1>5. Lowers(s, RefusedForRecipients(s).x)
  <2> DEFINE m == minenv(s, "maxrcpts", "MAXRCPTS")
  <2>1. RefusedForRecipients(s).x = IF IsSet(s, "MAXRCPTS_REJECT") THEN m.x ELSE s
    BY DEF RefusedForRecipients
  <2> HIDE DEF m
  <2> QED BY <1>0, <1>4, <2>1 DEF m
<1> QED BY <1>2, <1>3, <1>4, <1>5

LEMMA CountersLower ==
  ASSUME NEW s \in Session
  PROVE  /\ Lowers(s, counters_init(s).x) /\ Lowers(s, counters_reset(s).x)
         /\ \A size : Lowers(s, counters_sender(s, size).x)
         /\ Lowers(s, counters_recipient(s).x) /\ Lowers(s, counters_start(s).x)
         /\ Lowers(s, counters_block(s, 1).x) /\ Lowers(s, counters_end(s).x)
<1>1. \A t \in Session : Lowers(t, [t EXCEPT !.rcpt_count = 0])
                      /\ Lowers(t, [t EXCEPT !.rcpt_count = @ + 1])
                      /\ Lowers(t, [t EXCEPT !.data_bytes = 0])
                      /\ Lowers(t, [t EXCEPT !.data_bytes = @ + 1])
                      /\ Lowers(t, [t EXCEPT !.msg_count = @ + 1])
  <2> SUFFICES ASSUME NEW t \in Session
               PROVE  /\ Lowers(t, [t EXCEPT !.rcpt_count = 0])
                      /\ Lowers(t, [t EXCEPT !.rcpt_count = @ + 1])
                      /\ Lowers(t, [t EXCEPT !.data_bytes = 0])
                      /\ Lowers(t, [t EXCEPT !.data_bytes = @ + 1])
                      /\ Lowers(t, [t EXCEPT !.msg_count = @ + 1])
    OBVIOUS
  <2>1. /\ [t EXCEPT !.rcpt_count = 0] \in Session
        /\ [t EXCEPT !.rcpt_count = @ + 1] \in Session
        /\ [t EXCEPT !.data_bytes = 0] \in Session
        /\ [t EXCEPT !.data_bytes = @ + 1] \in Session
        /\ [t EXCEPT !.msg_count = @ + 1] \in Session
    BY DEF Session
  <2>2. Lowers(t, [t EXCEPT !.rcpt_count = 0])
    BY <2>1, LowersCount DEF Session
  <2>3. Lowers(t, [t EXCEPT !.rcpt_count = @ + 1])
    BY <2>1, LowersCount DEF Session
  <2>4. Lowers(t, [t EXCEPT !.data_bytes = 0])
    BY <2>1, LowersCount DEF Session
  <2>5. Lowers(t, [t EXCEPT !.data_bytes = @ + 1])
    BY <2>1, LowersCount DEF Session
  <2>6. Lowers(t, [t EXCEPT !.msg_count = @ + 1])
    BY <2>1, LowersCount DEF Session
  <2> QED BY <2>2, <2>3, <2>4, <2>5, <2>6
<1> DEFINE e == minenv(s, "maxmsgs", "MAXMSGS").x
           m == minenv(s, "maxrcpts", "MAXRCPTS")
           l == LowerSize(s)
           v == minenv(l, "maxrcpts", "MAXRCPTS").x
           w == LowerSize(m.x)
           y == RefusedForRecipients(e)
           z == RefusedForRecipients(s)
           d == LowerSize(y.x)
<1>2. Lowers(s, e) /\ Lowers(s, m.x) /\ Lowers(s, l) /\ Lowers(s, z.x)
  BY LowersMinenv
<1> HIDE DEF e, m, l, z
<1>3. e \in Session /\ m.x \in Session /\ l \in Session /\ z.x \in Session
  BY <1>2 DEF Lowers
<1>4. Lowers(l, v) /\ Lowers(m.x, w) /\ Lowers(e, y.x)
  BY <1>3, LowersMinenv
<1> HIDE DEF v, w, y
<1>5. Lowers(s, v) /\ Lowers(s, w) /\ Lowers(s, y.x)
  BY <1>2, <1>4, LowersTwice
<1>6. v \in Session /\ w \in Session /\ y.x \in Session
  BY <1>5 DEF Lowers
<1>7. Lowers(s, d) /\ d \in Session
  <2>1. Lowers(y.x, d)
    BY <1>6, LowersMinenv
  <2> HIDE DEF d
  <2> QED BY <1>5, <2>1, LowersTwice DEF Lowers
<1> HIDE DEF d
<1>8. Lowers(s, counters_init(s).x) /\ Lowers(s, counters_reset(s).x)
  <2>1. counters_init(s).x = l /\ counters_reset(s).x = [l EXCEPT !.rcpt_count = 0]
    BY DEF counters_init, counters_reset, Reply, l
  <2>2. Lowers(l, [l EXCEPT !.rcpt_count = 0])
    BY <1>1, <1>3
  <2>3. Lowers(s, [l EXCEPT !.rcpt_count = 0])
    BY <1>2, <1>3, <2>2, LowersTwice
  <2> QED BY <1>2, <2>1, <2>3
<1>9. ASSUME NEW size
      PROVE  Lowers(s, counters_sender(s, size).x)
  <2> DEFINE f == LowerSize(e)
             g == minenv(f, "maxrcpts", "MAXRCPTS").x
  <2>1. Lowers(s, f) /\ f \in Session
    <3>1. Lowers(e, f)
      BY <1>3, LowersMinenv
    <3> HIDE DEF f
    <3> QED BY <1>2, <3>1, LowersTwice DEF Lowers
  <2> HIDE DEF f
  <2>2. Lowers(s, g)
    <3>1. Lowers(f, g)
      BY <2>1, LowersMinenv
    <3> HIDE DEF g
    <3> QED BY <2>1, <3>1, LowersTwice
  <2>3. counters_sender(s, size).x \in {e, g}
    BY DEF counters_sender, Reply, e, f
  <2> HIDE DEF g
  <2> QED BY <1>2, <2>2, <2>3
<1>10. Lowers(s, counters_recipient(s).x)
  <2>1. counters_recipient(s).x = [w EXCEPT !.rcpt_count = @ + 1]
    BY DEF counters_recipient, Reply, m, w
  <2>2. Lowers(w, [w EXCEPT !.rcpt_count = @ + 1])
    BY <1>1, <1>6
  <2>3. Lowers(s, [w EXCEPT !.rcpt_count = @ + 1])
    BY <1>5, <2>2, LowersTwice
  <2> QED BY <2>1, <2>3
<1>11. Lowers(s, counters_start(s).x)
  <2>1. counters_start(s).x \in {e, y.x, [d EXCEPT !.data_bytes = 0]}
    BY DEF counters_start, Reply, e, y, d
  <2>2. Lowers(s, [d EXCEPT !.data_bytes = 0])
    BY <1>1, <1>7, LowersTwice
  <2> QED BY <1>2, <1>5, <2>1, <2>2
<1>12. Lowers(s, counters_block(s, 1).x)
  <2>1. counters_block(s, 1).x = [s EXCEPT !.data_bytes = @ + 1]
    BY DEF counters_block, Reply
  <2> QED BY <1>1, <2>1
<1>13. Lowers(s, counters_end(s).x)
  <2>1. counters_end(s).x \in {z.x, [z.x EXCEPT !.msg_count = @ + 1]}
    BY DEF counters_end, Reply, z
  <2>2. Lowers(s, [z.x EXCEPT !.msg_count = @ + 1])
    <3>1. Lowers(z.x, [z.x EXCEPT !.msg_count = @ + 1])
      BY <1>1, <1>3
    <3> QED BY <1>2, <3>1, LowersTwice
  <2> QED BY <1>2, <2>1, <2>2
<1> QED BY <1>8, <1>9, <1>10, <1>11, <1>12, <1>13

\* A body begins within every limit that the environment sets.
LEMMA StartLowers ==
  ASSUME NEW s \in Session, counters_start(s).resp = "none"
  PROVE  \A v \in ValuesOf(s, "DATABYTES") \ {0} : SizeOf(counters_start(s).x) <= v
<1> DEFINE e == minenv(s, "maxmsgs", "MAXMSGS").x
           y == RefusedForRecipients(e)
           d == minenv(y.x, "maxdatabytes", "DATABYTES").x
<1>1. Lowers(s, e)
  BY LowersMinenv
<1> HIDE DEF e
<1>2. e \in Session
  BY <1>1 DEF Lowers
<1>3. Lowers(e, y.x)
  BY <1>2, LowersMinenv
<1> HIDE DEF y
<1>4. y.x \in Session /\ y.x.env = s.env
  BY <1>1, <1>3 DEF Lowers
<1>5. d \in Session /\ \A v \in ValuesOf(y.x, "DATABYTES") \ {0} : SizeOf(d) <= v
  BY <1>4, MinenvNum, MinenvType DEF NumberName, SizeOf
<1>6. counters_start(s).x = [d EXCEPT !.data_bytes = 0]
  BY DEF counters_start, Reply, LowerSize, e, y
<1> HIDE DEF d
<1>7. SizeOf(counters_start(s).x) = SizeOf(d)
  BY <1>5, <1>6 DEF SizeOf, session_getnum, session_hasnum, Session
<1>8. ValuesOf(y.x, "DATABYTES") = ValuesOf(s, "DATABYTES")
  BY <1>4 DEF ValuesOf
<1> QED BY <1>5, <1>7, <1>8

\* A recipient is refused for a number that there is.
LEMMA RecipientRefused ==
  ASSUME NEW s \in Session, counters_recipient(s).resp # "none"
  PROVE  \E v \in NumIs(counters_recipient(s).x, "maxrcpts") :
           counters_recipient(s).x.rcpt_count > v
<1> DEFINE m == minenv(s, "maxrcpts", "MAXRCPTS")
           l == minenv(m.x, "maxdatabytes", "DATABYTES").x
           t == [l EXCEPT !.rcpt_count = @ + 1]
<1>1. m.x \in Session /\ m.u \in Nat /\ (m.u # 0 => NumIs(m.x, "maxrcpts") = {m.u})
  BY MinenvType, MinenvNum DEF NumberName
<1>2. counters_recipient(s) =
        [x |-> t, resp |-> IF TooManyRecipients(t, m.u) THEN "perm" ELSE "none"]
  BY DEF counters_recipient, Reply, LowerSize
<1> HIDE DEF m
<1>3. l \in Session /\ NumIs(l, "maxrcpts") = NumIs(m.x, "maxrcpts")
  BY <1>1, MinenvType, MinenvNum DEF NumberName
<1> HIDE DEF l
<1>4. NumIs(t, "maxrcpts") = NumIs(l, "maxrcpts")
  BY <1>3 DEF NumIs, Session
<1>5. TooManyRecipients(t, m.u) /\ counters_recipient(s).x = t
  BY <1>2
<1> HIDE DEF t
<1>6. m.u # 0 /\ t.rcpt_count > m.u
  BY <1>1, <1>5 DEF TooManyRecipients
<1> QED BY <1>1, <1>3, <1>4, <1>5, <1>6

(***************************************************************************)
(* Functions defined along 0 .. n, each value from the one before.         *)
(***************************************************************************)
LEMMA Stepwise ==
  ASSUME NEW n \in Nat, NEW P \in SUBSET Nat, 0 \in P,
         \A i \in 1 .. n : i - 1 \in P => i \in P
  PROVE  0 .. n \subseteq P
<1> DEFINE Bad == {i \in 0 .. n : i \notin P}
<1>1. SUFFICES ASSUME Bad # {} PROVE FALSE
  OBVIOUS
<1>2. Bad \in SUBSET Nat
  OBVIOUS
<1>3. PICK k \in Bad : \A j \in Bad : k <= j
  BY <1>1, <1>2, MinOfPositions
<1>4. k \in 0 .. n /\ k \notin P /\ k # 0
  BY <1>3
<1>5. k \in 1 .. n /\ k - 1 \in 0 .. n /\ ~ (k <= k - 1)
  BY <1>4
<1>6. k - 1 \in P
  BY <1>3, <1>5
<1> QED BY <1>4, <1>5, <1>6

\* st[i] makes the value at i of the value at i - 1.
Follows(g, n, a, st) == g[0] = a /\ \A i \in 1 .. n : g[i] = st[i][g[i - 1]]

LEMMA RecursionExists ==
  ASSUME NEW n \in Nat, NEW U, NEW a \in U, NEW st \in [1 .. n -> [U -> U]]
  PROVE  \E g \in [0 .. n -> U] : Follows(g, n, a, st)
<1> DEFINE Upto(k) == \E g \in [0 .. k -> U] :
                        g[0] = a /\ \A i \in 1 .. k : g[i] = st[i][g[i - 1]]
           P == {k \in 0 .. n : Upto(k)}
<1>1. 0 \in P
  <2> DEFINE g == [i \in 0 .. 0 |-> a]
  <2>1. g \in [0 .. 0 -> U] /\ g[0] = a /\ \A i \in 1 .. 0 : FALSE
    OBVIOUS
  <2> HIDE DEF g
  <2>2. Upto(0)
    BY <2>1
  <2> QED BY <2>2
<1>2. ASSUME NEW k \in 1 .. n, k - 1 \in P
      PROVE  k \in P
  <2>1. PICK g \in [0 .. k - 1 -> U] :
          g[0] = a /\ \A i \in 1 .. k - 1 : g[i] = st[i][g[i - 1]]
    BY <1>2
  <2> DEFINE h == [i \in 0 .. k |-> IF i = k THEN st[k][g[k - 1]] ELSE g[i]]
  <2>2. k - 1 \in 0 .. k - 1 /\ k # 0 /\ 0 \in 0 .. k /\ k \in Int
    OBVIOUS
  <2>3. st[k][g[k - 1]] \in U
    BY <2>1, <2>2
  <2>4. \A i \in 0 .. k : i # k => i \in 0 .. k - 1
    OBVIOUS
  <2>5. h \in [0 .. k -> U]
    BY <2>1, <2>3, <2>4
  <2>6. h[0] = a
    BY <2>1, <2>2
  <2>7. ASSUME NEW i \in 1 .. k
        PROVE  h[i] = st[i][h[i - 1]]
    <3>1. i \in 0 .. k /\ i - 1 \in 0 .. k /\ i - 1 # k /\ (i # k => i \in 1 .. k - 1)
      OBVIOUS
    <3>2. h[i - 1] = g[i - 1]
      BY <3>1
    <3>3. CASE i = k
      <4>1. h[i] = st[k][g[k - 1]]
        BY <3>1, <3>3
      <4> QED BY <3>2, <3>3, <4>1
    <3>4. CASE i # k
      <4>1. h[i] = g[i] /\ g[i] = st[i][g[i - 1]]
        BY <2>1, <3>1, <3>4
      <4> QED BY <3>2, <4>1
    <3> QED BY <3>3, <3>4
  <2> HIDE DEF h
  <2>8. Upto(k)
    BY <2>5, <2>6, <2>7
  <2>9. k \in 0 .. n
    OBVIOUS
  <2> HIDE DEF Upto
  <2> QED BY <2>8, <2>9
<1>3. n \in P
  <2>1. P \in SUBSET Nat
    OBVIOUS
  <2> HIDE DEF P
  <2>2. 0 .. n \subseteq P
    BY <1>1, <1>2, <2>1, Stepwise
  <2> QED BY <2>2
<1> QED BY <1>3 DEF Follows

(***************************************************************************)
(* The rules: what each leaves of the session record, and which of them    *)
(* apply.  Ran: t is s after the rules of R, in whatever order.            *)
(***************************************************************************)
RuleTyped(rule) == rule.databytes \in Nat /\ rule.environment \in SUBSET Assignment

Ran(s, t, R) ==
  /\ t \in Session /\ SameCounts(s, t)
  /\ t.env = s.env \cup UNION {r.environment : r \in R}
  /\ \A n : n # "maxdatabytes" => NumIs(t, n) = NumIs(s, n)
  /\ NumIs(t, "maxdatabytes") \subseteq
       NumIs(s, "maxdatabytes") \cup ({r.databytes : r \in R} \ {0})
  /\ SizeOf(t) <= SizeOf(s)
  /\ \A r \in R : r.databytes # 0 => SizeOf(t) <= r.databytes

LEMMA SizeType == \A s \in Session : SizeOf(s) \in Nat
BY NumType DEF SizeOf

LEMMA RanNone ==
  ASSUME NEW s \in Session
  PROVE  Ran(s, s, {})
<1>1. SizeOf(s) \in Nat /\ SizeOf(s) <= SizeOf(s)
  BY SizeType
<1> QED BY <1>1 DEF Ran, SameCounts

\* Only a number is set, and only downwards.
LEMMA ApplyRule ==
  ASSUME NEW s \in Session, NEW rule, RuleTyped(rule)
  PROVE  Ran(s, apply_rule(s, rule), {rule})
<1> DEFINE t == session_putenv(s, rule.environment)
           max == session_getnum(t, "maxdatabytes", Unlimited)
           u == session_setnum(t, "maxdatabytes", rule.databytes)
<1>1. /\ t \in Session /\ SameCounts(s, t) /\ t.env = s.env \cup rule.environment
      /\ \A n : NumIs(t, n) = NumIs(s, n)
  <2>1. t \in Session /\ SameCounts(s, t)
    BY PutEnvType DEF RuleTyped
  <2>2. t.env = s.env \cup rule.environment /\ t.nums = s.nums
    BY DEF session_putenv, Session
  <2> QED BY <2>1, <2>2 DEF NumIs
<1>2. max = SizeOf(s) /\ max \in Nat /\ max > 0
  <2>1. SizeOf(t) = SizeOf(s) /\ max = SizeOf(t)
    BY <1>1, SameSize DEF SizeOf
  <2>2. Unlimited \in Nat /\ Unlimited > 0
    BY DEF Unlimited
  <2> QED BY <1>1, <2>1, <2>2, GetNumType
<1>3. apply_rule(s, rule) =
        IF max = 0 \/ (rule.databytes > 0 /\ max > rule.databytes) THEN u ELSE t
  BY DEF apply_rule
<1>4. rule.databytes \in Nat /\ UNION {r.environment : r \in {rule}} = rule.environment
  BY DEF RuleTyped
<1> HIDE DEF max, t
<1>5. CASE rule.databytes # 0 /\ max > rule.databytes
  <2>1. rule.databytes \in Nat \ {0} /\ rule.databytes > 0 /\ apply_rule(s, rule) = u
    BY <1>3, <1>4, <1>5
  <2>2. /\ u \in Session /\ SameCounts(t, u) /\ u.env = t.env
        /\ NumIs(u, "maxdatabytes") = {rule.databytes}
        /\ \A n : n # "maxdatabytes" => NumIs(u, n) = NumIs(t, n)
    <3>1. "maxdatabytes" \in NumberName
      BY DEF NumberName
    <3>2. u \in Session /\ SameCounts(t, u) /\ u.env = t.env
      BY <1>1, <2>1, <3>1, SetNumType
    <3>3. NumIs(u, "maxdatabytes") = {rule.databytes}
      BY <1>1, <2>1, <3>1, SetNumIs
    <3>4. \A n : n # "maxdatabytes" => NumIs(u, n) = NumIs(t, n)
      BY <1>1, <2>1, <3>1, SetNumIs
    <3> QED BY <3>2, <3>3, <3>4
  <2>3. SizeOf(u) = rule.databytes
    BY <2>2, NumType DEF SizeOf
  <2>4. SizeOf(u) <= SizeOf(s) /\ SizeOf(u) <= rule.databytes
    BY <1>2, <1>4, <1>5, <2>3
  <2> HIDE DEF u
  <2> QED BY <1>1, <1>4, <2>1, <2>2, <2>4 DEF SameCounts, Ran
<1>6. CASE ~ (rule.databytes # 0 /\ max > rule.databytes)
  <2>1. apply_rule(s, rule) = t
    BY <1>2, <1>3, <1>4, <1>6
  <2>2. SizeOf(t) = SizeOf(s) /\ SizeOf(t) <= SizeOf(s)
    BY <1>1, <1>2, SameSize
  <2>3. rule.databytes # 0 => SizeOf(t) <= rule.databytes
    BY <1>2, <1>4, <1>6, <2>2
  <2> QED BY <1>1, <1>4, <2>1, <2>2, <2>3 DEF Ran
<1> QED BY <1>5, <1>6

LEMMA RanOne ==
  ASSUME NEW s \in Session, NEW t, NEW R, Ran(s, t, R), \A r \in R : RuleTyped(r),
         NEW rule, RuleTyped(rule)
  PROVE  Ran(s, apply_rule(t, rule), R \cup {rule})
<1> DEFINE u == apply_rule(t, rule)
<1>1. t \in Session /\ Ran(t, u, {rule})
  BY ApplyRule DEF Ran
<1> HIDE DEF u
<1>2. u \in Session /\ SameCounts(s, u)
  BY <1>1 DEF Ran, SameCounts
<1>3. u.env = s.env \cup UNION {r.environment : r \in R \cup {rule}}
  BY <1>1 DEF Ran
<1>4. \A n : n # "maxdatabytes" => NumIs(u, n) = NumIs(s, n)
  BY <1>1 DEF Ran
<1>5. NumIs(u, "maxdatabytes") \subseteq
        NumIs(s, "maxdatabytes") \cup ({r.databytes : r \in R \cup {rule}} \ {0})
  BY <1>1 DEF Ran
<1>6. SizeOf(s) \in Nat /\ SizeOf(t) \in Nat /\ SizeOf(u) \in Nat
  BY <1>1, <1>2, SizeType
<1>7. SizeOf(u) <= SizeOf(t) /\ SizeOf(t) <= SizeOf(s)
      /\ (rule.databytes # 0 => SizeOf(u) <= rule.databytes)
  BY <1>1 DEF Ran
<1>8. ASSUME NEW r \in R \cup {rule}, r.databytes # 0
      PROVE  SizeOf(u) <= r.databytes
  <2>1. CASE r = rule
    BY <1>7, <1>8, <2>1
  <2>2. CASE r \in R
    <3>1. SizeOf(t) <= r.databytes /\ r.databytes \in Nat
      BY <1>8, <2>2 DEF Ran, RuleTyped
    <3> QED BY <1>6, <1>7, <3>1
  <2> QED BY <2>1, <2>2
<1>9. SizeOf(u) <= SizeOf(s)
  BY <1>6, <1>7
<1> QED BY <1>2, <1>3, <1>4, <1>5, <1>8, <1>9 DEF Ran, u

\* Every and of the run of them that ends before i has matched.
Held(ands, hit, i) == \A j \in 1 .. i - 1 : j .. i - 1 \subseteq ands => j \in hit

LEMMA HeldNext ==
  ASSUME NEW ands, NEW hit, NEW i \in Nat, i > 1
  PROVE  Held(ands, hit, i) <=> (i - 1 \notin ands \/ (Held(ands, hit, i - 1) /\ i - 1 \in hit))
<1>1. ASSUME Held(ands, hit, i), i - 1 \in ands
      PROVE  Held(ands, hit, i - 1) /\ i - 1 \in hit
  <2>1. i - 1 \in hit
    <3>1. i - 1 \in 1 .. i - 1 /\ \A k \in i - 1 .. i - 1 : k = i - 1
      OBVIOUS
    <3> QED BY <1>1, <3>1 DEF Held
  <2>2. ASSUME NEW j \in 1 .. i - 1 - 1, j .. i - 1 - 1 \subseteq ands
        PROVE  j \in hit
    <3>1. j \in 1 .. i - 1 /\ \A k \in j .. i - 1 : k = i - 1 \/ k \in j .. i - 1 - 1
      OBVIOUS
    <3> QED BY <1>1, <2>2, <3>1 DEF Held
  <2> QED BY <2>1, <2>2 DEF Held
<1>2. ASSUME i - 1 \notin ands
      PROVE  Held(ands, hit, i)
  <2>1. \A j \in 1 .. i - 1 : i - 1 \in j .. i - 1
    OBVIOUS
  <2> QED BY <1>2, <2>1 DEF Held
<1>3. ASSUME Held(ands, hit, i - 1), i - 1 \in hit
      PROVE  Held(ands, hit, i)
  <2> SUFFICES ASSUME NEW j \in 1 .. i - 1, j .. i - 1 \subseteq ands PROVE j \in hit
    BY DEF Held
  <2>1. CASE j = i - 1
    BY <1>3, <2>1
  <2>2. CASE j # i - 1
    <3>1. j \in 1 .. i - 1 - 1 /\ \A k \in j .. i - 1 - 1 : k \in j .. i - 1
      BY <2>2
    <3> QED BY <1>3, <3>1 DEF Held
  <2> QED BY <2>1, <2>2
<1> QED BY <1>1, <1>2, <1>3

(***************************************************************************)
(* The loop's prev_and, kept from rule to rule, is what the documentation  *)
(* says of the ands before a rule.                                         *)
(***************************************************************************)
Hit(rules, is_recip, sender, address) ==
  {i \in DOMAIN rules : /\ matches(rules[i].sender, sender)
                        /\ is_recip => matches(rules[i].recipient, address)}
Ands(rules) == {i \in DOMAIN rules : rules[i].code = "&"}
Open(rules, is_recip, sender, address) ==
  {i \in Hit(rules, is_recip, sender, address) \ Ands(rules) :
     Held(Ands(rules), Hit(rules, is_recip, sender, address), i)}

LEMMA PrevAnd ==
  ASSUME NEW y, NEW rules, NEW is_recip, NEW address,
         Len(rules) \in Nat, DOMAIN rules = 1 .. Len(rules)
  PROVE  prev_and(y, rules, is_recip, address) =
           {i \in DOMAIN rules :
              Held(Ands(rules), Hit(rules, is_recip, y.saved_sender, address), i)}
<1> DEFINE n == Len(rules)
           M(i) == rule_matches(y, rules[i], is_recip, address)
           W(i) == Held(Ands(rules), Hit(rules, is_recip, y.saved_sender, address), i)
           and == CHOOSE f : f = [i \in DOMAIN rules |->
                    \/ i = 1
                    \/ rules[i - 1].code # "&"
                    \/ f[i - 1] /\ M(i - 1)]
           w == [i \in DOMAIN rules |->
                    \/ i = 1
                    \/ rules[i - 1].code # "&"
                    \/ W(i - 1) /\ M(i - 1)]
<1>1. prev_and(y, rules, is_recip, address) = {i \in DOMAIN rules : and[i]}
  BY DEF prev_and
<1>2. W(1)
  <2>1. \A j \in 1 .. 1 - 1 : FALSE
    OBVIOUS
  <2> QED BY <2>1 DEF Held
<1>3. ASSUME NEW i \in DOMAIN rules, i # 1
      PROVE  /\ i - 1 \in DOMAIN rules
             /\ W(i) <=> (rules[i - 1].code # "&" \/ (W(i - 1) /\ M(i - 1)))
  <2>1. i \in Nat /\ i > 1 /\ i - 1 \in DOMAIN rules
    BY <1>3
  <2>2. (i - 1 \in Ands(rules)) <=> rules[i - 1].code = "&"
    BY <2>1 DEF Ands
  <2>3. (i - 1 \in Hit(rules, is_recip, y.saved_sender, address)) <=> M(i - 1)
    BY <2>1 DEF Hit, rule_matches
  <2>4. W(i) <=> \/ i - 1 \notin Ands(rules)
                 \/ W(i - 1) /\ i - 1 \in Hit(rules, is_recip, y.saved_sender, address)
    BY <2>1, HeldNext
  <2> QED BY <2>1, <2>2, <2>3, <2>4
<1> HIDE DEF W, M
<1>4. w = [i \in DOMAIN rules |->
             \/ i = 1
             \/ rules[i - 1].code # "&"
             \/ w[i - 1] /\ M(i - 1)]
  <2>1. ASSUME NEW i \in DOMAIN rules, i # 1
        PROVE  w[i - 1] <=> W(i - 1)
    <3>1. i - 1 \in DOMAIN rules
      BY <1>3, <2>1
    <3>2. CASE i - 1 = 1
      BY <1>2, <3>1, <3>2
    <3>3. CASE i - 1 # 1
      BY <1>3, <3>1, <3>3
    <3> QED BY <3>2, <3>3
  <2>2. ASSUME NEW i \in DOMAIN rules
        PROVE  (\/ i = 1
                \/ rules[i - 1].code # "&"
                \/ W(i - 1) /\ M(i - 1))
               = (\/ i = 1
                  \/ rules[i - 1].code # "&"
                  \/ w[i - 1] /\ M(i - 1))
    <3> HIDE DEF w
    <3> QED BY <2>1
  <2> QED BY <2>2
<1>5. and = [i \in DOMAIN rules |->
               \/ i = 1
               \/ rules[i - 1].code # "&"
               \/ and[i - 1] /\ M(i - 1)]
  BY <1>4
<1> HIDE DEF and, w
<1>6. \A i \in DOMAIN rules :
        and[i] <=> \/ i = 1
                   \/ rules[i - 1].code # "&"
                   \/ and[i - 1] /\ M(i - 1)
  BY <1>5
<1>7. 0 .. n \subseteq {i \in 0 .. n : i # 0 => (and[i] <=> W(i))}
  <2> DEFINE P == {i \in 0 .. n : i # 0 => (and[i] <=> W(i))}
  <2>1. P \in SUBSET Nat /\ 0 \in P
    OBVIOUS
  <2>2. ASSUME NEW i \in 1 .. n, i - 1 \in P
        PROVE  i \in P
    <3>1. i \in DOMAIN rules /\ i \in 0 .. n
      OBVIOUS
    <3>2. CASE i = 1
      BY <1>2, <1>6, <3>1, <3>2
    <3>3. CASE i # 1
      <4>1. i - 1 # 0
        BY <3>3
      <4>2. and[i - 1] <=> W(i - 1)
        BY <2>2, <4>1
      <4>3. and[i] <=> (rules[i - 1].code # "&" \/ (and[i - 1] /\ M(i - 1)))
        BY <1>6, <3>1, <3>3
      <4>4. W(i) <=> (rules[i - 1].code # "&" \/ (W(i - 1) /\ M(i - 1)))
        BY <1>3, <3>1, <3>3
      <4>5. and[i] <=> W(i)
        BY <4>2, <4>3, <4>4
      <4> QED BY <3>1, <4>5
    <3> QED BY <3>2, <3>3
  <2> HIDE DEF P, n
  <2>3. 0 .. n \subseteq P
    BY <2>1, <2>2, Stepwise DEF n
  <2> QED BY <2>3 DEF P
<1>8. \A i \in DOMAIN rules : i \in 0 .. n /\ i # 0
  OBVIOUS
<1>9. \A i \in DOMAIN rules : and[i] <=> W(i)
  BY <1>7, <1>8
<1> QED BY <1>1, <1>9 DEF W

LEMMA AppliedAt ==
  ASSUME NEW rules, NEW is_recip, NEW sender, NEW address
  PROVE  LET applied == Applied(rules, is_recip, sender, address)
             open == Open(rules, is_recip, sender, address)
         IN  /\ applied.at = {i \in open : \A j \in open : j < i => rules[j].code = "n"}
             /\ applied.rules = rules
BY DEF Applied, Open, Hit, Ands, Held

LEMMA BuildResponseType ==
  ASSUME NEW code
  PROVE  build_response(code) \in Response
BY DEF build_response, Response

\* An answer that leaves the messages and the recipients counted as in s.
Kept(a, s) ==
  /\ a.x \in Session /\ a.x.msg_count = s.msg_count /\ a.x.rcpt_count = s.rcpt_count
  /\ a.resp \in Response

(***************************************************************************)
(* run_rules does what the documentation says: the rules that apply are    *)
(* run, each once, and the first that is not an n rule is the answer.      *)
(***************************************************************************)
RunsFor(s, is_recip, address) == IF is_recip THEN s ELSE [s EXCEPT !.saved_sender = address]

LEMMA RunsForType ==
  ASSUME NEW s \in Session, NEW is_recip \in BOOLEAN, NEW address, is_recip \/ address \in Sender
  PROVE  LET y == RunsFor(s, is_recip, address)
         IN  /\ y \in Session /\ y.env = s.env /\ y.nums = s.nums /\ y.loaded = s.loaded
             /\ y.msg_count = s.msg_count /\ y.rcpt_count = s.rcpt_count
             /\ y.saved_sender = IF is_recip THEN s.saved_sender ELSE address
BY DEF RunsFor, Session

LEMMA RunRulesApplies ==
  ASSUME NEW s \in Session, s.loaded, NEW rules, NEW is_recip \in BOOLEAN, NEW address,
         Len(rules) \in Nat, DOMAIN rules = 1 .. Len(rules),
         \A i \in DOMAIN rules : RuleTyped(rules[i]),
         is_recip \/ address \in Sender
  PROVE  LET y == RunsFor(s, is_recip, address)
             applied == Applied(rules, is_recip, y.saved_sender, address)
             a == run_rules(s, rules, is_recip, address)
         IN  /\ Ran(y, a.x, {rules[i] : i \in applied.at})
             /\ a.resp = AnswerOf(applied)
<1> DEFINE y == RunsFor(s, is_recip, address)
           applied == Applied(rules, is_recip, y.saved_sender, address)
           hits == {i \in prev_and(y, rules, is_recip, address) :
                      rules[i].code # "&" /\ rule_matches(y, rules[i], is_recip, address)}
           ends == {i \in hits : rules[i].code # "n"}
           stop == IF ends = {} THEN Len(rules) ELSE Min(ends)
           a == run_rules(s, rules, is_recip, address)
           R(i) == {rules[j] : j \in {j \in hits : j <= i}}
<1>1. y \in Session
  BY RunsForType
<1>2. hits = Open(rules, is_recip, y.saved_sender, address)
  <2> HIDE DEF y
  <2>1. prev_and(y, rules, is_recip, address) =
          {i \in DOMAIN rules :
             Held(Ands(rules), Hit(rules, is_recip, y.saved_sender, address), i)}
    BY PrevAnd
  <2>2. ASSUME NEW i \in DOMAIN rules
        PROVE  /\ rule_matches(y, rules[i], is_recip, address)
                    <=> i \in Hit(rules, is_recip, y.saved_sender, address)
               /\ rules[i].code # "&" <=> i \notin Ands(rules)
    BY DEF rule_matches, Hit, Ands
  <2>3. Hit(rules, is_recip, y.saved_sender, address) \subseteq DOMAIN rules
    BY DEF Hit
  <2> QED BY <2>1, <2>2, <2>3 DEF Open
<1>3. applied.at = {i \in hits : \A j \in hits : j < i => rules[j].code = "n"}
      /\ applied.rules = rules
  BY <1>2, AppliedAt
<1>4. hits \subseteq DOMAIN rules /\ ends \subseteq hits
  BY DEF prev_and
<1> HIDE DEF y, applied, hits
<1>5. /\ stop \in 0 .. Len(rules)
      /\ applied.at = {j \in hits : j <= stop}
      /\ AnswerOf(applied) =
           IF ends = {} THEN "none" ELSE build_response(rules[Min(ends)].code)
  <2> DEFINE stops == {i \in applied.at : applied.rules[i].code # "n"}
             answer == IF stops = {} THEN "none"
                       ELSE build_response(applied.rules[Min(stops)].code)
  <2>0. AnswerOf(applied) = answer
    BY DEF AnswerOf
  <2>1. CASE ends = {}
    <3>1. stop = Len(rules) /\ applied.at = hits /\ stops = {}
      BY <1>3, <2>1
    <3>2. \A j \in hits : j <= Len(rules)
      BY <1>4
    <3>3. answer = "none"
      BY <3>1
    <3>4. stop \in 0 .. Len(rules) /\ applied.at = {j \in hits : j <= stop}
      <4> HIDE DEF stop, hits
      <4> QED BY <3>1, <3>2
    <3> HIDE DEF stop, answer, ends
    <3> QED BY <2>0, <2>1, <3>3, <3>4
  <2>2. CASE ends # {}
    <3>1. PICK m : m = Min(ends)
      OBVIOUS
    <3>2. ends \in SUBSET Nat
      BY <1>4
    <3>3. m \in ends /\ \A e \in ends : m <= e
      <4> HIDE DEF ends
      <4> QED BY <2>2, <3>1, <3>2, MinOfPositions
    <3>4. stop = m /\ m \in hits /\ m \in 1 .. Len(rules) /\ rules[m].code # "n"
      BY <1>4, <2>2, <3>1, <3>3
    <3>5. ASSUME NEW i \in hits
          PROVE  i \in applied.at <=> i <= m
      <4>1. i \in 1 .. Len(rules)
        BY <1>4
      <4>2. ASSUME i <= m, NEW j \in hits, j < i
            PROVE  rules[j].code = "n"
        <5>1. j \in 1 .. Len(rules) /\ ~ (m <= j)
          BY <1>4, <3>4, <4>1, <4>2
        <5> QED BY <3>3, <4>2, <5>1
      <4>3. ASSUME ~ (i <= m)
            PROVE  m < i
        <5>1. m \in 1 .. Len(rules)
          BY <3>4
        <5> QED BY ONLY <4>1, <4>3, <5>1
      <4> QED BY <1>3, <3>4, <4>2, <4>3
    <3>6. applied.at = {j \in hits : j <= m}
      BY <1>3, <3>5
    <3>7. stops = {m}
      <4>1. m \in stops
        <5>1. m <= m
          BY <3>2, <3>3
        <5>2. m \in applied.at
          BY <3>4, <3>6, <5>1
        <5> QED BY <1>3, <3>4, <5>2
      <4>2. ASSUME NEW i \in stops
            PROVE  i = m
        <5>1. i \in ends /\ i <= m /\ m <= i
          BY <1>3, <3>3, <3>6, <4>2
        <5> QED BY <3>2, <3>3, <5>1
      <4> QED BY <4>1, <4>2
    <3>8. Min(stops) = m
      <4>1. {m} \in SUBSET Nat /\ {m} # {}
        BY <3>2, <3>3
      <4>2. Min({m}) \in {m}
        BY <4>1, MinOfPositions
      <4> QED BY <3>7, <4>2
    <3>9. answer = build_response(rules[m].code)
      BY <1>3, <3>7, <3>8
    <3>10. stop \in 0 .. Len(rules) /\ applied.at = {j \in hits : j <= stop}
      <4>1. m \in 0 .. Len(rules)
        <5>1. \A k \in 1 .. Len(rules) : k \in 0 .. Len(rules)
          OBVIOUS
        <5> HIDE DEF stop
        <5> QED BY <3>4, <5>1
      <4>2. stop = m
        BY <3>4
      <4> HIDE DEF stop
      <4> QED BY <3>6, <4>1, <4>2
    <3> HIDE DEF stops, answer, ends, stop
    <3> QED BY <2>0, <2>2, <3>1, <3>9, <3>10
  <2> QED BY <2>1, <2>2
<1> HIDE DEF ends, stop
<1> DEFINE after == CHOOSE f : f = [i \in 0 .. stop |->
                      IF i = 0 THEN y
                      ELSE IF i \in hits THEN apply_rule(f[i - 1], rules[i]) ELSE f[i - 1]]
           st == [i \in 1 .. stop |-> [t \in Session |->
                      IF i \in hits THEN apply_rule(t, rules[i]) ELSE t]]
<1>6. st \in [1 .. stop -> [Session -> Session]]
  <2> SUFFICES ASSUME NEW i \in 1 .. stop, NEW t \in Session, i \in hits
               PROVE  apply_rule(t, rules[i]) \in Session
    OBVIOUS
  <2>1. RuleTyped(rules[i])
    BY <1>4
  <2> QED BY <2>1, ApplyRule DEF Ran
<1>7. PICK g \in [0 .. stop -> Session] : Follows(g, stop, y, st)
  <2>1. stop \in Nat
    BY <1>5
  <2> HIDE DEF st
  <2> QED BY <1>1, <1>6, <2>1, RecursionExists
<1>8. g = [i \in 0 .. stop |->
             IF i = 0 THEN y
             ELSE IF i \in hits THEN apply_rule(g[i - 1], rules[i]) ELSE g[i - 1]]
  <2> DEFINE Value(i) == IF i \in hits THEN apply_rule(g[i - 1], rules[i]) ELSE g[i - 1]
  <2>1. ASSUME NEW i \in 0 .. stop, i # 0
        PROVE  g[i] = Value(i)
    <3>1. i \in 1 .. stop /\ i - 1 \in 0 .. stop
      BY <1>5, <2>1
    <3>2. g[i - 1] \in Session
      BY <1>7, <3>1
    <3>3. g[i] = st[i][g[i - 1]]
      BY <1>7, <3>1 DEF Follows
    <3>4. st[i][g[i - 1]] = Value(i)
      BY <3>1, <3>2
    <3> QED BY <3>3, <3>4
  <2>2. g[0] = y
    BY <1>7 DEF Follows
  <2> HIDE DEF Value
  <2>3. g = [i \in 0 .. stop |-> IF i = 0 THEN y ELSE Value(i)]
    BY <1>7, <2>1, <2>2
  <2> QED BY <2>3 DEF Value
<1>9. after = [i \in 0 .. stop |->
             IF i = 0 THEN y
             ELSE IF i \in hits THEN apply_rule(after[i - 1], rules[i]) ELSE after[i - 1]]
  BY <1>8
<1>10. a = Reply(after[stop],
                 IF ends = {} THEN "none" ELSE build_response(rules[Min(ends)].code))
  BY DEF run_rules, RunsFor, after, y, hits, ends, stop
<1> HIDE DEF after
<1>11. Ran(y, after[stop], R(stop))
  <2> DEFINE P == {i \in 0 .. stop : Ran(y, after[i], R(i))}
  <2>1. stop \in Nat /\ P \in SUBSET Nat /\ stop \in 0 .. stop /\ 0 \in 0 .. stop
    BY <1>5
  <2>2. 0 \in P
    <3>1. \A j \in hits : ~ (j <= 0)
      BY <1>4
    <3>2. R(0) = {} /\ after[0] = y
      BY <1>9, <2>1, <3>1
    <3> HIDE DEF R
    <3> QED BY <1>1, <2>1, <3>2, RanNone
  <2>3. ASSUME NEW i \in 1 .. stop, i - 1 \in P
        PROVE  i \in P
    <3>1. i \in 0 .. stop /\ i # 0 /\ i - 1 \in 0 .. stop
      BY <1>5
    <3>2. after[i] = IF i \in hits THEN apply_rule(after[i - 1], rules[i]) ELSE after[i - 1]
      BY <1>9, <3>1
    <3>3. Ran(y, after[i - 1], R(i - 1))
      BY <2>3
    <3>4. \A j \in hits : j <= i <=> (j <= i - 1 \/ j = i)
      BY <1>4, <1>5
    <3>5. CASE i \in hits
      <4>1. R(i) = R(i - 1) \cup {rules[i]}
        BY <3>4, <3>5
      <4>2. RuleTyped(rules[i]) /\ \A r \in R(i - 1) : RuleTyped(r)
        BY <1>4, <3>5
      <4> HIDE DEF R
      <4>3. Ran(y, apply_rule(after[i - 1], rules[i]), R(i - 1) \cup {rules[i]})
        BY <1>1, <3>3, <4>2, RanOne
      <4> QED BY <3>1, <3>2, <3>5, <4>1, <4>3
    <3>6. CASE i \notin hits
      <4>1. R(i) = R(i - 1)
        BY <3>4, <3>6
      <4> HIDE DEF R
      <4> QED BY <3>1, <3>2, <3>3, <3>6, <4>1
    <3> QED BY <3>5, <3>6
  <2> HIDE DEF P
  <2>4. 0 .. stop \subseteq P
    BY <2>1, <2>2, <2>3, Stepwise
  <2> HIDE DEF R
  <2> QED BY <2>1, <2>4 DEF P
<1>12. R(stop) = {rules[i] : i \in applied.at}
  BY <1>5
<1>13. a.x = after[stop]
       /\ a.resp = IF ends = {} THEN "none" ELSE build_response(rules[Min(ends)].code)
  BY <1>10 DEF Reply
<1> HIDE DEF a, R
<1> QED BY <1>5, <1>11, <1>12, <1>13 DEF y, applied, a

\* run_rules answers, and leaves the messages and the recipients counted.
LEMMA RunRules ==
  ASSUME NEW s \in Session, NEW rules, NEW is_recip \in BOOLEAN, NEW address,
         Len(rules) \in Nat, DOMAIN rules = 1 .. Len(rules),
         \A i \in DOMAIN rules : RuleTyped(rules[i]),
         is_recip \/ address \in Sender
  PROVE  Kept(run_rules(s, rules, is_recip, address), s)
<1> DEFINE y == RunsFor(s, is_recip, address)
           a == run_rules(s, rules, is_recip, address)
<1>0. "none" \in Response
  BY DEF Response
<1>1. CASE s.loaded
  <2>1. \E R : Ran(y, a.x, R)
    BY <1>1, RunRulesApplies
  <2>2. \E applied : a.resp = AnswerOf(applied)
    BY <1>1, RunRulesApplies
  <2>3. a.resp \in Response
    BY <1>0, <2>2, BuildResponseType DEF AnswerOf
  <2>4. y.msg_count = s.msg_count /\ y.rcpt_count = s.rcpt_count
    BY RunsForType
  <2> HIDE DEF y, a
  <2>5. Kept(a, s)
    BY <2>1, <2>3, <2>4 DEF Ran, SameCounts, Kept
  <2> QED BY <2>5 DEF a
<1>2. CASE ~ s.loaded
  <2>1. a = [x |-> s, resp |-> "none"]
    BY <1>2 DEF run_rules, Reply
  <2> HIDE DEF a
  <2>2. Kept(a, s)
    BY <1>0, <2>1 DEF Kept
  <2> QED BY <2>2 DEF a
<1> QED BY <1>1, <1>2

RuleSeq == Seq({RuleFile[i] : i \in RuleLines})

LEMMA RuleSeqTyped ==
  ASSUME NEW rules \in RuleSeq
  PROVE  /\ Len(rules) \in Nat /\ DOMAIN rules = 1 .. Len(rules)
         /\ \A i \in DOMAIN rules : RuleTyped(rules[i])
<1>1. \A i \in RuleLines : RuleTyped(RuleFile[i])
  <2> SUFFICES ASSUME NEW i \in RuleLines PROVE RuleTyped(RuleFile[i])
    OBVIOUS
  <2>1. RuleFile[i].databytes \in Nat
    <3>1. RuleFile[i].databytes \in UnsignedLong
      BY MailrulesAssumption DEF IsRule
    <3>2. UnsignedLong \subseteq Nat
      BY DEF UnsignedLong, Unlimited
    <3> QED BY <3>1, <3>2
  <2>2. RuleFile[i].environment \in SUBSET Assignment
    BY DEF Assignment
  <2> QED BY <2>1, <2>2 DEF RuleTyped
<1>2. \A i \in DOMAIN rules : rules[i] \in {RuleFile[j] : j \in RuleLines}
  BY DEF RuleSeq
<1> QED BY <1>1, <1>2 DEF RuleSeq

LEMMA RulesType ==
  Rules.sender \in RuleSeq /\ Rules.recip \in RuleSeq /\ Rules.resp \in Response
<1> DEFINE n == Len(RuleFile)
           a0 == [selector |-> "none", sender |-> <<>>, recip |-> <<>>, resp |-> "none"]
           U == [selector : {"none", "sender", "recip"}, sender : RuleSeq, recip : RuleSeq,
                 resp : {"none", "temp"}]
           added(acc, l) == [acc EXCEPT ![TableOf(l, acc.selector)] = Append(@, l)]
           line(acc, l) ==
             CASE acc.resp # "none" -> acc
               [] l.code \in {":s", ":r"} ->
                    [acc EXCEPT !.selector = IF l.code = ":s" THEN "sender" ELSE "recip"]
               [] l.code = ":?" -> [acc EXCEPT !.resp = "temp"]
               [] l.code = "#" -> acc
               [] OTHER -> added(acc, l)
           after == CHOOSE f : f = [i \in 0 .. n |->
                      IF i = 0 THEN a0 ELSE line(f[i - 1], RuleFile[i])]
           st == [i \in 1 .. n |-> [acc \in U |-> line(acc, RuleFile[i])]]
<1>1. n \in Nat /\ DOMAIN RuleFile = 1 .. n
  BY MailrulesAssumption
<1>2. ASSUME NEW acc \in U, NEW i \in 1 .. n
      PROVE  line(acc, RuleFile[i]) \in U
  <2> DEFINE l == RuleFile[i]
  <2>1. CASE acc.resp # "none" \/ l.code = "#"
    BY <2>1
  <2>2. CASE acc.resp = "none" /\ l.code \in {":s", ":r"}
    BY <2>2
  <2>3. CASE acc.resp = "none" /\ l.code = ":?"
    BY <2>3
  <2>4. CASE acc.resp = "none" /\ l.code \notin {":s", ":r", ":?", "#"}
    <3>1. i \in RuleLines
      BY <1>1, <2>4 DEF RuleLines
    <3>2. Append(acc.sender, l) \in RuleSeq /\ Append(acc.recip, l) \in RuleSeq
      BY <3>1 DEF RuleSeq
    <3>3. TableOf(l, acc.selector) \in {"sender", "recip"}
      BY DEF TableOf
    <3>4. CASE TableOf(l, acc.selector) = "sender"
      <4>1. added(acc, l) = [acc EXCEPT !.sender = Append(@, l)]
        BY <3>4
      <4> QED BY <2>4, <3>2, <4>1
    <3>5. CASE TableOf(l, acc.selector) = "recip"
      <4>1. added(acc, l) = [acc EXCEPT !.recip = Append(@, l)]
        BY <3>5
      <4> QED BY <2>4, <3>2, <4>1
    <3> QED BY <3>3, <3>4, <3>5
  <2> QED BY <2>1, <2>2, <2>3, <2>4
<1>3. a0 \in U
  <2>1. <<>> \in RuleSeq
    BY DEF RuleSeq
  <2> QED BY <2>1
<1>4. Rules = after[n]
  BY DEF Rules, after
<1> HIDE DEF n, a0, line
<1>5. st \in [1 .. n -> [U -> U]]
  BY <1>2
<1>6. PICK g \in [0 .. n -> U] : Follows(g, n, a0, st)
  <2> HIDE DEF U, st
  <2> QED BY <1>1, <1>3, <1>5, RecursionExists
<1>7. g = [i \in 0 .. n |-> IF i = 0 THEN a0 ELSE line(g[i - 1], RuleFile[i])]
  <2>1. ASSUME NEW i \in 0 .. n, i # 0
        PROVE  g[i] = line(g[i - 1], RuleFile[i])
    <3>1. i \in 1 .. n /\ i - 1 \in 0 .. n
      BY <1>1, <2>1
    <3>2. g[i - 1] \in U
      BY <1>6, <3>1
    <3>3. g[i] = st[i][g[i - 1]]
      BY <1>6, <3>1 DEF Follows
    <3> HIDE DEF U
    <3> QED BY <3>1, <3>2, <3>3
  <2>2. g[0] = a0
    BY <1>6 DEF Follows
  <2> HIDE DEF U
  <2> QED BY <1>6, <2>1, <2>2
<1>8. after = [i \in 0 .. n |-> IF i = 0 THEN a0 ELSE line(after[i - 1], RuleFile[i])]
  BY <1>7
<1> HIDE DEF after
<1>9. after[n] \in U
  <2> DEFINE P == {i \in 0 .. n : after[i] \in U}
  <2>1. n \in Nat /\ P \in SUBSET Nat /\ n \in 0 .. n /\ 0 \in 0 .. n
    BY <1>1
  <2>2. after[0] = a0
    BY <1>8, <2>1
  <2>3. ASSUME NEW i \in 1 .. n, i - 1 \in P
        PROVE  i \in P
    <3>1. i \in 0 .. n /\ i # 0 /\ after[i - 1] \in U
      BY <1>1, <2>3
    <3>2. after[i] = line(after[i - 1], RuleFile[i])
      BY <1>8, <3>1
    <3> HIDE DEF U
    <3> QED BY <1>2, <3>1, <3>2
  <2>4. 0 \in P
    BY <1>3, <2>1, <2>2
  <2> HIDE DEF P
  <2>5. 0 .. n \subseteq P
    BY <2>1, <2>3, <2>4, Stepwise
  <2> HIDE DEF U
  <2> QED BY <2>1, <2>5 DEF P
<1> QED BY <1>4, <1>9 DEF Response

LEMMA MailrulesHooks ==
  ASSUME NEW s \in Session
  PROVE  /\ Kept(mailrules_init(s), s)
         /\ Kept(mailrules_reset(s), s)
         /\ \A address \in Sender : Kept(validate_sender(s, address), s)
         /\ \A address : Kept(validate_recipient(s, address), s)
<1>1. Kept(mailrules_init(s), s)
  <2> DEFINE t == [s EXCEPT !.loaded = TRUE]
  <2>1. t \in Session /\ t.msg_count = s.msg_count /\ t.rcpt_count = s.rcpt_count
    BY DEF Session
  <2>2. "none" \in Response /\ Rules.resp \in Response
    BY RulesType DEF Response
  <2> HIDE DEF t
  <2>3. mailrules_init(s) = IF "MAILRULES" \notin DOMAIN Environ THEN [x |-> s, resp |-> "none"]
                            ELSE [x |-> t, resp |-> Rules.resp]
    BY DEF mailrules_init, Reply, t
  <2> QED BY <2>1, <2>2, <2>3 DEF Kept
<1>2. Kept(mailrules_reset(s), s)
  <2> DEFINE t == session_resetenv(s)
             u == session_delnum(t, "maxdatabytes")
  <2>1. t \in Session /\ SameCounts(s, t)
    BY PutEnvType
  <2>2. u \in Session /\ SameCounts(t, u)
    BY <2>1, DelNumType
  <2>3. mailrules_reset(s) = [x |-> IF s.loaded THEN u ELSE s, resp |-> "none"]
    BY DEF mailrules_reset, Reply
  <2> HIDE DEF t, u
  <2> QED BY <2>1, <2>2, <2>3 DEF SameCounts, Kept, Response
<1>3. ASSUME NEW address \in Sender
      PROVE  Kept(validate_sender(s, address), s)
  <2>1. Rules.sender \in RuleSeq
    BY RulesType
  <2> QED BY <2>1, RuleSeqTyped, RunRules DEF validate_sender
<1>4. ASSUME NEW address
      PROVE  Kept(validate_recipient(s, address), s)
  <2>1. Rules.recip \in RuleSeq
    BY RulesType
  <2> QED BY <2>1, RuleSeqTyped, RunRules DEF validate_recipient
<1> QED BY <1>1, <1>2, <1>3, <1>4


(***************************************************************************)
(* MODULE_CALL along the chain: where every answer leads from G to G, so   *)
(* does the call; and where counters leads to H unless it refuses, and the *)
(* others stay there, a call that nobody ended was through counters.       *)
(***************************************************************************)
Outcome(G, R) == [x : G, resp : R, by : Plugin \cup {"none"}]

Outcomes(acc, p, hook) ==
  IF acc.by # "none" THEN {acc}
  ELSE {[x    |-> o.x,
         resp |-> MODULE_CALL(acc.resp, <<o.resp>>),
         by   |-> IF Ends(o.resp) THEN p ELSE "none"] : o \in answers(p, acc.x, hook)}

Stays(hook, G, R) ==
  \A p \in Plugin, s \in G : \A o \in answers(p, s, hook) : o.x \in G /\ o.resp \in R

Reaches(hook, G, H) ==
  /\ \A s \in G : \A o \in answers("counters", s, hook) : ~ Ends(o.resp) => o.x \in H
  /\ \A p \in Plugin \ {"counters"}, s \in G \cap H : \A o \in answers(p, s, hook) : o.x \in H

LEMMA OneAnswer ==
  ASSUME NEW resp, NEW r
  PROVE  MODULE_CALL(resp, <<r>>) = IF Ends(r) \/ resp = "none" THEN r ELSE resp
<1> DEFINE answer == <<r>>
           ending == {i \in DOMAIN answer : Ends(answer[i])}
           given  == {i \in DOMAIN answer : answer[i] # "none"}
<1>1. \A i \in DOMAIN answer : i = 1
  OBVIOUS
<1>2. answer[1] = r /\ 1 \in DOMAIN answer /\ ending \in SUBSET Nat /\ given \in SUBSET Nat
  BY <1>1
<1>3. ending # {} => Min(ending) = 1 /\ Ends(r)
  <2> SUFFICES ASSUME ending # {} PROVE Min(ending) = 1 /\ Ends(r)
    OBVIOUS
  <2>1. Min(ending) \in ending
    BY <1>2, MinOfPositions
  <2> QED BY <1>1, <1>2, <2>1
<1>4. given # {} => Min(given) = 1
  <2> SUFFICES ASSUME given # {} PROVE Min(given) = 1
    OBVIOUS
  <2>1. Min(given) \in given
    BY <1>2, MinOfPositions
  <2> QED BY <1>1, <2>1
<1>5. Ends(r) => ending # {}
  BY <1>2
<1>6. MODULE_CALL(resp, answer) =
        IF ending # {} THEN answer[Min(ending)]
        ELSE IF resp # "none" \/ given = {} THEN resp ELSE answer[Min(given)]
  BY DEF MODULE_CALL
<1>7. r # "none" <=> given # {}
  BY <1>1, <1>2
<1> HIDE DEF ending, given, answer
<1>8. CASE Ends(r)
  BY <1>2, <1>3, <1>5, <1>6, <1>8 DEF answer
<1>9. CASE ~ Ends(r) /\ resp # "none"
  BY <1>3, <1>6, <1>9 DEF answer
<1>10. CASE ~ Ends(r) /\ resp = "none"
  <2>1. MODULE_CALL(resp, answer) = IF given = {} THEN "none" ELSE answer[Min(given)]
    BY <1>3, <1>6, <1>10
  <2>2. MODULE_CALL(resp, answer) = r
    BY <1>2, <1>4, <1>7, <2>1
  <2> QED BY <1>10, <2>2 DEF answer
<1> QED BY <1>8, <1>9, <1>10 DEF answer

LEMMA OutcomesType ==
  ASSUME NEW hook, NEW G, NEW R, Stays(hook, G, R), NEW p \in Plugin, NEW acc \in Outcome(G, R)
  PROVE  Outcomes(acc, p, hook) \in SUBSET Outcome(G, R)
<1>1. CASE acc.by # "none"
  BY <1>1 DEF Outcomes
<1>2. CASE acc.by = "none"
  <2> SUFFICES ASSUME NEW o \in answers(p, acc.x, hook)
               PROVE  [x    |-> o.x,
                       resp |-> MODULE_CALL(acc.resp, <<o.resp>>),
                       by   |-> IF Ends(o.resp) THEN p ELSE "none"] \in Outcome(G, R)
    BY <1>2 DEF Outcomes
  <2>1. acc.x \in G /\ acc.resp \in R
    BY DEF Outcome
  <2>2. o.x \in G /\ o.resp \in R
    BY <2>1 DEF Stays
  <2>3. MODULE_CALL(acc.resp, <<o.resp>>) \in R
    BY <2>1, <2>2, OneAnswer
  <2> QED BY <2>2, <2>3 DEF Outcome
<1> QED BY <1>1, <1>2

\* The outcomes of a call after each plugin of the chain.
Steps(f, hook, y) ==
  /\ f[0] = {[x |-> y, resp |-> "none", by |-> "none"]}
  /\ \A i \in 1 .. Len(chain) : \A e \in f[i] :
       \E acc \in f[i - 1] : e \in Outcomes(acc, chain[i], hook)
  /\ Call(hook, y) = f[Len(chain)]

LEMMA CallSteps ==
  ASSUME NEW hook, NEW G, NEW R, NEW y \in G, "none" \in R, Stays(hook, G, R),
         chain \in Seq(Plugin)
  PROVE  \E f \in [0 .. Len(chain) -> SUBSET Outcome(G, R)] : Steps(f, hook, y)
<1> DEFINE n == Len(chain)
           U == SUBSET Outcome(G, R)
           a0 == {[x |-> y, resp |-> "none", by |-> "none"]}
           line(set, p) == UNION {Outcomes(acc, p, hook) : acc \in set}
           after == CHOOSE f : f = [i \in 0 .. n |->
                      IF i = 0 THEN a0 ELSE line(f[i - 1], chain[i])]
           st == [i \in 1 .. n |-> [set \in U |-> line(set, chain[i])]]
<1>1. n \in Nat /\ \A i \in 1 .. n : chain[i] \in Plugin
  OBVIOUS
<1>2. ASSUME NEW set \in U, NEW i \in 1 .. n
      PROVE  line(set, chain[i]) \in U
  BY <1>1, OutcomesType
<1>3. a0 \in U
  BY DEF Outcome
<1>4. Call(hook, y) = after[n]
  BY DEF Call, Outcomes, after
<1> HIDE DEF n, a0, line
<1>5. st \in [1 .. n -> [U -> U]]
  BY <1>2
<1>6. PICK g \in [0 .. n -> U] : Follows(g, n, a0, st)
  <2> HIDE DEF U, st
  <2> QED BY <1>1, <1>3, <1>5, RecursionExists
<1>7. g = [i \in 0 .. n |-> IF i = 0 THEN a0 ELSE line(g[i - 1], chain[i])]
  <2>1. ASSUME NEW i \in 0 .. n, i # 0
        PROVE  g[i] = line(g[i - 1], chain[i])
    <3>1. i \in 1 .. n /\ i - 1 \in 0 .. n
      BY <1>1, <2>1
    <3>2. g[i - 1] \in U
      BY <1>6, <3>1
    <3>3. g[i] = st[i][g[i - 1]]
      BY <1>6, <3>1 DEF Follows
    <3> HIDE DEF U
    <3> QED BY <3>1, <3>2, <3>3
  <2>2. g[0] = a0
    BY <1>6 DEF Follows
  <2> HIDE DEF U
  <2> QED BY <1>6, <2>1, <2>2
<1>8. after = [i \in 0 .. n |-> IF i = 0 THEN a0 ELSE line(after[i - 1], chain[i])]
  BY <1>7
<1> HIDE DEF after
<1>9. after[0] = a0 /\ \A i \in 1 .. n : after[i] = line(after[i - 1], chain[i])
  <2>1. 0 \in 0 .. n /\ \A i \in 1 .. n : i \in 0 .. n /\ i # 0
    BY <1>1
  <2> QED BY <1>8, <2>1
<1>10. 0 .. n \subseteq {i \in 0 .. n : after[i] \in U}
  <2> DEFINE P == {i \in 0 .. n : after[i] \in U}
  <2>1. P \in SUBSET Nat /\ 0 \in 0 .. n
    BY <1>1
  <2>2. ASSUME NEW i \in 1 .. n, i - 1 \in P
        PROVE  i \in P
    <3>1. i \in 0 .. n /\ after[i - 1] \in U
      BY <1>1, <2>2
    <3> HIDE DEF U
    <3> QED BY <1>2, <1>9, <3>1
  <2>3. 0 \in P
    BY <1>3, <1>9, <2>1
  <2> HIDE DEF P
  <2>4. 0 .. n \subseteq P
    BY <1>1, <2>1, <2>2, <2>3, Stepwise
  <2> QED BY <2>4 DEF P
<1>11. after \in [0 .. n -> U]
  <2> HIDE DEF U
  <2> QED BY <1>8, <1>10
<1>12. \A i \in 1 .. n : \A e \in after[i] :
         \E acc \in after[i - 1] : e \in Outcomes(acc, chain[i], hook)
  BY <1>9 DEF line
<1> QED BY <1>4, <1>9, <1>11, <1>12 DEF n, a0, Steps

LEMMA CallStays ==
  ASSUME NEW hook, NEW G, NEW R, NEW y \in G, "none" \in R, Stays(hook, G, R),
         chain \in Seq(Plugin)
  PROVE  \A o \in Call(hook, y) : o.x \in G /\ o.resp \in R
<1>1. Call(hook, y) \in SUBSET Outcome(G, R)
  <2>1. Len(chain) \in 0 .. Len(chain)
    OBVIOUS
  <2> QED BY <2>1, CallSteps DEF Steps
<1> QED BY <1>1 DEF Outcome

\* What one more plugin makes of an outcome.
LEMMA OneMore ==
  ASSUME NEW hook, NEW p, NEW acc, NEW e \in Outcomes(acc, p, hook)
  PROVE  \/ acc.by # "none" /\ e = acc
         \/ acc.by = "none" /\ \E o \in answers(p, acc.x, hook) :
              /\ e.x = o.x
              /\ Ends(o.resp) => e.resp = o.resp /\ e.by = p
              /\ ~ Ends(o.resp) =>
                   e.by = "none" /\ e.resp = IF acc.resp # "none" THEN acc.resp ELSE o.resp
<1>1. CASE acc.by # "none"
  BY <1>1 DEF Outcomes
<1>2. CASE acc.by = "none"
  <2>1. PICK o \in answers(p, acc.x, hook) :
          e = [x    |-> o.x,
               resp |-> MODULE_CALL(acc.resp, <<o.resp>>),
               by   |-> IF Ends(o.resp) THEN p ELSE "none"]
    BY <1>2 DEF Outcomes
  <2> QED BY <1>2, <2>1, OneAnswer
<1> QED BY <1>1, <1>2

\* What each plugin leads to from the one before, the call leads to.
LEMMA CallAlong ==
  ASSUME NEW hook, NEW G, NEW R, NEW y \in G, "none" \in R, Stays(hook, G, R),
         chain \in Seq(Plugin), NEW J,
         [x |-> y, resp |-> "none", by |-> "none"] \in J[0],
         \A i \in 1 .. Len(chain) : \A acc \in Outcome(G, R) : acc \in J[i - 1] =>
           \A e \in Outcomes(acc, chain[i], hook) : e \in J[i]
  PROVE  \A o \in Call(hook, y) : o \in Outcome(G, R) /\ o \in J[Len(chain)]
<1> DEFINE n == Len(chain)
<1>1. n \in Nat
  OBVIOUS
<1>2. \E f \in [0 .. Len(chain) -> SUBSET Outcome(G, R)] : Steps(f, hook, y)
  BY CallSteps
<1>3. PICK f \in [0 .. n -> SUBSET Outcome(G, R)] :
        /\ f[0] = {[x |-> y, resp |-> "none", by |-> "none"]}
        /\ \A i \in 1 .. n : \A e \in f[i] :
             \E acc \in f[i - 1] : e \in Outcomes(acc, chain[i], hook)
        /\ Call(hook, y) = f[n]
  BY <1>2 DEF Steps
<1> HIDE DEF n
<1> DEFINE P == {i \in 0 .. n : \A acc \in f[i] : acc \in J[i]}
<1>4. 0 \in P /\ P \in SUBSET Nat /\ n \in 0 .. n
  BY <1>1, <1>3
<1>5. ASSUME NEW i \in 1 .. n, i - 1 \in P
      PROVE  i \in P
  <2>1. i \in 0 .. n /\ i - 1 \in 0 .. n
    BY <1>1
  <2>2. ASSUME NEW e \in f[i]
        PROVE  e \in J[i]
    <3>1. PICK acc \in f[i - 1] : e \in Outcomes(acc, chain[i], hook)
      BY <1>3
    <3>2. acc \in Outcome(G, R)
      BY <1>3, <2>1
    <3>3. acc \in J[i - 1]
      BY <1>5
    <3> QED BY <3>1, <3>2, <3>3 DEF n
  <2> QED BY <2>1, <2>2
<1> HIDE DEF P
<1>6. 0 .. n \subseteq P
  BY <1>1, <1>4, <1>5, Stepwise
<1>7. \A o \in f[n] : o \in Outcome(G, R) /\ o \in J[n]
  <2>1. n \in P
    BY <1>4, <1>6
  <2> QED BY <1>3, <1>4, <2>1 DEF P
<1> QED BY <1>3, <1>7 DEF n

(***************************************************************************)
(* Leads: the k-th plugin leads to H, the plugins before it end the call   *)
(* with an answer of E only, and nobody leaves H again.                    *)
(***************************************************************************)
Leads(hook, G, H, E, k) ==
  /\ k \in 1 .. Len(chain)
  /\ \A i \in 1 .. Len(chain), s \in G : \A o \in answers(chain[i], s, hook) :
       /\ (i <= k \/ s \in H) /\ Ends(o.resp) => o.x \in H \/ o.resp \in E
       /\ (i = k \/ s \in H) /\ ~ Ends(o.resp) => o.x \in H

LEMMA CallThrough ==
  ASSUME NEW hook, NEW G, NEW R, NEW H, NEW E, NEW k, NEW y \in G, "none" \in R,
         Stays(hook, G, R), chain \in Seq(Plugin), Leads(hook, G, H, E, k)
  PROVE  \A o \in Call(hook, y) : o.x \in H \/ (Ends(o.resp) /\ o.resp \in E)
<1> DEFINE n == Len(chain)
           Good(acc, i) == /\ acc.by # "none" => acc.x \in H \/ (Ends(acc.resp) /\ acc.resp \in E)
                           /\ acc.by = "none" /\ k <= i => acc.x \in H
           J == [i \in 0 .. n |-> {acc \in Outcome(G, R) : Good(acc, i)}]
<1>1. n \in Nat /\ k \in 1 .. n /\ n \in 0 .. n /\ 0 \in 0 .. n
  BY DEF Leads
<1> HIDE DEF n
<1>2. [x |-> y, resp |-> "none", by |-> "none"] \in J[0]
  <2>1. ~ (k <= 0)
    BY <1>1
  <2> QED BY <1>1, <2>1 DEF Outcome
<1>3. ASSUME NEW i \in 1 .. n, NEW acc \in Outcome(G, R), acc \in J[i - 1],
             NEW e \in Outcomes(acc, chain[i], hook)
      PROVE  e \in J[i]
  <2>1. i \in 0 .. n /\ i - 1 \in 0 .. n /\ (k <= i <=> (k = i \/ k <= i - 1)) /\ (i <= k \/ k <= i - 1)
    BY <1>1
  <2>2. Good(acc, i - 1) /\ acc.x \in G
    BY <1>3, <2>1 DEF Outcome
  <2>3. chain[i] \in Plugin /\ chain[i] # "none"
    BY PluginsAssumption DEF n
  <2>4. e \in Outcome(G, R)
    BY <2>3, OutcomesType
  <2>5. Good(e, i)
    <3>1. CASE acc.by # "none"
      <4>1. e = acc
        BY <3>1, OneMore
      <4> QED BY <2>2, <3>1, <4>1
    <3>2. CASE acc.by = "none"
      <4>1. PICK o \in answers(chain[i], acc.x, hook) :
              /\ e.x = o.x
              /\ Ends(o.resp) => e.resp = o.resp /\ e.by = chain[i]
              /\ ~ Ends(o.resp) => e.by = "none"
        BY <3>2, OneMore
      <4>2. /\ (i <= k \/ acc.x \in H) /\ Ends(o.resp) => o.x \in H \/ o.resp \in E
            /\ (i = k \/ acc.x \in H) /\ ~ Ends(o.resp) => o.x \in H
        BY <2>2, <4>1 DEF Leads, n
      <4>3. k <= i - 1 => acc.x \in H
        BY <2>2, <3>2
      <4> QED BY <2>1, <2>3, <4>1, <4>2, <4>3
    <3> QED BY <3>1, <3>2
  <2> HIDE DEF Good
  <2> QED BY <2>1, <2>4, <2>5
<1> HIDE DEF J
<1>4. \A o \in Call(hook, y) : o \in J[n]
  BY <1>2, <1>3, CallAlong DEF n
<1>5. k <= n
  BY <1>1
<1> QED BY <1>1, <1>4, <1>5 DEF J

(***************************************************************************)
(* NoScriptBefore: p is in the list, and no script ("lua", the one plugin  *)
(* but mailrules that may answer for good) is in front of it.              *)
(***************************************************************************)
NoScriptBefore(c, p) == \E k \in 1 .. Len(c) : c[k] = p /\ \A i \in 1 .. k - 1 : c[i] # "lua"
HasCounters(c) == \E i \in 1 .. Len(c) : c[i] = "counters"

LEMMA CallReaches ==
  ASSUME NEW hook, NEW G, NEW R, NEW H, NEW y \in G, "none" \in R, Stays(hook, G, R),
         Reaches(hook, G, H), chain \in Seq(Plugin), \E j \in 1 .. Len(chain) : chain[j] = "counters"
  PROVE  \A o \in Call(hook, y) : ~ Ends(o.resp) => o.x \in H
<1>1. PICK k \in 1 .. Len(chain) : chain[k] = "counters"
  OBVIOUS
<1> DEFINE E == {r \in R : Ends(r)}
<1>2. Leads(hook, G, H, E, k)
  <2> SUFFICES ASSUME NEW i \in 1 .. Len(chain), NEW s \in G,
                      NEW o \in answers(chain[i], s, hook)
               PROVE  /\ Ends(o.resp) => o.resp \in E
                      /\ (i = k \/ s \in H) /\ ~ Ends(o.resp) => o.x \in H
    BY DEF Leads
  <2>1. chain[i] \in Plugin
    OBVIOUS
  <2>2. o.resp \in R
    BY <2>1 DEF Stays
  <2>3. CASE chain[i] = "counters"
    BY <2>2, <2>3 DEF Reaches
  <2>4. CASE chain[i] # "counters"
    BY <1>1, <2>1, <2>2, <2>4 DEF Reaches
  <2> QED BY <2>3, <2>4
<1> HIDE DEF E
<1>3. \A o \in Call(hook, y) : o.x \in H \/ (Ends(o.resp) /\ o.resp \in E)
  BY <1>2, CallThrough
<1> QED BY <1>3

\* Counters leads to H, nobody else changes anything, and only a script
\* answers for good.
Hears(hook, G, H) ==
  \A p \in Plugin, s \in G : \A o \in answers(p, s, hook) :
    /\ p = "counters" => o.resp # "final" /\ (~ Ends(o.resp) => o.x \in H)
    /\ p # "counters" => o.x = s /\ (p # "lua" => o.resp # "final")

\* With no script in front of counters, a call that is not refused reaches H.
LEMMA CallHeard ==
  ASSUME NEW hook, NEW G, NEW H, NEW y \in G, Stays(hook, G, Response), chain \in Seq(Plugin),
         NoScriptBefore(chain, "counters"), Hears(hook, G, H)
  PROVE  \A o \in Call(hook, y) : response_ok(o.resp) => o.x \in H
<1>1. PICK k \in 1 .. Len(chain) :
        chain[k] = "counters" /\ \A i \in 1 .. k - 1 : chain[i] # "lua"
  BY DEF NoScriptBefore
<1> DEFINE E == {r \in Response : ~ response_ok(r)}
<1>2. Leads(hook, G, H, E, k)
  <2> SUFFICES ASSUME NEW i \in 1 .. Len(chain), NEW s \in G,
                      NEW o \in answers(chain[i], s, hook)
               PROVE  /\ (i <= k \/ s \in H) /\ Ends(o.resp) => o.x \in H \/ o.resp \in E
                      /\ (i = k \/ s \in H) /\ ~ Ends(o.resp) => o.x \in H
    BY DEF Leads
  <2>1. chain[i] \in Plugin
    OBVIOUS
  <2>2. o.resp \in Response
    BY <2>1 DEF Stays
  <2>3. Ends(o.resp) /\ o.resp # "final" => o.resp \in E
    BY <2>2 DEF Ends
  <2>4. CASE chain[i] = "counters"
    BY <2>1, <2>3, <2>4 DEF Hears
  <2>5. CASE chain[i] # "counters"
    <3>1. i <= k => i \in 1 .. k - 1
      BY <1>1, <2>5
    <3>2. i <= k => chain[i] # "lua"
      BY <1>1, <3>1
    <3>3. o.x = s /\ (chain[i] # "lua" => o.resp # "final")
      BY <2>1, <2>5 DEF Hears
    <3> HIDE DEF E
    <3> QED BY <1>1, <2>3, <2>5, <3>2, <3>3
  <2> QED BY <2>4, <2>5
<1>3. "none" \in Response
  BY DEF Response
<1>4. \A o \in Call(hook, y) : o.x \in H \/ (Ends(o.resp) /\ o.resp \in E)
  <2> HIDE DEF E
  <2> QED BY <1>2, <1>3, CallThrough
<1> QED BY <1>4

(***************************************************************************)
(* What each plugin may do with each hook.                                 *)
(***************************************************************************)
Mild == {"none", "ok", "temp", "perm"}

LEMMA MildAnswers ==
  "none" \in Mild /\ \A r \in Mild : Ends(r) <=> ~ response_ok(r)
BY DEF Mild, Ends, response_ok

LEMMA ReplyKept ==
  ASSUME NEW s \in Session, NEW r \in Response
  PROVE  Kept(Reply(s, r), s)
BY DEF Kept, Reply

LEMMA LuaKept ==
  ASSUME NEW s \in Session, NEW o \in LuaAnswers(s)
  PROVE  o.x = s /\ o.resp \in Response /\ Kept(o, s)
<1>1. o.x = s /\ o.resp \in Response
  BY DEF LuaAnswers, Reply
<1> QED BY <1>1 DEF Kept

LEMMA BuiltinsKept ==
  ASSUME NEW s \in Session
  PROVE  /\ Kept(Reply(s, "none"), s) /\ Kept(relayclient_recip(s), s)
         /\ Kept(require_auth(s), s) /\ Kept(reject(s), s) /\ Kept(acceptor(s), s)
<1>1. \A r \in {"none", "ok", "temp", "perm"} : Kept(Reply(s, r), s)
  BY ReplyKept DEF Response
<1> QED BY <1>1 DEF relayclient_recip, require_auth, reject, acceptor

LEMMA AnsweredKept ==
  ASSUME NEW s, NEW a, Answered(a, s)
  PROVE  Kept(a, s)
BY DEF Answered, Kept, SameCounts, Response

LEMMA ResetAnswers ==
  ASSUME NEW p, NEW s \in Session, NEW o \in answers(p, s, Hook("reset"))
  PROVE  o.x \in Session /\ o.x.msg_count = s.msg_count /\ o.resp \in Response
<1>1. o \in reset_hook(p, s)
  BY DEF answers, Hook
<1>2. CASE p = "counters"
  <2>1. o = counters_reset(s)
    BY <1>1, <1>2 DEF reset_hook
  <2> QED BY <2>1, CountersReset DEF Response
<1>3. CASE p = "mailrules"
  <2>1. o = mailrules_reset(s)
    BY <1>1, <1>3 DEF reset_hook
  <2> QED BY <2>1, MailrulesHooks DEF Kept
<1>4. CASE p \notin {"counters", "mailrules"}
  <2>1. o \in LuaAnswers(s) \/ o = Reply(s, "none")
    BY <1>1, <1>4 DEF reset_hook
  <2> QED BY <2>1, LuaKept, BuiltinsKept DEF Kept
<1> QED BY <1>2, <1>3, <1>4

LEMMA InitAnswers ==
  ASSUME NEW p, NEW s \in Session, NEW o \in answers(p, s, Hook("init"))
  PROVE  Kept(o, s)
<1>1. o \in other_hook(p, s, "init")
  BY DEF answers, Hook
<1>2. CASE p = "counters"
  <2>1. o = counters_init(s)
    BY <1>1, <1>2 DEF other_hook
  <2> QED BY <2>1, CountersInit, AnsweredKept
<1>3. CASE p = "mailrules"
  <2>1. o = mailrules_init(s)
    BY <1>1, <1>3 DEF other_hook
  <2> QED BY <2>1, MailrulesHooks
<1>4. CASE p \notin {"counters", "mailrules"}
  <2>1. o \in LuaAnswers(s) \cup {Reply(s, "none")}
    BY <1>1, <1>4 DEF other_hook
  <2> QED BY <2>1, LuaKept, BuiltinsKept
<1> QED BY <1>2, <1>3, <1>4

LEMMA SenderAnswers ==
  ASSUME NEW p, NEW s \in Session, NEW address \in Sender, NEW size,
         NEW o \in answers(p, s, SenderHook(address, size))
  PROVE  Kept(o, s)
<1>1. o \in sender_hook(p, s, address, size)
  BY DEF answers, SenderHook
<1>2. CASE p = "counters"
  <2>1. o = counters_sender(s, size)
    BY <1>1, <1>2 DEF sender_hook
  <2> QED BY <2>1, CountersSender, AnsweredKept
<1>3. CASE p = "mailrules"
  <2>1. o = validate_sender(s, address)
    BY <1>1, <1>3 DEF sender_hook
  <2> QED BY <2>1, MailrulesHooks
<1>4. CASE p \notin {"counters", "mailrules"}
  <2>1. o \in LuaAnswers(s) \cup {require_auth(s), reject(s), acceptor(s), Reply(s, "none")}
    BY <1>1, <1>4 DEF sender_hook
  <2> QED BY <2>1, LuaKept, BuiltinsKept
<1> QED BY <1>2, <1>3, <1>4

LEMMA RecipientAnswers ==
  ASSUME NEW p, NEW s \in Session, NEW address, NEW o \in answers(p, s, RecipientHook(address))
  PROVE  /\ p # "counters" => Kept(o, s)
         /\ p = "counters" => o = counters_recipient(s)
<1>1. o \in recipient_hook(p, s, address)
  BY DEF answers, RecipientHook
<1>2. CASE p = "counters"
  BY <1>1, <1>2 DEF recipient_hook
<1>3. CASE p = "mailrules"
  <2>1. o = validate_recipient(s, address)
    BY <1>1, <1>3 DEF recipient_hook
  <2> QED BY <1>3, <2>1, MailrulesHooks
<1>4. CASE p \notin {"counters", "mailrules"}
  <2>1. o \in LuaAnswers(s) \cup {relayclient_recip(s), acceptor(s), Reply(s, "none")}
    BY <1>1, <1>4 DEF recipient_hook
  <2> QED BY <1>4, <2>1, LuaKept, BuiltinsKept
<1> QED BY <1>2, <1>3, <1>4

\* The hooks of a message: no plugin but counters changes anything.
LEMMA BodyAnswers ==
  ASSUME NEW p, NEW s \in Session, NEW name \in {"data_start", "data_block", "message_end"},
         NEW o \in answers(p, s, Hook(name))
  PROVE  /\ p # "counters" => /\ o.x = s /\ o.resp \in Response
                              /\ p # "lua" => o.resp = "none"
                              /\ name = "data_block" => o.resp \in Mild
         /\ p = "counters" =>
              o = CASE name = "data_start"  -> counters_start(s)
                    [] name = "data_block"  -> counters_block(s, 1)
                    [] name = "message_end" -> counters_end(s)
<1>1. o \in other_hook(p, s, name)
  BY DEF answers, Hook
<1>2. CASE p = "counters"
  BY <1>1, <1>2 DEF other_hook
<1>3. CASE p # "counters"
  <2>1. CASE p = "lua"
    <3>1. o \in LuaAnswers(s) /\ (name = "data_block" => o.resp # "final")
      BY <1>1, <2>1 DEF other_hook
    <3>2. o.x = s /\ o.resp \in Response
      BY <3>1, LuaKept
    <3> QED BY <1>3, <2>1, <3>1, <3>2 DEF Response, Mild
  <2>2. CASE p # "lua"
    <3>1. o = Reply(s, "none")
      BY <1>1, <1>3, <2>2 DEF other_hook
    <3> QED BY <1>3, <3>1 DEF Reply, Response, Mild
  <2> QED BY <2>1, <2>2
<1> QED BY <1>2, <1>3


(***************************************************************************)
(* What the calls do to a session record in which at least m messages and  *)
(* k recipients are counted.                                               *)
(***************************************************************************)
AtLeast(m, k) == {s \in Session : m <= s.msg_count /\ k <= s.rcpt_count}

LEMMA KeptAtLeast ==
  ASSUME NEW m, NEW k, NEW s \in AtLeast(m, k), NEW a, Kept(a, s)
  PROVE  a.x \in AtLeast(m, k) /\ a.resp \in Response
BY DEF Kept, AtLeast

LEMMA NoneIsResponse == "none" \in Response
BY DEF Response

LEMMA ResetCall ==
  ASSUME NEW m \in Nat, NEW k \in Nat, NEW y \in AtLeast(m, k), chain \in Seq(Plugin)
  PROVE  \A o \in handle_reset(y) : o.x \in AtLeast(m, 0) /\ o.resp \in Response
<1>1. y \in AtLeast(m, 0)
  BY DEF AtLeast, Session
<1>2. Stays(Hook("reset"), AtLeast(m, 0), Response)
  <2> SUFFICES ASSUME NEW p \in Plugin, NEW s \in AtLeast(m, 0),
                      NEW o \in answers(p, s, Hook("reset"))
               PROVE  o.x \in AtLeast(m, 0) /\ o.resp \in Response
    BY DEF Stays
  <2>1. s \in Session
    BY DEF AtLeast
  <2>2. o.x \in Session /\ o.x.msg_count = s.msg_count /\ o.resp \in Response
    BY <2>1, ResetAnswers
  <2> QED BY <2>2 DEF AtLeast, Session
<1> QED BY <1>1, <1>2, CallStays, NoneIsResponse DEF handle_reset

LEMMA InitCall ==
  ASSUME NEW m, NEW k, NEW y \in AtLeast(m, k), chain \in Seq(Plugin)
  PROVE  \A o \in Call(Hook("init"), y) : o.x \in AtLeast(m, k)
<1>1. Stays(Hook("init"), AtLeast(m, k), Response)
  <2> SUFFICES ASSUME NEW p \in Plugin, NEW s \in AtLeast(m, k),
                      NEW o \in answers(p, s, Hook("init"))
               PROVE  o.x \in AtLeast(m, k) /\ o.resp \in Response
    BY DEF Stays
  <2>1. s \in Session
    BY DEF AtLeast
  <2> QED BY <2>1, InitAnswers, KeptAtLeast
<1> QED BY <1>1, CallStays, NoneIsResponse

LEMMA SenderCall ==
  ASSUME NEW m, NEW k, NEW y \in AtLeast(m, k), chain \in Seq(Plugin),
         NEW address \in Sender, NEW size
  PROVE  \A o \in Call(SenderHook(address, size), y) : o.x \in AtLeast(m, k)
<1> DEFINE hook == SenderHook(address, size)
<1>1. Stays(hook, AtLeast(m, k), Response)
  <2> SUFFICES ASSUME NEW p \in Plugin, NEW s \in AtLeast(m, k), NEW o \in answers(p, s, hook)
               PROVE  o.x \in AtLeast(m, k) /\ o.resp \in Response
    BY DEF Stays
  <2>1. s \in Session
    BY DEF AtLeast
  <2> QED BY <2>1, SenderAnswers, KeptAtLeast
<1> HIDE DEF hook
<1>2. \A o \in Call(hook, y) : o.x \in AtLeast(m, k)
  BY <1>1, CallStays, NoneIsResponse
<1> QED BY <1>2 DEF hook

BelowRecipients(s) ==
  0 \notin OfProcess("MAXRCPTS") => \A e \in OfProcess("MAXRCPTS") : s.rcpt_count <= e

LEMMA RecipientCall ==
  ASSUME NEW m \in Nat, NEW k \in Nat, NEW y \in AtLeast(m, k), chain \in Seq(Plugin),
         NEW address
  PROVE  /\ \A o \in Call(RecipientHook(address), y) : o.x \in AtLeast(m, k)
         /\ HasCounters(chain) =>
              \A o \in Call(RecipientHook(address), y) :
                Accepts(o) => o.x \in AtLeast(m, k + 1) /\ BelowRecipients(o.x)
<1> DEFINE hook == RecipientHook(address)
           G == AtLeast(m, k)
           H == {s \in AtLeast(m, k + 1) : BelowRecipients(s)}
<1>1. ASSUME NEW s \in G
      PROVE  LET a == counters_recipient(s)
             IN  /\ a.x \in AtLeast(m, k + 1) /\ a.x \in G /\ a.resp \in Response
                 /\ response_ok(a.resp) => ~ Ends(a.resp) /\ a.x \in H
  <2> DEFINE a == counters_recipient(s)
  <2>1. s \in Session /\ m <= s.msg_count /\ k <= s.rcpt_count
        /\ s.msg_count \in Nat /\ s.rcpt_count \in Nat
    BY DEF AtLeast, Session
  <2>2. /\ a.x \in Session /\ a.x.msg_count = s.msg_count /\ a.resp \in {"none", "perm"}
        /\ a.x.rcpt_count = s.rcpt_count + 1
        /\ \A e \in OfProcess("MAXRCPTS") \ {0} : a.resp = "none" => a.x.rcpt_count <= e
    BY <2>1, CountersRecipient
  <2> HIDE DEF a
  <2>3. a.x \in AtLeast(m, k + 1) /\ a.x \in AtLeast(m, k) /\ a.resp \in Response
    BY <2>1, <2>2 DEF AtLeast, Response
  <2>4. response_ok(a.resp) => a.resp = "none" /\ ~ Ends(a.resp)
    BY <2>2 DEF Ends, response_ok
  <2>5. response_ok(a.resp) => BelowRecipients(a.x)
    BY <2>2, <2>4 DEF BelowRecipients
  <2> QED BY <2>3, <2>4, <2>5 DEF a
<1>2. Stays(hook, G, Response)
  <2> SUFFICES ASSUME NEW p \in Plugin, NEW s \in G, NEW o \in answers(p, s, hook)
               PROVE  o.x \in G /\ o.resp \in Response
    BY DEF Stays
  <2>1. s \in Session
    BY DEF AtLeast
  <2>2. (p # "counters" => Kept(o, s)) /\ (p = "counters" => o = counters_recipient(s))
    BY <2>1, RecipientAnswers
  <2> QED BY <1>1, <2>2, KeptAtLeast
<1>3. ASSUME NEW p, NEW s \in G, NEW o \in answers(p, s, hook)
      PROVE  /\ p = "counters" /\ response_ok(o.resp) => ~ Ends(o.resp) /\ o.x \in H
             /\ p # "counters" /\ s \in H => o.x \in H
  <2>0. s \in Session
    BY DEF AtLeast
  <2>1. ASSUME p = "counters", response_ok(o.resp)
        PROVE  ~ Ends(o.resp) /\ o.x \in H
    <3>2. o = counters_recipient(s)
      BY <2>0, <2>1, RecipientAnswers
    <3> QED BY <1>1, <2>1, <3>2
  <2>2. ASSUME p # "counters", s \in H
        PROVE  o.x \in H
    <3>1. s \in AtLeast(m, k + 1) /\ BelowRecipients(s)
      BY <2>2
    <3>2. Kept(o, s)
      BY <2>0, <2>2, RecipientAnswers
    <3>3. o.x \in AtLeast(m, k + 1)
      BY <3>1, <3>2, KeptAtLeast
    <3>4. BelowRecipients(o.x)
      BY <3>1, <3>2 DEF Kept, BelowRecipients
    <3> QED BY <3>3, <3>4
  <2> QED BY <2>1, <2>2
<1> HIDE DEF hook
<1>4. \A o \in Call(hook, y) : o.x \in G
  BY <1>2, CallStays, NoneIsResponse
<1>5. ASSUME HasCounters(chain)
      PROVE  \A o \in Call(hook, y) : Accepts(o) => o.x \in H
  <2> DEFINE n == Len(chain)
             up == UpTo(chain, "counters")
             None(i) == \A j \in 1 .. i : chain[j] # "counters"
             Good(acc, i) ==
               /\ acc.by # "none" => acc.x \in H \/ ~ response_ok(acc.resp) \/ acc.by \in up
               /\ acc.by = "none" /\ ~ None(i) => acc.x \in H
             J == [i \in 0 .. n |-> {acc \in Outcome(G, Response) : Good(acc, i)}]
  <2>1. n \in Nat /\ n \in 0 .. n /\ 0 \in 0 .. n /\ None(0) /\ ~ None(n) /\ DOMAIN chain = 1 .. n
    BY <1>5 DEF HasCounters
  <2>2. ASSUME NEW i \in 1 .. n
        PROVE  /\ None(i - 1) => chain[i] \in up
               /\ None(i) <=> None(i - 1) /\ chain[i] # "counters"
    <3>1. None(i - 1) => chain[i] \in up
      BY <2>1, <2>2 DEF UpTo
    <3>2. \A j \in 1 .. i : j = i \/ j \in 1 .. i - 1
      OBVIOUS
    <3>3. i \in 1 .. i /\ \A j \in 1 .. i - 1 : j \in 1 .. i
      OBVIOUS
    <3> QED BY <3>1, <3>2, <3>3
  <2> HIDE DEF n, up, None, G, H
  <2>3. y \in G
    BY DEF G
  <2>4. [x |-> y, resp |-> "none", by |-> "none"] \in J[0]
    BY <2>1, <2>3, NoneIsResponse DEF Outcome
  <2>5. ASSUME NEW i \in 1 .. n, NEW acc \in Outcome(G, Response), acc \in J[i - 1],
               NEW e \in Outcomes(acc, chain[i], hook)
        PROVE  e \in J[i]
    <3>1. i \in 0 .. n /\ i - 1 \in 0 .. n
      BY <2>1
    <3>2. Good(acc, i - 1) /\ acc.x \in G
      BY <2>5, <3>1 DEF Outcome
    <3>3. chain[i] \in Plugin /\ chain[i] # "none"
      BY PluginsAssumption DEF n
    <3>4. e \in Outcome(G, Response)
      BY <1>2, <3>3, NoneIsResponse, OutcomesType
    <3>5. Good(e, i)
      <4>1. CASE acc.by # "none"
        <5>1. e = acc
          BY <4>1, OneMore
        <5> QED BY <3>2, <4>1, <5>1
      <4>2. CASE acc.by = "none"
        <5>1. PICK o \in answers(chain[i], acc.x, hook) :
                /\ e.x = o.x
                /\ Ends(o.resp) => e.resp = o.resp /\ e.by = chain[i]
                /\ ~ Ends(o.resp) => e.by = "none"
          BY <4>2, OneMore
        <5>2. CASE chain[i] = "counters"
          <6>1. response_ok(o.resp) => ~ Ends(o.resp) /\ e.x \in H
            BY <1>3, <3>2, <5>1, <5>2
          <6>2. ~ Ends(o.resp) => response_ok(o.resp)
            BY DEF Ends
          <6> QED BY <3>3, <5>1, <6>1, <6>2
        <5>3. CASE chain[i] # "counters"
          <6>1. acc.x \in H => e.x \in H
            BY <1>3, <3>2, <5>1, <5>3
          <6>2. ~ None(i - 1) => acc.x \in H
            BY <3>2, <4>2
          <6> QED BY <2>2, <5>1, <5>3, <6>1, <6>2
        <5> QED BY <5>2, <5>3
      <4> QED BY <4>1, <4>2
    <3> HIDE DEF Good
    <3> QED BY <3>1, <3>4, <3>5
  <2> HIDE DEF J
  <2>6. \A o \in Call(hook, y) : o \in J[n]
    BY <1>2, <2>3, <2>4, <2>5, NoneIsResponse, CallAlong DEF n
  <2>7. \A o \in Call(hook, y) : Good(o, n)
    BY <2>1, <2>6 DEF J
  <2> QED BY <2>1, <2>7 DEF Accepts, up
<1> QED BY <1>4, <1>5 DEF hook


LEMMA StartCall ==
  ASSUME NEW m \in Nat, NEW k \in Nat, NEW y \in AtLeast(m, k), chain \in Seq(Plugin)
  PROVE  /\ \A o \in Call(Hook("data_start"), y) : o.x \in AtLeast(m, k)
         /\ NoScriptBefore(chain, "counters") /\ 0 \notin OfProcess("MAXMSGS") =>
              \A o \in Call(Hook("data_start"), y) : response_ok(o.resp) => BelowMax(o.x)
<1> DEFINE hook == Hook("data_start")
           G == AtLeast(m, k)
           H == {s \in G : BelowMax(s)}
<1>1. ASSUME NEW p, NEW s \in G, NEW o \in answers(p, s, hook)
      PROVE  /\ p # "counters" => /\ o.x = s /\ o.resp \in Response
                                  /\ p # "lua" => o.resp # "final"
             /\ p = "counters" => /\ o.x \in G /\ o.resp \in Response /\ o.resp # "final"
                                  /\ 0 \notin OfProcess("MAXMSGS") /\ ~ Ends(o.resp) => o.x \in H
  <2>1. s \in Session
    BY DEF AtLeast
  <2>2. /\ p # "counters" => /\ o.x = s /\ o.resp \in Response
                             /\ p # "lua" => o.resp = "none"
        /\ p = "counters" => o = counters_start(s)
    BY <2>1, BodyAnswers
  <2>3. CASE p # "counters"
    BY <2>2, <2>3
  <2>4. CASE p = "counters"
    <3>1. /\ o.x \in Session /\ o.x.msg_count = s.msg_count
          /\ o.x.rcpt_count = s.rcpt_count /\ o.resp \in {"none", "perm"}
          /\ 0 \notin OfProcess("MAXMSGS") /\ o.resp = "none" => BelowMax(o.x)
      BY <2>1, <2>2, <2>4, CountersStart
    <3>2. o.x \in G /\ o.resp \in Response /\ o.resp # "final"
      BY <3>1 DEF AtLeast, Response
    <3>3. ~ Ends(o.resp) => o.resp = "none"
      BY <3>1 DEF Ends, response_ok
    <3> HIDE DEF G
    <3> QED BY <2>4, <3>1, <3>2, <3>3
  <2> QED BY <2>3, <2>4
<1> HIDE DEF hook, G, H
<1>2. Stays(hook, G, Response)
  BY <1>1 DEF Stays
<1>3. \A o \in Call(hook, y) : o.x \in G
  BY <1>2, CallStays, NoneIsResponse DEF G
<1>4. ASSUME NoScriptBefore(chain, "counters"), 0 \notin OfProcess("MAXMSGS")
      PROVE  \A o \in Call(hook, y) : response_ok(o.resp) => o.x \in H
  <2>1. y \in G
    BY DEF G
  <2>2. Hears(hook, G, H)
    BY <1>1, <1>4 DEF Hears
  <2> QED BY <1>2, <1>4, <2>1, <2>2, CallHeard
<1> QED BY <1>3, <1>4 DEF hook, G, H

\* A block: b bytes are counted before.
LEMMA BlockCall ==
  ASSUME NEW m \in Nat, NEW k \in Nat, NEW b \in Nat,
         NEW y \in AtLeast(m, k), chain \in Seq(Plugin)
  PROVE  /\ \A o \in Call(Hook("data_block"), y) :
              o.x \in AtLeast(m, k) /\ o.x.msg_count = y.msg_count
         /\ HasCounters(chain) /\ b <= y.data_bytes =>
              \A o \in Call(Hook("data_block"), y) :
                response_ok(o.resp) => b + 1 <= o.x.data_bytes /\ o.x.data_bytes <= SizeOf(o.x)
<1> DEFINE hook == Hook("data_block")
           G == {s \in AtLeast(m, k) : s.msg_count = y.msg_count}
           F == {s \in G : b <= s.data_bytes}
           H == {s \in F : b + 1 <= s.data_bytes /\ s.data_bytes <= SizeOf(s)}
<1>1. ASSUME NEW p, NEW s \in G, NEW o \in answers(p, s, hook)
      PROVE  /\ p # "counters" => o.x = s /\ o.resp \in Mild
             /\ p = "counters" =>
                  /\ o.x \in G /\ o.resp \in Mild
                  /\ s \in F => o.x \in F /\ (~ Ends(o.resp) => o.x \in H)
  <2>1. s \in Session
    BY DEF AtLeast
  <2>2. /\ p # "counters" => o.x = s /\ o.resp \in Mild
        /\ p = "counters" => o = counters_block(s, 1)
    BY <2>1, BodyAnswers
  <2>3. CASE p # "counters"
    BY <2>2, <2>3
  <2>4. CASE p = "counters"
    <3>1. /\ o.x \in Session /\ o.x.msg_count = s.msg_count
          /\ o.x.rcpt_count = s.rcpt_count /\ o.resp \in {"none", "perm"}
          /\ o.x.data_bytes = s.data_bytes + 1
          /\ o.resp = "none" => o.x.data_bytes <= SizeOf(o.x)
      BY <2>1, <2>2, <2>4, CountersBlock
    <3>2. o.x \in G /\ o.resp \in Mild
      BY <3>1 DEF AtLeast, Mild
    <3>3. ~ Ends(o.resp) => o.resp = "none"
      BY <3>1 DEF Ends, response_ok
    <3>4. s \in F => b + 1 <= o.x.data_bytes /\ b <= o.x.data_bytes
      BY <2>1, <3>1 DEF Session
    <3> HIDE DEF G
    <3> QED BY <2>4, <3>1, <3>2, <3>3, <3>4
  <2> QED BY <2>3, <2>4
<1>2. F \subseteq G /\ y \in G /\ (b <= y.data_bytes => y \in F)
  OBVIOUS
<1> HIDE DEF hook, G, F, H
<1>3. Stays(hook, G, Mild)
  BY <1>1 DEF Stays
<1>4. \A o \in Call(hook, y) : o.x \in G /\ o.resp \in Mild
  BY <1>2, <1>3, CallStays, MildAnswers
<1>5. ASSUME HasCounters(chain), b <= y.data_bytes
      PROVE  \A o \in Call(hook, y) : ~ Ends(o.resp) => o.x \in H
  <2>1. Stays(hook, F, Mild)
    BY <1>1, <1>2 DEF Stays
  <2>2. Reaches(hook, F, H)
    BY <1>1, <1>2 DEF Reaches
  <2>3. y \in F
    BY <1>2, <1>5
  <2> QED BY <1>5, <2>1, <2>2, <2>3, CallReaches, MildAnswers DEF HasCounters
<1>6. \A o \in Call(hook, y) : response_ok(o.resp) => ~ Ends(o.resp)
  BY <1>4, MildAnswers
<1> QED BY <1>4, <1>5, <1>6 DEF hook, G, H

LEMMA EndCall ==
  ASSUME NEW m \in Nat, NEW k \in Nat, NEW y \in AtLeast(m, k), chain \in Seq(Plugin)
  PROVE  /\ \A o \in Call(Hook("message_end"), y) : o.x \in AtLeast(m, k)
         /\ NoScriptBefore(chain, "counters") =>
              \A o \in Call(Hook("message_end"), y) :
                response_ok(o.resp) => o.x \in AtLeast(m + 1, k)
<1> DEFINE hook == Hook("message_end")
           G == AtLeast(m, k)
           H == AtLeast(m + 1, k)
<1>1. ASSUME NEW p, NEW s \in G, NEW o \in answers(p, s, hook)
      PROVE  /\ p # "counters" => /\ o.x = s /\ o.resp \in Response
                                  /\ p # "lua" => o.resp # "final"
             /\ p = "counters" => /\ o.x \in G /\ o.resp \in Response /\ o.resp # "final"
                                  /\ ~ Ends(o.resp) => o.x \in H
  <2>1. s \in Session /\ s.msg_count \in Nat /\ m <= s.msg_count /\ k <= s.rcpt_count
    BY DEF AtLeast, Session
  <2>2. /\ p # "counters" => /\ o.x = s /\ o.resp \in Response
                             /\ p # "lua" => o.resp = "none"
        /\ p = "counters" => o = counters_end(s)
    BY <2>1, BodyAnswers
  <2>3. CASE p # "counters"
    BY <2>2, <2>3
  <2>4. CASE p = "counters"
    <3>1. /\ o.x \in Session /\ o.x.rcpt_count = s.rcpt_count
          /\ o.resp \in {"none", "perm"}
          /\ o.x.msg_count = IF o.resp = "none" THEN s.msg_count + 1 ELSE s.msg_count
      BY <2>1, <2>2, <2>4, CountersEnd
    <3>2. /\ o.resp \in Response /\ o.resp # "final"
          /\ ~ Ends(o.resp) => o.resp = "none"
      BY <3>1 DEF Ends, response_ok, Response
    <3>3. m <= o.x.msg_count /\ (o.resp = "none" => m + 1 <= o.x.msg_count)
      BY <2>1, <3>1
    <3> QED BY <2>1, <2>4, <3>1, <3>2, <3>3 DEF AtLeast
  <2> QED BY <2>3, <2>4
<1> HIDE DEF hook, G, H
<1>2. Stays(hook, G, Response)
  BY <1>1 DEF Stays
<1>3. \A o \in Call(hook, y) : o.x \in G
  BY <1>2, CallStays, NoneIsResponse DEF G
<1>4. ASSUME NoScriptBefore(chain, "counters")
      PROVE  \A o \in Call(hook, y) : response_ok(o.resp) => o.x \in H
  <2>1. y \in G
    BY DEF G
  <2>2. Hears(hook, G, H)
    BY <1>1, <1>4 DEF Hears
  <2> QED BY <1>2, <1>4, <2>1, <2>2, CallHeard
<1> QED BY <1>3, <1>4 DEF hook, G, H


(***************************************************************************)
(* The types.                                                              *)
(***************************************************************************)
Typed ==
  /\ Describes(modules, listed) /\ chain \in Seq(Plugin)
  /\ x \in Session /\ sent \in Nat /\ acks \in Nat
  /\ pc \in {"loading", "starting", "command", "body", "swallow", "closed"}

LEMMA AnySession == \A s : s \in Session <=> s \in AtLeast(0, 0)
BY DEF AtLeast, Session

LEMMA NewSession == session_init \in AtLeast(0, 0)
<1> DEFINE nothing == [name \in {} |-> 0]
<1>1. nothing \in Numbers
  <2>1. nothing \in [{} -> Nat \ {0}]
    OBVIOUS
  <2> HIDE DEF nothing
  <2> QED BY <2>1 DEF Numbers
<1> HIDE DEF nothing
<1>2. session_init = [env |-> {}, nums |-> nothing, rcpt_count |-> 0, msg_count |-> 0,
                      data_bytes |-> 0, loaded |-> FALSE, saved_sender |-> "none"]
  BY DEF session_init, nothing
<1>3. session_init \in Session
  BY <1>1, <1>2 DEF Session
<1> QED BY <1>3, AnySession

LEMMA Authenticated ==
  ASSUME NEW m, NEW k, NEW s \in AtLeast(m, k)
  PROVE  session_setnum(s, "authenticated", 1) \in AtLeast(m, k)
<1> DEFINE t == session_setnum(s, "authenticated", 1)
<1>1. 1 \in Nat \ {0} /\ s \in Session
  BY DEF AtLeast
<1>2. t \in Session /\ SameCounts(s, t)
  BY <1>1, SetNumType DEF NumberName
<1> QED BY <1>2 DEF AtLeast, SameCounts

LEMMA RefusedCall ==
  ASSUME NEW m \in Nat, NEW k \in Nat, NEW y \in AtLeast(m, k), chain \in Seq(Plugin), Refused(y)
  PROVE  /\ x' \in AtLeast(m, 0) /\ era'.took = 0
         /\ pc' = "command" /\ sent' = 0 /\ acks' = acks
<1>1. era'.took = 0
  BY DEF Refused, EraAfterReset, EraOf
<1> QED BY <1>1, ResetCall DEF Refused

LEMMA ListTyped ==
  ASSUME Typed, Next
  PROVE  /\ Describes(modules, listed)' /\ (chain \in Seq(Plugin))'
         /\ chain' # chain => ListStands
<1>1. ASSUME NEW d \in Directive \cup Range(Wrapped), Load(d)
      PROVE  Describes(modules, listed)' /\ chain' = chain
  <2>1. IsDirective(d)
    BY PluginsAssumption DEF Range
  <2>2. /\ modules' = load_add_plugin(modules, d) /\ listed' = ListedAfter(listed, d)
        /\ chain' = chain
    BY <1>1 DEF Load
  <2>3. Describes(load_add_plugin(modules, d), ListedAfter(listed, d))
    BY <2>1, LoadDescribes DEF Typed
  <2> QED BY <2>2, <2>3
<1>2. CASE ListStands
  <2>1. Walk(modules) = listed /\ listed \in Seq(Plugin)
    BY WalkIsList DEF Typed, Describes
  <2> QED BY <1>2, <2>1, NothingDescribes DEF ListStands
<1>3. CASE UNCHANGED Loaded
  BY <1>3 DEF Typed, Loaded
<1>4. CASE Start \/ HELO \/ RSET \/ AUTH \/ EndSwallowed
  BY <1>3, <1>4 DEF Start, HELO, RSET, AUTH, EndSwallowed
<1>5. ASSUME NEW a \in Sender, NEW size \in Size, MAIL(a, size) PROVE UNCHANGED Loaded
  BY <1>5 DEF MAIL
<1>6. ASSUME NEW a \in Recipient, RCPT(a) PROVE UNCHANGED Loaded
  BY <1>6 DEF RCPT
<1>7. CASE DATA \/ Block \/ End
  BY <1>3, <1>7 DEF DATA, Block, End
<1> QED BY <1>1, <1>2, <1>3, <1>4, <1>5, <1>6, <1>7 DEF Next, Typed


LEMMA TypedHolds == Spec => []Typed
<1>1. Init => Typed
  <2>1. Init => x \in Session
    BY NewSession, AnySession DEF Init
  <2>2. Init => chain \in Seq(Plugin)
    BY DEF Init
  <2> QED BY <2>1, <2>2, NothingDescribes DEF Init, Typed
<1>2. Typed /\ [Next]_vars => Typed'
  <2> SUFFICES ASSUME Typed, Next PROVE Typed'
    BY DEF Typed, vars
  <2> DEFINE Pcs == {"loading", "starting", "command", "body", "swallow", "closed"}
             Rest == (x \in Session)' /\ (sent \in Nat)' /\ (acks \in Nat)' /\ (pc \in Pcs)'
  <2>1. chain \in Seq(Plugin) /\ x \in Session /\ sent \in Nat /\ acks \in Nat /\ pc \in Pcs
    BY DEF Typed
  <2> SUFFICES Rest
    BY ListTyped DEF Typed
  <2>2. x \in AtLeast(0, 0) /\ 0 \in Nat
    BY <2>1, AnySession
  <2>3. ASSUME NEW y \in AtLeast(0, 0)
        PROVE  \A o \in handle_reset(y) : o.x \in AtLeast(0, 0)
    BY <2>1, <2>2, ResetCall
  <2>4. ASSUME NEW y \in AtLeast(0, 0), Refused(y)
        PROVE  Rest
    BY <2>1, <2>2, <2>4, RefusedCall, AnySession
  <2>5. ASSUME NEW d \in Directive \cup Range(Wrapped), Load(d)
        PROVE  Rest
    BY <2>1, <2>5 DEF Load
  <2>6. CASE ListStands \/ EndSwallowed
    BY <2>1, <2>6 DEF ListStands, EndSwallowed, Mailed
  <2>7. CASE Start
    <3>1. \A o \in Call(Hook("init"), x) : o.x \in Session
      BY <2>1, <2>2, InitCall, AnySession
    <3> QED BY <2>1, <2>7, <3>1 DEF Start
  <2>8. CASE HELO
    BY <2>1, <2>2, <2>3, <2>8, AnySession DEF HELO, Mailed
  <2>9. CASE RSET
    BY <2>1, <2>2, <2>3, <2>9, AnySession DEF RSET, Mailed
  <2>10. CASE AUTH
    BY <2>1, <2>2, <2>10, Authenticated, AnySession DEF AUTH, Mailed
  <2>11. ASSUME NEW a \in Sender, NEW size \in Size, MAIL(a, size)
         PROVE  Rest
    <3>1. PICK r \in handle_reset(x) : \E o \in Call(SenderHook(a, size), r.x) : x' = o.x
      BY <2>11 DEF MAIL
    <3>2. \A o \in Call(SenderHook(a, size), r.x) : o.x \in Session
      BY <2>1, <2>2, <2>3, SenderCall, AnySession
    <3> QED BY <2>1, <2>11, <3>1, <3>2 DEF MAIL, Mailed
  <2>12. ASSUME NEW a \in Recipient, RCPT(a)
         PROVE  Rest
    <3>1. \A o \in Call(RecipientHook(a), x) : o.x \in Session
      BY <2>1, <2>2, RecipientCall, AnySession
    <3>2. \E o \in Call(RecipientHook(a), x) : x' = o.x
      BY <2>12 DEF RCPT
    <3> QED BY <2>1, <2>12, <3>1, <3>2 DEF RCPT, Mailed
  <2>13. CASE DATA
    <3>1. \A o \in Call(Hook("data_start"), x) : o.x \in AtLeast(0, 0)
      BY <2>1, <2>2, StartCall
    <3> HIDE DEF Rest
    <3>2. CASE Refused(x)
      BY <2>2, <2>4, <3>2
    <3>3. ASSUME NEW o \in Call(Hook("data_start"), x), Refused(o.x) PROVE Rest
      BY <2>4, <3>1, <3>3
    <3>4. ASSUME NEW o \in Call(Hook("data_start"), x),
                 x' = o.x /\ pc' = "body" /\ sent' = 0 /\ UNCHANGED <<era, acks>>
          PROVE  Rest
      BY <2>1, <3>1, <3>4, AnySession DEF Rest
    <3> QED BY <2>13, <3>2, <3>3, <3>4 DEF DATA
  <2>14. CASE Block
    <3>1. PICK o \in Call(Hook("data_block"), x) :
            IF response_ok(o.resp)
            THEN x' = o.x /\ sent' = sent + 1 /\ UNCHANGED <<pc, era>>
            ELSE /\ \E r \in handle_reset(o.x) : x' = r.x
                 /\ pc' = "swallow" /\ sent' = 0 /\ era' = EraAfterReset
      BY <2>14 DEF Block
    <3>2. o.x \in AtLeast(0, 0)
      BY <2>1, <2>2, BlockCall
    <3>3. \A r \in handle_reset(o.x) : r.x \in Session
      BY <2>3, <3>2, AnySession
    <3>4. acks' = acks
      BY <2>14 DEF Block
    <3>5. (x \in Session)' /\ (sent \in Nat)' /\ (pc \in Pcs)'
      BY <2>1, <3>1, <3>2, <3>3, AnySession
    <3> QED BY <2>1, <3>4, <3>5
  <2>15. CASE End
    <3>1. \A o \in Call(Hook("message_end"), x) : o.x \in AtLeast(0, 0)
      BY <2>1, <2>2, EndCall
    <3> HIDE DEF Rest
    <3>2. ASSUME NEW o \in Call(Hook("message_end"), x), Refused(o.x) PROVE Rest
      BY <2>4, <3>1, <3>2
    <3>3. ASSUME NEW o \in Call(Hook("message_end"), x), x' = o.x, pc' = "command",
                 sent' = 0, acks' = acks + 1
          PROVE  Rest
      BY <2>1, <3>1, <3>3, AnySession DEF Rest
    <3> QED BY <2>15, <3>2, <3>3 DEF End
  <2> HIDE DEF Rest
  <2> QED
    BY <2>5, <2>6, <2>7, <2>8, <2>9, <2>10, <2>11, <2>12, <2>13, <2>14, <2>15 DEF Next
<1> QED BY <1>1, <1>2, PTL DEF Spec

(***************************************************************************)
(* ListAlwaysAsLoaded: for any plugins, command line and $PLUGINS, the     *)
(* pointers that load_add_plugin and its helpers leave behind are the list *)
(* that the directives ask for, in order, none twice, and the tail is its  *)
(* last plugin (modules.c).                                                *)
(***************************************************************************)
THEOREM ListAlwaysAsLoaded == Spec => []ListIsAsLoaded
<1>1. Typed => ListIsAsLoaded
  BY DescribesIsAsLoaded DEF Typed
<1> QED BY <1>1, TypedHolds, PTL

(***************************************************************************)
(* TypesHold: with any plugins, rules and environment, the ends of the     *)
(* list agree and no number that plugins share is ever zero, so that       *)
(* counters never takes a limit that a rule or variable set for none       *)
(* (session.c, plugin-counters.c minenv, plugin-mailrules.c apply_rule).   *)
(***************************************************************************)
THEOREM TypesHold == Spec => []TypeOK
<1>1. Typed => TypeOK
  <2> SUFFICES ASSUME Typed PROVE TypeOK
    OBVIOUS
  <2>1. \A n \in DOMAIN x.nums : x.nums[n] > 0
    <3>1. \A n \in DOMAIN x.nums : x.nums[n] \in Nat \ {0}
      BY NumbersAre DEF Typed, Session
    <3> QED BY <3>1
  <2>2. /\ {x.rcpt_count, x.msg_count, x.data_bytes, sent, acks} \subseteq Nat
        /\ x.saved_sender \in Sender \cup {"none"}
    BY DEF Typed, Session
  <2>3. (modules.head = Null) = (modules.tail = Null)
    <3>1. listed \in Seq(Plugin) /\ Linked(modules, listed)
      BY DEF Typed, Describes
    <3>2. CASE listed = <<>>
      BY <3>1, <3>2 DEF Linked
    <3>3. CASE listed # <<>>
      <4>1. listed[1] \in Plugin /\ listed[Len(listed)] \in Plugin
        BY <3>1, <3>3
      <4> QED BY <3>1, <3>3, <4>1, ModuleListAssumption DEF Linked
    <3> QED BY <3>2, <3>3
  <2> QED BY <2>1, <2>2, <2>3 DEF Typed, TypeOK
<1> QED BY <1>1, TypedHolds, PTL


(***************************************************************************)
(* The limits.  Counted is inductive: counters has counted at least the    *)
(* messages and the recipients that were accepted, and in a body its limit *)
(* of messages is not reached and its bytes are within the size limit.  A  *)
(* variable that is 0 sets no limit.  Counters hears of every message only *)
(* if no script in front of it answers for good.                           *)
(***************************************************************************)
HearsAll == \A c \in Chains : NoScriptBefore(c, "counters")
Heard(n) == IF HearsAll THEN n ELSE 0

LEMMA HeardType == \A n \in Nat : Heard(n) \in Nat
BY DEF Heard

MessagesCounted ==
  HearsAll /\ 0 \notin OfProcess("MAXMSGS") =>
    MessagesLimited /\ (pc = "body" => BelowMax(x))

RecipientsCounted == 0 \notin OfProcess("MAXRCPTS") => RecipientsLimited

BytesCounted == pc = "body" => sent <= x.data_bytes /\ sent <= SizeOf(x)

IsEra(e) ==
  e = [sender |-> e.sender, limits |-> e.limits, tried |-> e.tried, asked |-> e.asked,
       took |-> e.took, relays |-> e.relays]

Counted ==
  /\ pc # "loading" => HasCounters(chain) /\ (HearsAll => NoScriptBefore(chain, "counters"))
  /\ IsEra(era)
  /\ era.took \in Nat /\ x \in AtLeast(Heard(acks), era.took)
  /\ MessagesCounted /\ RecipientsCounted /\ BytesCounted

LEMMA LimitsArePositive ==
  /\ \A e \in OfProcess("MAXMSGS") \cup OfProcess("MAXRCPTS") : e \in Nat
  /\ \A s \in Session : SizeOf(s) \in Nat
<1>1. \A e \in OfProcess("MAXMSGS") \cup OfProcess("MAXRCPTS") : e \in Nat
  BY SessionStoreAssumption, SMTT(30) DEF OfProcess, UnsignedLong, Unlimited
<1>2. Unlimited \in Nat
  BY DEF Unlimited
<1>3. \A s \in Session : SizeOf(s) \in Nat
  BY <1>2, GetNumType DEF SizeOf
<1> QED BY <1>1, <1>3

\* Outside a body nothing but the counts of what was accepted matters.
LEMMA EraReset == IsEra(EraAfterReset) /\ IsEra(NewEra) /\ EraAfterReset.took = 0
  BY DEF EraAfterReset, NewEra, EraOf, IsEra

LEMMA CountedElsewhere ==
  ASSUME Typed, Counted, pc' # "body", acks' = acks, chain' = chain,
         pc = "loading" => pc' = "loading",
         IsEra(era'),
         \/ era'.took = 0 /\ x' \in AtLeast(Heard(acks), 0)
         \/ era'.took = era.took /\ x' \in AtLeast(Heard(acks), era.took)
  PROVE  Counted'
<1>1. pc' # "loading" => /\ HasCounters(chain')
                         /\ HearsAll => NoScriptBefore(chain', "counters")
  BY DEF Counted
<1>2. era'.took \in Nat /\ x' \in AtLeast(Heard(acks'), era'.took)
  BY DEF Counted
<1>3. MessagesCounted' /\ BytesCounted'
  BY DEF Counted, MessagesCounted, BytesCounted, MessagesLimited, OfProcess
<1>4. RecipientsCounted'
  <2>1. \A e \in OfProcess("MAXRCPTS") : 0 <= e
    BY LimitsArePositive
  <2> QED BY <2>1 DEF Counted, RecipientsCounted, RecipientsLimited, OfProcess
<1> QED BY <1>1, <1>2, <1>3, <1>4 DEF Counted

LEMMA CountedInit ==
  ASSUME Init
  PROVE  Counted
<1>1. /\ pc = "loading" /\ era.took = 0 /\ acks = 0 /\ x \in AtLeast(Heard(acks), 0)
      /\ IsEra(era)
  BY NewSession, EraReset DEF Init, NewEra, EraOf, Heard
<1>2. \A e \in OfProcess("MAXMSGS") \cup OfProcess("MAXRCPTS") : 0 <= e
  BY LimitsArePositive
<1> QED BY <1>1, <1>2
     DEF Counted, MessagesCounted, RecipientsCounted, BytesCounted, MessagesLimited,
         RecipientsLimited

LEMMA CountedRefused ==
  ASSUME Typed, Counted, pc # "loading", chain' = chain,
         NEW y \in AtLeast(Heard(acks), era.took), Refused(y)
  PROVE  Counted'
<1>1. Heard(acks) \in Nat /\ era.took \in Nat /\ chain \in Seq(Plugin)
  BY HeardType DEF Typed, Counted
<1>2. /\ x' \in AtLeast(Heard(acks), 0) /\ era'.took = 0
      /\ pc' = "command" /\ acks' = acks
  BY <1>1, RefusedCall
<1>3. IsEra(era')
  BY EraReset DEF Refused
<1> QED BY <1>2, <1>3, CountedElsewhere

LEMMA CountedCommand ==
  ASSUME Typed, Counted, Start \/ HELO \/ RSET \/ AUTH \/ EndSwallowed
  PROVE  Counted'
<1>1. /\ acks \in Nat /\ Heard(acks) \in Nat /\ era.took \in Nat /\ chain \in Seq(Plugin)
      /\ x \in AtLeast(Heard(acks), era.took) /\ IsEra(era)
  BY HeardType DEF Typed, Counted
<1>2. chain' = chain /\ acks' = acks /\ pc' # "body" /\ pc # "loading"
  BY DEF Start, HELO, RSET, AUTH, EndSwallowed, Loaded, Mailed
<1>3. CASE Start
  <2>1. \A o \in Call(Hook("init"), x) : o.x \in AtLeast(Heard(acks), era.took)
    BY <1>1, InitCall
  <2>2. x' \in AtLeast(Heard(acks), era.took) /\ era' = era
    BY <1>3, <2>1 DEF Start
  <2> QED BY <1>1, <1>2, <2>2, CountedElsewhere
<1>4. CASE HELO
  <2>1. \A o \in handle_reset(x) : o.x \in AtLeast(Heard(acks), 0)
    BY <1>1, ResetCall
  <2>2. x' \in AtLeast(Heard(acks), 0) /\ era'.took = 0 /\ IsEra(era')
    BY <1>4, <2>1, EraReset DEF HELO
  <2> QED BY <1>2, <2>2, CountedElsewhere
<1>5. CASE RSET
  <2>1. \A o \in handle_reset(x) : o.x \in AtLeast(Heard(acks), 0)
    BY <1>1, ResetCall
  <2>2. \A y \in AtLeast(Heard(acks), 0) : \A o \in handle_reset(y) : o.x \in AtLeast(Heard(acks), 0)
    BY <1>1, ResetCall
  <2>3. era'.took = 0 /\ IsEra(era')
    BY <1>5, EraReset DEF RSET
  <2>4. x' \in AtLeast(Heard(acks), 0)
    BY <1>5, <2>1, <2>2 DEF RSET
  <2> QED BY <1>2, <2>3, <2>4, CountedElsewhere
<1>6. CASE AUTH
  <2>1. x' \in AtLeast(Heard(acks), era.took) /\ era' = era
    BY <1>1, <1>6, Authenticated DEF AUTH
  <2> QED BY <1>1, <1>2, <2>1, CountedElsewhere
<1>7. CASE EndSwallowed
  <2>1. x' = x /\ era' = era
    BY <1>7 DEF EndSwallowed
  <2> QED BY <1>1, <1>2, <2>1, CountedElsewhere
<1> QED BY <1>3, <1>4, <1>5, <1>6, <1>7

LEMMA CountedMail ==
  ASSUME Typed, Counted, NEW a \in Sender, NEW size \in Size, MAIL(a, size)
  PROVE  Counted'
<1>1. /\ acks \in Nat /\ Heard(acks) \in Nat /\ era.took \in Nat /\ chain \in Seq(Plugin)
      /\ x \in AtLeast(Heard(acks), era.took) /\ IsEra(era)
  BY HeardType DEF Typed, Counted
<1>2. chain' = chain /\ acks' = acks /\ pc' # "body" /\ pc # "loading"
  BY DEF MAIL, Loaded, Mailed
<1>3. PICK r \in handle_reset(x) : \E o \in Call(SenderHook(a, size), r.x) : x' = o.x
  BY DEF MAIL
<1>4. r.x \in AtLeast(Heard(acks), 0)
  BY <1>1, ResetCall
<1>5. \A o \in Call(SenderHook(a, size), r.x) : o.x \in AtLeast(Heard(acks), 0)
  BY <1>1, <1>4, SenderCall
<1>6. era'.took = 0 /\ IsEra(era')
  BY DEF MAIL, NewEra, EraOf, IsEra
<1> QED BY <1>2, <1>3, <1>5, <1>6, CountedElsewhere

LEMMA CountedRcpt ==
  ASSUME Typed, Counted, NEW a \in Recipient, RCPT(a)
  PROVE  Counted'
<1>1. /\ acks \in Nat /\ Heard(acks) \in Nat /\ era.took \in Nat /\ chain \in Seq(Plugin)
      /\ x \in AtLeast(Heard(acks), era.took) /\ IsEra(era)
  BY HeardType DEF Typed, Counted
<1>2. chain' = chain /\ acks' = acks /\ pc' = "command" /\ pc = "command"
  BY DEF RCPT, Loaded, Mailed
<1>3. PICK o \in Call(RecipientHook(a), x) :
        /\ x' = o.x /\ IsEra(era')
        /\ era'.took = IF Accepts(o) THEN era.took + 1 ELSE era.took
  <2>1. PICK o \in Call(RecipientHook(a), x) :
          x' = o.x /\ era' = [era EXCEPT
                !.tried  = @ \cup LimitsOf(ForRecipient[era.sender][a]),
                !.limits = IF response_ok(o.resp) THEN @ \cup LimitsOf(ForRecipient[era.sender][a]) ELSE @,
                !.asked  = @ + 1,
                !.took   = IF Accepts(o) THEN @ + 1 ELSE @,
                !.relays = @ \/ Relays(ForRecipient[era.sender][a])]
    BY DEF RCPT
  <2> QED BY <1>1, <2>1 DEF IsEra
<1>4. o.x \in AtLeast(Heard(acks), era.took)
  BY <1>1, RecipientCall
<1>5. CASE ~ Accepts(o)
  BY <1>2, <1>3, <1>4, <1>5, CountedElsewhere
<1>6. CASE Accepts(o)
  <2>2. HasCounters(chain) /\ (HearsAll => NoScriptBefore(chain, "counters"))
    BY <1>2 DEF Counted
  <2>3. o.x \in AtLeast(Heard(acks), era.took + 1) /\ BelowRecipients(o.x)
    BY <1>1, <1>6, <2>2, RecipientCall
  <2>4. x' \in AtLeast(Heard(acks'), era'.took) /\ era'.took \in Nat /\ era'.took = era.took + 1
    BY <1>1, <1>2, <1>3, <1>6, <2>3
  <2>5. RecipientsCounted'
    <3>1. era.took + 1 <= x'.rcpt_count /\ x'.rcpt_count \in Nat
      BY <1>3, <2>3 DEF AtLeast, Session
    <3>2. \A e \in OfProcess("MAXRCPTS") : e \in Nat
      BY LimitsArePositive
    <3>3. 0 \notin OfProcess("MAXRCPTS") => \A e \in OfProcess("MAXRCPTS") : x'.rcpt_count <= e
      BY <1>3, <2>3 DEF BelowRecipients
    <3>4. 0 \notin OfProcess("MAXRCPTS") => \A e \in OfProcess("MAXRCPTS") : era'.took <= e
      BY <1>1, <2>4, <3>1, <3>2, <3>3
    <3> QED BY <3>4 DEF RecipientsCounted, RecipientsLimited, OfProcess
  <2>6. MessagesCounted' /\ BytesCounted'
    BY <1>2 DEF Counted, MessagesCounted, BytesCounted, MessagesLimited, OfProcess
  <2> QED BY <1>2, <1>3, <2>2, <2>4, <2>5, <2>6 DEF Counted
<1> QED BY <1>5, <1>6


LEMMA CountedData ==
  ASSUME Typed, Counted, DATA
  PROVE  Counted'
<1>1. /\ acks \in Nat /\ Heard(acks) \in Nat /\ era.took \in Nat /\ chain \in Seq(Plugin)
      /\ x \in AtLeast(Heard(acks), era.took) /\ IsEra(era)
  BY HeardType DEF Typed, Counted
<1>2. /\ chain' = chain /\ pc # "loading" /\ HasCounters(chain)
      /\ HearsAll => NoScriptBefore(chain, "counters")
  BY DEF DATA, Loaded, Counted
<1>3. \A o \in Call(Hook("data_start"), x) :
        /\ o.x \in AtLeast(Heard(acks), era.took)
        /\ HearsAll /\ 0 \notin OfProcess("MAXMSGS") /\ response_ok(o.resp) => BelowMax(o.x)
  BY <1>1, <1>2, StartCall
<1>4. CASE Refused(x)
  BY <1>1, <1>2, <1>4, CountedRefused
<1>5. ASSUME NEW o \in Call(Hook("data_start"), x), Refused(o.x)
      PROVE  Counted'
  BY <1>2, <1>3, <1>5, CountedRefused
<1>6. ASSUME NEW o \in Call(Hook("data_start"), x), response_ok(o.resp),
             x' = o.x, pc' = "body", sent' = 0, UNCHANGED <<era, acks>>
      PROVE  Counted'
  <2>1. x' \in AtLeast(Heard(acks'), era'.took) /\ era'.took \in Nat /\ IsEra(era')
    BY <1>1, <1>3, <1>6
  <2>2. RecipientsCounted'
    BY <1>6 DEF Counted, RecipientsCounted, RecipientsLimited, OfProcess
  <2>3. HearsAll /\ 0 \notin OfProcess("MAXMSGS") => MessagesLimited' /\ BelowMax(x')
    BY <1>3, <1>6 DEF Counted, MessagesCounted, MessagesLimited, OfProcess
  <2>4. BytesCounted'
    <3>1. o.x \in Session /\ o.x.data_bytes \in Nat
      BY <1>3 DEF AtLeast, Session
    <3>2. SizeOf(o.x) \in Nat
      BY <3>1, LimitsArePositive
    <3>3. sent' = 0 /\ 0 <= o.x.data_bytes /\ 0 <= SizeOf(o.x)
      BY <1>6, <3>1, <3>2
    <3>4. sent' <= x'.data_bytes /\ sent' <= SizeOf(x')
      BY <1>6, <3>3
    <3> QED BY <3>4 DEF BytesCounted, SizeOf, session_getnum, session_hasnum
  <2>5. MessagesCounted'
    BY <2>3 DEF MessagesCounted, BelowMax, OfProcess
  <2> QED BY <1>2, <2>1, <2>2, <2>4, <2>5 DEF Counted
<1> QED BY <1>4, <1>5, <1>6 DEF DATA

LEMMA CountedBlock ==
  ASSUME Typed, Counted, Block
  PROVE  Counted'
<1>1. /\ acks \in Nat /\ Heard(acks) \in Nat /\ era.took \in Nat /\ chain \in Seq(Plugin) /\ sent \in Nat
      /\ x \in AtLeast(Heard(acks), era.took) /\ IsEra(era)
  BY HeardType DEF Typed, Counted
<1>2. /\ chain' = chain /\ pc = "body" /\ HasCounters(chain) /\ acks' = acks
      /\ HearsAll => NoScriptBefore(chain, "counters")
  BY DEF Block, Loaded, Counted
<1>3. sent <= x.data_bytes
  BY <1>2 DEF Counted, BytesCounted
<1>4. \A o \in Call(Hook("data_block"), x) :
        /\ o.x \in AtLeast(Heard(acks), era.took) /\ o.x.msg_count = x.msg_count
        /\ response_ok(o.resp) => sent + 1 <= o.x.data_bytes /\ o.x.data_bytes <= SizeOf(o.x)
  BY <1>1, <1>2, <1>3, BlockCall
<1>5. ASSUME NEW o \in Call(Hook("data_block"), x), NEW r \in handle_reset(o.x), x' = r.x,
             pc' = "swallow", era' = EraAfterReset
      PROVE  Counted'
  <2>1. r.x \in AtLeast(Heard(acks), 0)
    BY <1>1, <1>4, ResetCall
  <2>2. era'.took = 0 /\ IsEra(era')
    BY <1>5, EraReset
  <2> QED BY <1>2, <1>5, <2>1, <2>2, CountedElsewhere
<1>6. ASSUME NEW o \in Call(Hook("data_block"), x), response_ok(o.resp),
             x' = o.x, sent' = sent + 1, UNCHANGED <<pc, era>>
      PROVE  Counted'
  <2>1. x' \in AtLeast(Heard(acks'), era'.took) /\ era'.took \in Nat /\ IsEra(era')
    BY <1>1, <1>2, <1>4, <1>6
  <2>2. RecipientsCounted'
    BY <1>6 DEF Counted, RecipientsCounted, RecipientsLimited, OfProcess
  <2>3. MessagesCounted'
    <3>1. HearsAll /\ 0 \notin OfProcess("MAXMSGS") => MessagesLimited /\ BelowMax(x)
      BY <1>2 DEF Counted, MessagesCounted
    <3>2. x'.msg_count = x.msg_count
      BY <1>4, <1>6
    <3> QED BY <1>2, <3>1, <3>2 DEF MessagesCounted, MessagesLimited, BelowMax, OfProcess
  <2>4. BytesCounted'
    <3>1. o.x \in Session /\ o.x.data_bytes \in Nat
      BY <1>4 DEF AtLeast, Session
    <3>2. SizeOf(o.x) \in Nat
      BY <3>1, LimitsArePositive
    <3>3. sent + 1 <= o.x.data_bytes /\ o.x.data_bytes <= SizeOf(o.x)
      BY <1>4, <1>6
    <3>4. sent + 1 <= SizeOf(o.x)
      BY <1>1, <3>1, <3>2, <3>3
    <3>5. sent' <= x'.data_bytes /\ sent' <= SizeOf(x')
      BY <1>6, <3>3, <3>4
    <3> QED BY <3>5 DEF BytesCounted, SizeOf, session_getnum, session_hasnum
  <2> QED BY <1>2, <2>1, <2>2, <2>3, <2>4 DEF Counted
<1> QED BY <1>5, <1>6 DEF Block

LEMMA CountedEnd ==
  ASSUME Typed, Counted, End
  PROVE  Counted'
<1>1. /\ acks \in Nat /\ Heard(acks) \in Nat /\ era.took \in Nat /\ chain \in Seq(Plugin)
      /\ x \in AtLeast(Heard(acks), era.took) /\ IsEra(era)
  BY HeardType DEF Typed, Counted
<1>2. /\ chain' = chain /\ pc = "body" /\ HasCounters(chain)
      /\ HearsAll => NoScriptBefore(chain, "counters")
  BY DEF End, Loaded, Counted
<1>3. \A o \in Call(Hook("message_end"), x) :
        /\ o.x \in AtLeast(Heard(acks), era.took)
        /\ HearsAll /\ response_ok(o.resp) => o.x \in AtLeast(Heard(acks) + 1, era.took)
  BY <1>1, <1>2, EndCall
<1>4. ASSUME NEW o \in Call(Hook("message_end"), x), Refused(o.x)
      PROVE  Counted'
  BY <1>2, <1>3, <1>4, CountedRefused
<1>5. ASSUME NEW o \in Call(Hook("message_end"), x), response_ok(o.resp),
             x' = o.x, pc' = "command", sent' = 0, acks' = acks + 1, era' = era
      PROVE  Counted'
  <2>1. x' \in AtLeast(Heard(acks'), era'.took) /\ era'.took \in Nat /\ IsEra(era')
    <3>1. HearsAll => Heard(acks) + 1 = Heard(acks + 1)
      BY DEF Heard
    <3>2. ~ HearsAll => Heard(acks) = Heard(acks + 1)
      BY DEF Heard
    <3>3. o.x \in AtLeast(Heard(acks + 1), era.took)
      BY <1>3, <1>5, <3>1, <3>2
    <3> QED BY <1>1, <1>5, <3>3
  <2>2. RecipientsCounted'
    BY <1>5 DEF Counted, RecipientsCounted, RecipientsLimited, OfProcess
  <2>3. BytesCounted'
    BY <1>5 DEF BytesCounted
  <2>4. MessagesCounted'
    <3>1. (HearsAll => acks <= x.msg_count) /\ x.msg_count \in Nat
      BY <1>1 DEF AtLeast, Session, Heard
    <3>2. ASSUME HearsAll, 0 \notin OfProcess("MAXMSGS"), NEW e \in OfProcess("MAXMSGS")
          PROVE  acks + 1 <= e
      <4>1. e \in Nat /\ x.msg_count < e
        BY <1>2, <3>2, LimitsArePositive DEF Counted, MessagesCounted, BelowMax
      <4> QED BY <1>1, <3>1, <3>2, <4>1
    <3> QED BY <1>5, <3>2 DEF MessagesCounted, MessagesLimited, OfProcess
  <2> QED BY <1>2, <2>1, <2>2, <2>3, <2>4 DEF Counted
<1> QED BY <1>4, <1>5 DEF End

LEMMA CountedHolds ==
  ASSUME \A c \in Chains : HasCounters(c)
  PROVE  Spec => []Counted
<1>1. Init => Counted
  BY CountedInit
<1>2. Typed /\ Counted /\ [Next]_vars => Counted'
  <2> SUFFICES ASSUME Typed, Counted, [Next]_vars PROVE Counted'
    OBVIOUS
  <2>1. ASSUME NEW d \in Directive \cup Range(Wrapped), Load(d) PROVE Counted'
    <3>1. chain' = chain /\ acks' = acks /\ pc' = pc /\ pc = "loading" /\ x' = x /\ era' = era
      BY <2>1 DEF Load
    <3> QED BY <3>1, CountedElsewhere DEF Counted
  <2>2. CASE ListStands
    <3>1. HasCounters(chain') /\ (HearsAll => NoScriptBefore(chain', "counters"))
      BY <2>2 DEF ListStands, HearsAll
    <3>2. acks' = acks /\ pc' = "starting" /\ x' = x /\ era' = era
      BY <2>2 DEF ListStands
    <3>3. MessagesCounted' /\ RecipientsCounted' /\ BytesCounted'
      BY <3>2 DEF Counted, MessagesCounted, RecipientsCounted, BytesCounted,
                  MessagesLimited, RecipientsLimited, OfProcess
    <3> QED BY <3>1, <3>2, <3>3 DEF Counted
  <2>3. CASE Start \/ HELO \/ RSET \/ AUTH \/ EndSwallowed
    BY <2>3, CountedCommand
  <2>4. ASSUME NEW a \in Sender, NEW size \in Size, MAIL(a, size) PROVE Counted'
    BY <2>4, CountedMail
  <2>5. ASSUME NEW a \in Recipient, RCPT(a) PROVE Counted'
    BY <2>5, CountedRcpt
  <2>6. CASE DATA \/ Block \/ End
    BY <2>6, CountedData, CountedBlock, CountedEnd
  <2>7. CASE UNCHANGED vars
    BY <2>7 DEF vars, Counted, MessagesCounted, RecipientsCounted, BytesCounted,
                MessagesLimited, RecipientsLimited, OfProcess, BelowMax,
                SizeOf, session_getnum, session_hasnum
  <2> QED BY <2>1, <2>2, <2>3, <2>4, <2>5, <2>6, <2>7 DEF Next
<1> QED BY <1>1, <1>2, TypedHolds, PTL DEF Spec

(***************************************************************************)
(* MessagesAlwaysLimited: with no script in front of counters, and         *)
(* whatever the other plugins and the backend answer, no more messages are *)
(* accepted than $MAXMSGS (0 sets no limit): counters has counted every    *)
(* message accepted, and a message begins only below the limit             *)
(* (plugin-counters.c start and end).                                      *)
(***************************************************************************)
THEOREM MessagesAlwaysLimited ==
  ASSUME \A c \in Chains : NoScriptBefore(c, "counters"), 0 \notin OfProcess("MAXMSGS")
  PROVE  Spec => []MessagesLimited
<1>1. Counted => MessagesLimited
  BY DEF Counted, MessagesCounted, HearsAll
<1>2. \A c \in Chains : HasCounters(c)
  BY DEF NoScriptBefore, HasCounters
<1>3. Spec => []Counted
  BY <1>2, CountedHolds
<1> QED BY <1>1, <1>3, PTL

(***************************************************************************)
(* RecipientsAlwaysLimited: with counters anywhere in the list, no message *)
(* gets more recipients than $MAXRCPTS, not counting those that a plugin   *)
(* in front of counters (mailrules by a K rule, or a script) accepts with  *)
(* a final answer (plugin-counters.c recipient and reset).                 *)
(***************************************************************************)
THEOREM RecipientsAlwaysLimited ==
  ASSUME \A c \in Chains : HasCounters(c), 0 \notin OfProcess("MAXRCPTS")
  PROVE  Spec => []RecipientsLimited
<1>1. Counted => RecipientsLimited
  BY DEF Counted, RecipientsCounted
<1> QED BY <1>1, CountedHolds, PTL

(***************************************************************************)
(* SizeAlwaysLimited: with counters anywhere in the list, a message is     *)
(* accepted only within the limit that is in force at its end, whichever   *)
(* variable or rule set it (plugin-counters.c start and block).            *)
(***************************************************************************)
THEOREM SizeAlwaysLimited ==
  ASSUME \A c \in Chains : HasCounters(c)
  PROVE  Spec => SizeLimited
<1>1. Counted /\ [Next]_vars => [acks' # acks => sent <= SizeInForce]_vars
  <2> SUFFICES ASSUME Counted, Next, acks' # acks PROVE sent <= SizeInForce
    OBVIOUS
  <2>1. pc = "body"
    <3>1. ASSUME NEW d \in Directive \cup Range(Wrapped), Load(d) PROVE acks' = acks
      BY <3>1 DEF Load
    <3>2. CASE ListStands \/ Start \/ HELO \/ RSET \/ AUTH \/ EndSwallowed
      BY <3>2 DEF ListStands, Start, HELO, RSET, AUTH, EndSwallowed, Mailed
    <3>3. ASSUME NEW a \in Sender, NEW size \in Size, MAIL(a, size) PROVE acks' = acks
      BY <3>3 DEF MAIL, Mailed
    <3>4. ASSUME NEW a \in Recipient, RCPT(a) PROVE acks' = acks
      BY <3>4 DEF RCPT, Mailed
    <3>5. DATA => acks' = acks
      BY DEF DATA, Refused
    <3>6. Block \/ End => pc = "body"
      BY DEF Block, End
    <3> QED BY <3>1, <3>2, <3>3, <3>4, <3>5, <3>6 DEF Next
  <2> QED BY <2>1 DEF Counted, BytesCounted, SizeOf, SizeInForce
<1> QED BY <1>1, CountedHolds, PTL DEF Spec, SizeLimited


(***************************************************************************)
(* What the hooks leave of the session record.  Mailrules apart, no plugin *)
(* changes more of it than counters does, and only scripts answer for      *)
(* good.                                                                   *)
(***************************************************************************)
MessageHook == {"data_start", "data_block", "message_end"}

LEMMA SameLowers == \A s \in Session : Lowers(s, s)
BY LowersCount

LEMMA BuiltinsMild ==
  ASSUME NEW s \in Session,
         NEW o \in {require_auth(s), reject(s), acceptor(s), relayclient_recip(s),
                    Reply(s, "none")}
  PROVE  o.x = s /\ o.resp \in Mild
BY DEF require_auth, reject, acceptor, relayclient_recip, Reply, Mild

LEMMA MildIsResponse == Mild \subseteq Response
BY DEF Mild, Response

LEMMA ResetLowers ==
  ASSUME NEW p, NEW s \in Session, NEW o \in answers(p, s, Hook("reset"))
  PROVE  /\ p = "mailrules" => o = mailrules_reset(s)
         /\ p # "mailrules" => Lowers(s, o.x)
         /\ p # "lua" => o.resp = "none"
         /\ p = "counters" => o.x.rcpt_count = 0
         /\ p \notin {"counters", "mailrules"} => o.x = s
<1>1. o \in reset_hook(p, s)
  BY DEF answers, Hook
<1>2. CASE p = "counters"
  <2>1. o = counters_reset(s)
    BY <1>1, <1>2 DEF reset_hook
  <2> QED BY <1>2, <2>1, CountersLower, CountersReset
<1>3. CASE p = "mailrules"
  <2>1. o = mailrules_reset(s)
    BY <1>1, <1>3 DEF reset_hook
  <2> QED BY <1>3, <2>1 DEF mailrules_reset, Reply
<1>4. CASE p \notin {"counters", "mailrules"}
  <2>1. o \in LuaAnswers(s) \cup {Reply(s, "none")} /\ (p # "lua" => o = Reply(s, "none"))
    BY <1>1, <1>4 DEF reset_hook
  <2>2. o.x = s
    BY <2>1, BuiltinsMild, LuaKept
  <2>3. p # "lua" => o.resp = "none"
    BY <2>1 DEF Reply
  <2> QED BY <1>4, <2>2, <2>3, SameLowers
<1> QED BY <1>2, <1>3, <1>4

LEMMA InitLowers ==
  ASSUME NEW p, NEW s \in Session, NEW o \in answers(p, s, Hook("init"))
  PROVE  /\ p = "mailrules" => o = mailrules_init(s)
         /\ p # "mailrules" => Lowers(s, o.x) /\ (p # "lua" => o.resp = "none")
<1>1. o \in other_hook(p, s, "init")
  BY DEF answers, Hook
<1>2. CASE p = "counters"
  <2>1. o = counters_init(s)
    BY <1>1, <1>2 DEF other_hook
  <2>2. o.resp = "none"
    BY <2>1 DEF counters_init, Reply
  <2> QED BY <1>2, <2>1, <2>2, CountersLower
<1>3. CASE p = "mailrules"
  BY <1>1, <1>3 DEF other_hook
<1>4. CASE p \notin {"counters", "mailrules"}
  <2>1. o \in LuaAnswers(s) \/ o = Reply(s, "none")
    BY <1>1, <1>4 DEF other_hook
  <2>2. p # "lua" => o = Reply(s, "none")
    BY <1>1, <1>4 DEF other_hook
  <2>3. o.x = s /\ (p # "lua" => o.resp = "none")
    BY <2>1, <2>2, LuaKept DEF Reply
  <2> QED BY <1>4, <2>3, SameLowers
<1> QED BY <1>2, <1>3, <1>4

LEMMA SenderLowers ==
  ASSUME NEW p, NEW s \in Session, NEW address \in Sender, NEW size,
         NEW o \in answers(p, s, SenderHook(address, size))
  PROVE  /\ p = "mailrules" => o = validate_sender(s, address)
         /\ p # "mailrules" => /\ Lowers(s, o.x) /\ o.resp \in Response
                               /\ p # "lua" => o.resp \in Mild
<1>1. o \in sender_hook(p, s, address, size)
  BY DEF answers, SenderHook
<1>2. CASE p = "counters"
  <2>1. o = counters_sender(s, size)
    BY <1>1, <1>2 DEF sender_hook
  <2>2. o.resp \in Mild
    BY <2>1, CountersSender DEF Answered, Mild
  <2> QED BY <1>2, <2>1, <2>2, CountersLower, MildIsResponse
<1>3. CASE p = "mailrules"
  BY <1>1, <1>3 DEF sender_hook
<1>4. CASE p \notin {"counters", "mailrules"}
  <2>1. IF p = "lua" THEN o \in LuaAnswers(s)
        ELSE o \in {require_auth(s), reject(s), acceptor(s), Reply(s, "none")}
    BY <1>1, <1>4 DEF sender_hook
  <2>2. o.x = s /\ o.resp \in Response /\ (p # "lua" => o.resp \in Mild)
    BY <2>1, BuiltinsMild, LuaKept, MildIsResponse
  <2> QED BY <1>4, <2>2, SameLowers
<1> QED BY <1>2, <1>3, <1>4

LEMMA RecipientLowers ==
  ASSUME NEW p, NEW s \in Session, NEW address, NEW o \in answers(p, s, RecipientHook(address))
  PROVE  /\ p = "mailrules" => o = validate_recipient(s, address)
         /\ p # "mailrules" => /\ Lowers(s, o.x) /\ o.resp \in Response
                               /\ p # "lua" => o.resp \in Mild
         /\ p = "counters" =>
              /\ o.x.rcpt_count = s.rcpt_count + 1
              /\ Ends(o.resp) => \E v \in NumIs(o.x, "maxrcpts") : o.x.rcpt_count > v
         /\ p # "counters" => o.x.rcpt_count = s.rcpt_count
<1>1. o \in recipient_hook(p, s, address)
  BY DEF answers, RecipientHook
<1>2. CASE p = "counters"
  <2>1. o = counters_recipient(s)
    BY <1>1, <1>2 DEF recipient_hook
  <2>2. o.resp \in {"none", "perm"} /\ o.x.rcpt_count = s.rcpt_count + 1
    BY <2>1, CountersRecipient
  <2>3. Ends(o.resp) => o.resp # "none"
    BY DEF Ends, response_ok
  <2>4. Ends(o.resp) => \E v \in NumIs(o.x, "maxrcpts") : o.x.rcpt_count > v
    BY <2>1, <2>3, RecipientRefused
  <2>5. Lowers(s, o.x)
    BY <2>1, CountersLower
  <2> QED BY <1>2, <2>2, <2>4, <2>5 DEF Mild, Response
<1>3. CASE p = "mailrules"
  <2>1. o = validate_recipient(s, address)
    BY <1>1, <1>3 DEF recipient_hook
  <2> QED BY <1>3, <2>1, MailrulesHooks DEF Kept
<1>4. CASE p \notin {"counters", "mailrules"}
  <2>1. IF p = "lua" THEN o \in LuaAnswers(s)
        ELSE o \in {relayclient_recip(s), acceptor(s), Reply(s, "none")}
    BY <1>1, <1>4 DEF recipient_hook
  <2>2. o.x = s /\ o.resp \in Response /\ (p # "lua" => o.resp \in Mild)
    BY <2>1, BuiltinsMild, LuaKept, MildIsResponse
  <2> QED BY <1>4, <2>2, SameLowers
<1> QED BY <1>2, <1>3, <1>4

LEMMA BodyLowers ==
  ASSUME NEW p, NEW s \in Session, NEW name \in MessageHook, NEW o \in answers(p, s, Hook(name))
  PROVE  /\ Lowers(s, o.x) /\ o.resp \in Response /\ o.x.rcpt_count = s.rcpt_count
         /\ p # "counters" => o.x = s /\ (p # "lua" => o.resp = "none")
         /\ p = "counters" /\ name = "data_start" => o = counters_start(s)
<1>1. /\ p # "counters" => o.x = s /\ o.resp \in Response /\ (p # "lua" => o.resp = "none")
      /\ p = "counters" =>
           o = CASE name = "data_start"  -> counters_start(s)
                 [] name = "data_block"  -> counters_block(s, 1)
                 [] name = "message_end" -> counters_end(s)
  BY BodyAnswers DEF MessageHook
<1>2. CASE p # "counters"
  BY <1>1, <1>2, SameLowers DEF Response
<1>3. CASE p = "counters" /\ name = "data_start"
  <2>1. o = counters_start(s)
    BY <1>1, <1>3
  <2> QED BY <1>3, <2>1, CountersLower, CountersStart DEF Response
<1>4. CASE p = "counters" /\ name = "data_block"
  <2>1. o = counters_block(s, 1)
    BY <1>1, <1>4
  <2> QED BY <1>4, <2>1, CountersLower, CountersBlock DEF Response
<1>5. CASE p = "counters" /\ name = "message_end"
  <2>1. o = counters_end(s)
    BY <1>1, <1>5
  <2> QED BY <1>5, <2>1, CountersLower, CountersEnd DEF Response
<1> QED BY <1>2, <1>3, <1>4, <1>5 DEF MessageHook

(***************************************************************************)
(* What the rules that apply to a command give, and what mailrules makes   *)
(* of it.                                                                  *)
(***************************************************************************)
Given(applied) == {applied.rules[i] : i \in applied.at}

LEMMA GivenLimits ==
  ASSUME NEW applied, NEW r \in Given(applied)
  PROVE  /\ r.databytes \in LimitsOf(applied) \cup {0}
         /\ \A a \in r.environment :
              /\ a[1] = "DATABYTES" => a[2] \in LimitsOf(applied) \cup {0}
              /\ a[1] = "RELAYCLIENT" => Relays(applied)
<1>1. PICK i \in applied.at : r = applied.rules[i]
  BY DEF Given
<1>2. r.databytes \in LimitsOf(applied) \cup {0}
  BY <1>1 DEF LimitsOf
<1>3. \A a \in r.environment : a[2] \in Assigned(applied, a[1])
  BY <1>1 DEF Assigned
<1> QED BY <1>2, <1>3 DEF LimitsOf, Relays

LEMMA LimitsGiven ==
  ASSUME NEW applied, NEW l \in LimitsOf(applied)
  PROVE  /\ l # 0
         /\ \/ \E r \in Given(applied) : r.databytes = l
            \/ \E r \in Given(applied) : \E a \in r.environment : a[1] = "DATABYTES" /\ a[2] = l
<1>1. CASE l \in Assigned(applied, "DATABYTES")
  <2>1. PICK b \in UNION {applied.rules[i].environment : i \in applied.at} :
          b[1] = "DATABYTES" /\ b[2] = l
    BY <1>1 DEF Assigned
  <2>2. PICK i \in applied.at : b \in applied.rules[i].environment
    BY <2>1
  <2> QED BY <2>1, <2>2 DEF Given, LimitsOf
<1>2. CASE l \notin Assigned(applied, "DATABYTES")
  BY <1>2 DEF Given, LimitsOf
<1> QED BY <1>1, <1>2

LEMMA LimitsTyped ==
  ASSUME NEW applied, \A r \in Given(applied) : RuleTyped(r)
  PROVE  LimitsOf(applied) \subseteq Nat \ {0}
<1> SUFFICES ASSUME NEW l \in LimitsOf(applied) PROVE l \in Nat /\ l # 0
  OBVIOUS
<1>1. \A a \in Assignment : a[2] \in Nat
  <2>1. \A a \in Assignment : a[2] \in UnsignedLong
    BY MailrulesAssumption DEF Assignment, IsRule
  <2>2. UnsignedLong \subseteq Nat
    BY DEF UnsignedLong, Unlimited
  <2> QED BY <2>1, <2>2
<1>2. CASE \E r \in Given(applied) : r.databytes = l
  BY <1>2, LimitsGiven DEF RuleTyped
<1>3. CASE \E r \in Given(applied) : \E a \in r.environment : a[1] = "DATABYTES" /\ a[2] = l
  BY <1>1, <1>3, LimitsGiven DEF RuleTyped
<1> QED BY <1>2, <1>3, LimitsGiven

\* What mailrules does with the rules that apply to a command.
Applies(s, o, applied) ==
  /\ Ran(s, o.x, Given(applied)) /\ o.resp = AnswerOf(applied)
  /\ LimitsOf(applied) \subseteq Nat \ {0}

LEMMA RunRulesGives ==
  ASSUME NEW s \in Session, s.loaded, NEW rules \in RuleSeq, NEW is_recip \in BOOLEAN,
         NEW address, is_recip \/ address \in Sender
  PROVE  LET y == RunsFor(s, is_recip, address)
         IN  Applies(y, run_rules(s, rules, is_recip, address),
                     Applied(rules, is_recip, y.saved_sender, address))
<1> DEFINE y == RunsFor(s, is_recip, address)
           applied == Applied(rules, is_recip, y.saved_sender, address)
           o == run_rules(s, rules, is_recip, address)
<1>1. /\ Len(rules) \in Nat /\ DOMAIN rules = 1 .. Len(rules)
      /\ \A i \in DOMAIN rules : RuleTyped(rules[i])
  BY RuleSeqTyped
<1>2. Ran(y, o.x, {rules[i] : i \in applied.at}) /\ o.resp = AnswerOf(applied)
  BY <1>1, RunRulesApplies
<1>3. applied.rules = rules /\ applied.at \subseteq DOMAIN rules
  BY DEF Applied
<1> HIDE DEF y, applied, o
<1>4. Given(applied) = {rules[i] : i \in applied.at}
  BY <1>3 DEF Given
<1>5. LimitsOf(applied) \subseteq Nat \ {0}
  BY <1>1, <1>3, <1>4, LimitsTyped
<1> QED BY <1>2, <1>4, <1>5 DEF Applies, y, applied, o

LEMMA SenderRules ==
  ASSUME NEW s \in Session, s.loaded, NEW address \in Sender
  PROVE  Applies([s EXCEPT !.saved_sender = address], validate_sender(s, address),
                 ForSender[address])
<1>1. RunsFor(s, FALSE, address) = [s EXCEPT !.saved_sender = address]
  BY DEF RunsFor
<1>2. [s EXCEPT !.saved_sender = address].saved_sender = address
  BY DEF Session
<1>3. ForSender[address] = Applied(Rules.sender, FALSE, address, address)
  BY DEF ForSender
<1>4. Rules.sender \in RuleSeq
  BY RulesType
<1>5. LET y == RunsFor(s, FALSE, address)
      IN  Applies(y, run_rules(s, Rules.sender, FALSE, address),
                  Applied(Rules.sender, FALSE, y.saved_sender, address))
  BY <1>4, RunRulesGives
<1> QED BY <1>1, <1>2, <1>3, <1>5 DEF validate_sender

LEMMA RecipientRules ==
  ASSUME NEW s \in Session, s.loaded, s.saved_sender \in Sender, NEW address \in Recipient
  PROVE  Applies(s, validate_recipient(s, address), ForRecipient[s.saved_sender][address])
<1>1. RunsFor(s, TRUE, address) = s
  BY DEF RunsFor
<1>2. ForRecipient[s.saved_sender][address] =
        Applied(Rules.recip, TRUE, s.saved_sender, address)
  BY DEF ForRecipient
<1>3. Rules.recip \in RuleSeq
  BY RulesType
<1>4. LET y == RunsFor(s, TRUE, address)
      IN  Applies(y, run_rules(s, Rules.recip, TRUE, address),
                  Applied(Rules.recip, TRUE, y.saved_sender, address))
  BY <1>3, RunRulesGives
<1> QED BY <1>1, <1>2, <1>4 DEF validate_recipient

\* The reset of mailrules: nothing that a rule gave is left.
LEMMA MailrulesReset ==
  ASSUME NEW s \in Session
  PROVE  LET t == mailrules_reset(s).x
         IN  /\ t \in Session /\ SameCounts(s, t)
             /\ NumIs(t, "maxrcpts") = NumIs(s, "maxrcpts")
             /\ s.loaded => t.env = {} /\ NumIs(t, "maxdatabytes") = {}
             /\ ~ s.loaded => t = s
<1> DEFINE t == session_resetenv(s)
           u == session_delnum(t, "maxdatabytes")
<1>1. /\ t \in Session /\ SameCounts(s, t) /\ t.env = {} /\ t.nums = s.nums
  BY PutEnvType DEF session_resetenv, Session
<1> HIDE DEF t
<1>2. u \in Session /\ SameCounts(t, u)
  BY <1>1, DelNumType
<1>3. /\ NumIs(u, "maxdatabytes") = {} /\ NumIs(u, "maxrcpts") = NumIs(t, "maxrcpts")
      /\ u.env = t.env
  BY <1>1, DelNumIs
<1>4. mailrules_reset(s).x = IF s.loaded THEN u ELSE s
  BY DEF mailrules_reset, Reply, t
<1>5. NumIs(t, "maxrcpts") = NumIs(s, "maxrcpts") /\ SameCounts(s, s)
  BY <1>1 DEF NumIs, SameCounts
<1> HIDE DEF u
<1> QED BY <1>1, <1>2, <1>3, <1>4, <1>5 DEF SameCounts

LEMMA MailrulesInit ==
  ASSUME NEW s \in Session
  PROVE  LET t == mailrules_init(s).x
         IN  /\ t \in Session /\ t.env = s.env /\ t.nums = s.nums
             /\ t.rcpt_count = s.rcpt_count /\ t.saved_sender = s.saved_sender
             /\ "MAILRULES" \in DOMAIN Environ => t.loaded
BY DEF mailrules_init, Reply, Session

(***************************************************************************)
(* Where the limit on the size and the environment come from.  IsStanding: *)
(* they are the process's, or a rule's that gave the limits tried or, if   *)
(* relays, allowed relaying.  IsLow: the limit on the size is within each  *)
(* of these limits, or will be once counters has looked at $DATABYTES.     *)
(***************************************************************************)
IsStanding(s, tried, relays) ==
  /\ \A a \in s.env : /\ (a[1] = "RELAYCLIENT" => relays)
                      /\ (a[1] = "DATABYTES" => a[2] \in tried \cup {0})
  /\ NumIs(s, "maxdatabytes") \subseteq tried \cup OfProcess("DATABYTES")

IsLow(s, limits) == \A l \in limits : SizeOf(s) <= l \/ l \in ValuesOf(s, "DATABYTES")
IsWithin(s, limits) == \A l \in limits \cup (OfProcess("DATABYTES") \ {0}) : SizeOf(s) <= l

LEMMA StandingLowers ==
  ASSUME NEW s \in Session, NEW t, Lowers(s, t), NEW tried, NEW relays,
         IsStanding(s, tried, relays)
  PROVE  IsStanding(t, tried, relays)
<1>1. ValuesOf(s, "DATABYTES") \ {0} \subseteq tried \cup OfProcess("DATABYTES")
  BY DEF IsStanding, ValuesOf, OfProcess
<1>2. NumIs(t, "maxdatabytes") \subseteq
        NumIs(s, "maxdatabytes") \cup (ValuesOf(s, "DATABYTES") \ {0})
  BY DEF Lowers
<1> QED BY <1>1, <1>2 DEF IsStanding, Lowers

LEMMA SizeLowers ==
  ASSUME NEW s \in Session, NEW t, Lowers(s, t), NEW l \in Nat, SizeOf(s) <= l
  PROVE  SizeOf(t) <= l
<1>1. SizeOf(s) \in Nat /\ SizeOf(t) \in Nat /\ SizeOf(t) <= SizeOf(s)
  BY SizeType DEF Lowers
<1> QED BY <1>1

LEMMA LowLowers ==
  ASSUME NEW s \in Session, NEW t, Lowers(s, t), NEW limits \in SUBSET Nat
  PROVE  /\ IsLow(s, limits) => IsLow(t, limits)
         /\ IsWithin(s, limits) => IsWithin(t, limits)
<1>1. ValuesOf(t, "DATABYTES") = ValuesOf(s, "DATABYTES")
  BY DEF Lowers, ValuesOf
<1>2. \A l \in OfProcess("DATABYTES") : l \in Nat
  BY SessionStoreAssumption DEF OfProcess, UnsignedLong, Unlimited
<1>3. IsLow(s, limits) => IsLow(t, limits)
  BY <1>1, SizeLowers DEF IsLow
<1>4. IsWithin(s, limits) => IsWithin(t, limits)
  BY <1>2, SizeLowers DEF IsWithin
<1> QED BY <1>3, <1>4

LEMMA StandingMore ==
  ASSUME NEW s, NEW tried, NEW relays, IsStanding(s, tried, relays),
         NEW more, tried \subseteq more, NEW allowed, relays => allowed
  PROVE  IsStanding(s, more, allowed)
BY DEF IsStanding

LEMMA StandingApplies ==
  ASSUME NEW s \in Session, NEW o, NEW applied, Applies(s, o, applied),
         NEW tried, NEW relays, IsStanding(s, tried, relays),
         LimitsOf(applied) \subseteq tried, Relays(applied) => relays
  PROVE  IsStanding(o.x, tried, relays)
<1>1. /\ o.x.env = s.env \cup UNION {r.environment : r \in Given(applied)}
      /\ NumIs(o.x, "maxdatabytes") \subseteq
           NumIs(s, "maxdatabytes") \cup ({r.databytes : r \in Given(applied)} \ {0})
  BY DEF Applies, Ran
<1>2. ASSUME NEW a \in o.x.env
      PROVE  /\ (a[1] = "RELAYCLIENT" => relays)
             /\ (a[1] = "DATABYTES" => a[2] \in tried \cup {0})
  <2>1. CASE a \in s.env
    BY <2>1 DEF IsStanding
  <2>2. CASE a \notin s.env
    <3>1. PICK r \in Given(applied) : a \in r.environment
      BY <1>1, <2>2
    <3>2. /\ a[1] = "DATABYTES" => a[2] \in LimitsOf(applied) \cup {0}
          /\ a[1] = "RELAYCLIENT" => Relays(applied)
      BY <3>1, GivenLimits
    <3> QED BY <3>2
  <2> QED BY <2>1, <2>2
<1>3. {r.databytes : r \in Given(applied)} \ {0} \subseteq tried
  BY GivenLimits
<1>4. NumIs(o.x, "maxdatabytes") \subseteq tried \cup OfProcess("DATABYTES")
  BY <1>1, <1>3 DEF IsStanding
<1> QED BY <1>2, <1>4 DEF IsStanding

LEMMA LowApplies ==
  ASSUME NEW s \in Session, NEW o, NEW applied, Applies(s, o, applied),
         NEW limits \in SUBSET Nat, IsLow(s, limits)
  PROVE  IsLow(o.x, limits \cup LimitsOf(applied))
<1>1. /\ o.x \in Session /\ SizeOf(o.x) <= SizeOf(s)
      /\ o.x.env = s.env \cup UNION {r.environment : r \in Given(applied)}
      /\ \A r \in Given(applied) : r.databytes # 0 => SizeOf(o.x) <= r.databytes
  BY DEF Applies, Ran
<1>2. SizeOf(o.x) \in Nat /\ SizeOf(s) \in Nat
  BY <1>1, SizeType
<1>3. ASSUME NEW l \in limits
      PROVE  SizeOf(o.x) <= l \/ l \in ValuesOf(o.x, "DATABYTES")
  <2>1. CASE SizeOf(s) <= l
    <3>1. l \in Nat
      OBVIOUS
    <3> QED BY <1>1, <1>2, <2>1, <3>1
  <2>2. CASE l \in ValuesOf(s, "DATABYTES")
    BY <1>1, <2>2 DEF ValuesOf
  <2> QED BY <2>1, <2>2 DEF IsLow
<1>4. ASSUME NEW l \in LimitsOf(applied)
      PROVE  SizeOf(o.x) <= l \/ l \in ValuesOf(o.x, "DATABYTES")
  <2>1. CASE \E r \in Given(applied) : r.databytes = l
    BY <1>1, <2>1, LimitsGiven
  <2>2. CASE \E r \in Given(applied) : \E a \in r.environment : a[1] = "DATABYTES" /\ a[2] = l
    <3>1. \E a \in o.x.env : a[1] = "DATABYTES" /\ a[2] = l
      BY <1>1, <2>2
    <3> QED BY <3>1 DEF ValuesOf
  <2> QED BY <2>1, <2>2, LimitsGiven
<1> QED BY <1>3, <1>4 DEF IsLow

LEMMA ResetStays ==
  ASSUME NEW p, NEW s \in Session, NEW o \in answers(p, s, Hook("reset"))
  PROVE  /\ o.x \in Session /\ o.resp \in Response
         /\ o.x.loaded = s.loaded /\ o.x.saved_sender = s.saved_sender
<1>1. o.x \in Session /\ o.resp \in Response
  BY ResetAnswers
<1>2. CASE p = "mailrules"
  <2>1. o = mailrules_reset(s)
    BY <1>2, ResetLowers
  <2> QED BY <1>1, <2>1, MailrulesReset DEF SameCounts
<1>3. CASE p # "mailrules"
  BY <1>1, <1>3, ResetLowers DEF Lowers
<1> QED BY <1>2, <1>3

LEMMA ResetCallStands ==
  ASSUME NEW y \in Session, y.loaded, chain \in Seq(Plugin), NoScriptBefore(chain, "mailrules")
  PROVE  \A o \in handle_reset(y) :
           /\ o.x \in Session /\ o.x.loaded /\ o.x.saved_sender = y.saved_sender
           /\ IsStanding(o.x, {}, FALSE)
<1> DEFINE hook == Hook("reset")
           G == {s \in Session : s.loaded /\ s.saved_sender = y.saved_sender}
           H == {s \in G : IsStanding(s, {}, FALSE)}
<1>1. ASSUME NEW p, NEW s \in G, NEW o \in answers(p, s, hook)
      PROVE  /\ o.x \in G /\ o.resp \in Response
             /\ p = "mailrules" \/ s \in H => o.x \in H
             /\ p # "lua" => ~ Ends(o.resp)
  <2>1. o.x \in G /\ o.resp \in Response
    BY ResetStays
  <2>2. p # "lua" => ~ Ends(o.resp)
    BY ResetLowers DEF Ends, response_ok
  <2>3. CASE p = "mailrules"
    <3>1. o.x.env = {} /\ NumIs(o.x, "maxdatabytes") = {}
      BY <2>3, ResetLowers, MailrulesReset
    <3>2. IsStanding(o.x, {}, FALSE)
      BY <3>1 DEF IsStanding
    <3> QED BY <2>1, <2>2, <2>3, <3>2
  <2>4. CASE p # "mailrules"
    <3>1. Lowers(s, o.x)
      BY <2>4, ResetLowers
    <3>2. IsStanding(s, {}, FALSE) => IsStanding(o.x, {}, FALSE)
      BY <3>1, StandingLowers
    <3> QED BY <2>1, <2>2, <2>4, <3>2
  <2> QED BY <2>3, <2>4
<1>2. y \in G
  OBVIOUS
<1> HIDE DEF hook, G, H
<1>3. Stays(hook, G, Response)
  BY <1>1 DEF Stays
<1>4. PICK k \in 1 .. Len(chain) :
        chain[k] = "mailrules" /\ \A i \in 1 .. k - 1 : chain[i] # "lua"
  BY DEF NoScriptBefore
<1>5. Leads(hook, G, H, {}, k)
  <2> SUFFICES ASSUME NEW i \in 1 .. Len(chain), NEW s \in G,
                      NEW o \in answers(chain[i], s, hook)
               PROVE  /\ (i <= k \/ s \in H) /\ Ends(o.resp) => o.x \in H
                      /\ (i = k \/ s \in H) /\ ~ Ends(o.resp) => o.x \in H
    BY DEF Leads
  <2>1. i < k => chain[i] # "lua"
    BY <1>4
  <2>2. i <= k => i < k \/ i = k
    OBVIOUS
  <2> QED BY <1>1, <1>4, <2>1, <2>2
<1>6. \A o \in Call(hook, y) : o.x \in H
  BY <1>2, <1>3, <1>5, CallThrough, NoneIsResponse
<1> QED BY <1>6 DEF handle_reset, hook, G, H

LEMMA InitCallStands ==
  ASSUME NEW y \in Session, IsStanding(y, {}, FALSE), chain \in Seq(Plugin),
         NoScriptBefore(chain, "mailrules"), "MAILRULES" \in DOMAIN Environ
  PROVE  \A o \in Call(Hook("init"), y) :
           o.x \in Session /\ IsStanding(o.x, {}, FALSE) /\ o.x.loaded
<1> DEFINE hook == Hook("init")
           G == {s \in Session : IsStanding(s, {}, FALSE)}
           H == {s \in G : s.loaded}
<1>1. ASSUME NEW p, NEW s \in G, NEW o \in answers(p, s, hook)
      PROVE  /\ o.x \in G /\ o.resp \in Response
             /\ p = "mailrules" \/ s \in H => o.x \in H
             /\ p \notin {"mailrules", "lua"} => ~ Ends(o.resp)
  <2>1. o.x \in Session /\ o.resp \in Response
    BY InitAnswers DEF Kept
  <2>2. CASE p = "mailrules"
    <3>1. o.x.env = s.env /\ o.x.nums = s.nums /\ o.x.loaded
      BY <2>2, InitLowers, MailrulesInit
    <3> QED BY <2>1, <2>2, <3>1 DEF IsStanding, NumIs
  <2>3. CASE p # "mailrules"
    <3>1. Lowers(s, o.x) /\ (p # "lua" => o.resp = "none")
      BY <2>3, InitLowers
    <3>2. ~ Ends("none")
      BY DEF Ends, response_ok
    <3> QED BY <2>1, <2>3, <3>1, <3>2, StandingLowers DEF Lowers
  <2> QED BY <2>2, <2>3
<1>2. y \in G
  OBVIOUS
<1> HIDE DEF hook, G, H
<1>3. Stays(hook, G, Response)
  BY <1>1 DEF Stays
<1>4. PICK k \in 1 .. Len(chain) :
        chain[k] = "mailrules" /\ \A i \in 1 .. k - 1 : chain[i] # "lua"
  BY DEF NoScriptBefore
<1>5. Leads(hook, G, H, {}, k)
  <2> SUFFICES ASSUME NEW i \in 1 .. Len(chain), NEW s \in G,
                      NEW o \in answers(chain[i], s, hook)
               PROVE  /\ (i <= k \/ s \in H) /\ Ends(o.resp) => o.x \in H
                      /\ (i = k \/ s \in H) /\ ~ Ends(o.resp) => o.x \in H
    BY DEF Leads
  <2>1. i < k => chain[i] # "lua"
    BY <1>4
  <2>2. i <= k => i < k \/ i = k
    OBVIOUS
  <2> QED BY <1>1, <1>4, <2>1, <2>2
<1>6. \A o \in Call(hook, y) : o.x \in H
  BY <1>2, <1>3, <1>5, CallThrough, NoneIsResponse
<1> QED BY <1>6 DEF hook, G, H

LEMMA SenderCallStands ==
  ASSUME NEW y \in Session, y.loaded, IsStanding(y, {}, FALSE), chain \in Seq(Plugin),
         NoScriptBefore(chain, "mailrules"), NEW a \in Sender, NEW size
  PROVE  LimitsOf(ForSender[a]) \subseteq Nat \ {0} /\
         \A o \in Call(SenderHook(a, size), y) :
           /\ o.x \in Session /\ o.x.loaded
           /\ IsStanding(o.x, LimitsOf(ForSender[a]), Relays(ForSender[a]))
           /\ response_ok(o.resp) =>
                o.x.saved_sender = a /\ IsLow(o.x, LimitsOf(ForSender[a]))
<1> DEFINE hook == SenderHook(a, size)
           L == LimitsOf(ForSender[a])
           allowed == Relays(ForSender[a])
           G == {s \in Session : s.loaded /\ IsStanding(s, L, allowed)}
           H == {s \in G : s.saved_sender = a /\ IsLow(s, L)}
           E == {r \in Response : ~ response_ok(r)}
<1>0. L \subseteq Nat \ {0}
  BY SenderRules DEF Applies
<1>1. ASSUME NEW p, NEW s \in G, NEW o \in answers(p, s, hook)
      PROVE  /\ o.x \in G /\ o.resp \in Response
             /\ p = "mailrules" \/ s \in H => o.x \in H
             /\ p \notin {"mailrules", "lua"} => o.resp \in Mild
  <2> HIDE DEF L, allowed
  <2>1. o.x \in Session /\ o.resp \in Response
    BY SenderAnswers DEF Kept
  <2>2. CASE p = "mailrules"
    <3> DEFINE t == [s EXCEPT !.saved_sender = a]
    <3>1. t \in Session /\ t.env = s.env /\ t.nums = s.nums /\ t.loaded /\ t.saved_sender = a
      BY DEF Session
    <3>2. o = validate_sender(s, a)
      BY <2>2, SenderLowers
    <3>3. Applies(t, o, ForSender[a])
      BY <3>2, SenderRules
    <3> HIDE DEF t
    <3>4. IsStanding(t, L, allowed)
      BY <3>1 DEF IsStanding, NumIs
    <3>5. IsStanding(o.x, L, allowed)
      BY <3>1, <3>3, <3>4, StandingApplies DEF L, allowed
    <3>6. IsLow(t, {}) /\ {} \in SUBSET Nat
      BY DEF IsLow
    <3>7. IsLow(o.x, {} \cup L)
      BY <3>1, <3>3, <3>6, LowApplies DEF L
    <3>8. o.x.loaded /\ o.x.saved_sender = a
      BY <3>1, <3>3 DEF Applies, Ran, SameCounts
    <3>9. {} \cup L = L
      OBVIOUS
    <3> QED BY <2>1, <2>2, <3>5, <3>7, <3>8, <3>9
  <2>3. CASE p # "mailrules"
    <3>1. Lowers(s, o.x) /\ o.resp \in Response /\ (p # "lua" => o.resp \in Mild)
      BY <2>3, SenderLowers
    <3>2. IsStanding(o.x, L, allowed) /\ (IsLow(s, L) => IsLow(o.x, L))
      <4>1. L \in SUBSET Nat
        BY <1>0
      <4> QED BY <3>1, <4>1, StandingLowers, LowLowers
    <3>3. o.x.loaded = s.loaded /\ o.x.saved_sender = s.saved_sender
      BY <3>1 DEF Lowers
    <3> QED BY <2>1, <2>3, <3>1, <3>2, <3>3
  <2> QED BY <2>2, <2>3
<1>2. y \in G
  <2>1. IsStanding(y, L, allowed)
    BY DEF IsStanding
  <2> QED BY <2>1
<1> HIDE DEF hook, G, H, L
<1>3. Stays(hook, G, Response)
  BY <1>1 DEF Stays
<1>4. PICK k \in 1 .. Len(chain) :
        chain[k] = "mailrules" /\ \A i \in 1 .. k - 1 : chain[i] # "lua"
  BY DEF NoScriptBefore
<1>5. Leads(hook, G, H, E, k)
  <2> SUFFICES ASSUME NEW i \in 1 .. Len(chain), NEW s \in G,
                      NEW o \in answers(chain[i], s, hook)
               PROVE  /\ (i <= k \/ s \in H) /\ Ends(o.resp) => o.x \in H \/ o.resp \in E
                      /\ (i = k \/ s \in H) /\ ~ Ends(o.resp) => o.x \in H
    BY DEF Leads
  <2>1. Ends(o.resp) /\ o.resp \in Mild => o.resp \in E
    BY MildAnswers, MildIsResponse
  <2>2. i < k => chain[i] # "lua"
    BY <1>4
  <2>3. i <= k => i < k \/ i = k
    OBVIOUS
  <2>4. chain[i] = "mailrules" \/ s \in H => o.x \in H
    BY <1>1
  <2>5. i < k => chain[i] = "mailrules" \/ o.resp \in Mild
    BY <1>1, <2>2
  <2> HIDE DEF E
  <2> QED BY <1>4, <2>1, <2>3, <2>4, <2>5
<1>6. \A o \in Call(hook, y) : response_ok(o.resp) => o.x \in H
  <2>1. \A o \in Call(hook, y) : o.x \in H \/ (Ends(o.resp) /\ o.resp \in E)
    <3> HIDE DEF E
    <3> QED BY <1>2, <1>3, <1>5, CallThrough, NoneIsResponse
  <2> QED BY <2>1
<1>7. \A o \in Call(hook, y) : o.x \in G
  BY <1>2, <1>3, CallStays, NoneIsResponse
<1> QED BY <1>0, <1>6, <1>7 DEF hook, G, H, L

\* A session that asks about recipient a under the rules given, and all that
\* the rules of the message may have left by then.
Asking(y, a, given, more, allowed, limits) ==
  /\ y \in Session /\ y.loaded /\ y.saved_sender \in Sender
  /\ a \in Recipient /\ given = ForRecipient[y.saved_sender][a]
  /\ IsStanding(y, more, allowed)
  /\ LimitsOf(given) \subseteq more /\ (Relays(given) => allowed)
  /\ limits \in SUBSET Nat /\ IsLow(y, limits)

LEMMA RecipientCallStands ==
  ASSUME NEW y, NEW a, NEW given, NEW more, NEW allowed, NEW limits,
         Asking(y, a, given, more, allowed, limits),
         chain \in Seq(Plugin), NoScriptBefore(chain, "mailrules")
  PROVE  /\ LimitsOf(given) \subseteq Nat \ {0}
         /\ \A o \in Call(RecipientHook(a), y) :
              /\ o.x \in Session /\ o.x.loaded /\ o.x.saved_sender = y.saved_sender
              /\ IsStanding(o.x, more, allowed)
              /\ IsLow(o.x, limits)
              /\ response_ok(o.resp) => IsLow(o.x, limits \cup LimitsOf(given))
<1> /\ y \in Session /\ y.loaded /\ y.saved_sender \in Sender
    /\ a \in Recipient /\ given = ForRecipient[y.saved_sender][a]
    /\ IsStanding(y, more, allowed)
    /\ LimitsOf(given) \subseteq more /\ (Relays(given) => allowed)
    /\ limits \in SUBSET Nat /\ IsLow(y, limits)
  BY DEF Asking
<1> DEFINE hook == RecipientHook(a)
           L == LimitsOf(given)
           G == {s \in Session : /\ s.loaded /\ s.saved_sender = y.saved_sender
                                 /\ IsStanding(s, more, allowed) /\ IsLow(s, limits)}
           H == {s \in G : IsLow(s, limits \cup L)}
           E == {r \in Response : ~ response_ok(r)}
<1>0. L \subseteq Nat \ {0}
  BY RecipientRules DEF Applies
<1>1. ASSUME NEW p, NEW s \in G, NEW o \in answers(p, s, hook)
      PROVE  /\ o.x \in G /\ o.resp \in Response
             /\ p = "mailrules" \/ s \in H => o.x \in H
             /\ p \notin {"mailrules", "lua"} => o.resp \in Mild
  <2>0. /\ s \in Session /\ s.loaded /\ s.saved_sender = y.saved_sender
        /\ IsStanding(s, more, allowed) /\ IsLow(s, limits)
    OBVIOUS
  <2> HIDE DEF L
  <2>2. CASE p = "mailrules"
    <3>1. o = validate_recipient(s, a) /\ o.x \in Session /\ o.resp \in Response
      BY <2>0, <2>2, RecipientLowers, RecipientAnswers DEF Kept
    <3>2. Applies(s, o, given)
      BY <2>0, <3>1, RecipientRules
    <3>3. IsStanding(o.x, more, allowed)
      <4>1. L \subseteq more /\ (Relays(given) => allowed)
        BY DEF L
      <4> QED BY <2>0, <3>2, <4>1, StandingApplies DEF L
    <3>4. IsLow(o.x, limits \cup L)
      BY <2>0, <3>2, LowApplies DEF L
    <3>5. o.x.loaded /\ o.x.saved_sender = s.saved_sender
      BY <2>0, <3>2 DEF Applies, Ran, SameCounts
    <3>6. IsLow(o.x, limits)
      BY <3>4 DEF IsLow
    <3> QED BY <2>0, <2>2, <3>1, <3>3, <3>4, <3>5, <3>6
  <2>3. CASE p # "mailrules"
    <3>1. Lowers(s, o.x) /\ o.resp \in Response /\ (p # "lua" => o.resp \in Mild)
      BY <2>0, <2>3, RecipientLowers
    <3>2. IsStanding(o.x, more, allowed)
      BY <2>0, <3>1, StandingLowers
    <3>3. IsLow(o.x, limits) /\ (IsLow(s, limits \cup L) => IsLow(o.x, limits \cup L))
      <4>1. limits \cup L \in SUBSET Nat
        BY <1>0
      <4> QED BY <2>0, <3>1, <4>1, LowLowers
    <3>4. o.x \in Session /\ o.x.loaded /\ o.x.saved_sender = s.saved_sender
      BY <2>0, <3>1 DEF Lowers
    <3>5. o.resp \in Response
      BY <3>1
    <3> QED BY <2>0, <2>3, <3>1, <3>2, <3>3, <3>4, <3>5
  <2> QED BY <2>2, <2>3
<1>2. y \in G
  OBVIOUS
<1> HIDE DEF hook, G, H, L
<1>3. Stays(hook, G, Response)
  BY <1>1 DEF Stays
<1>4. PICK k \in 1 .. Len(chain) :
        chain[k] = "mailrules" /\ \A i \in 1 .. k - 1 : chain[i] # "lua"
  BY DEF NoScriptBefore
<1>5. Leads(hook, G, H, E, k)
  <2> SUFFICES ASSUME NEW i \in 1 .. Len(chain), NEW s \in G,
                      NEW o \in answers(chain[i], s, hook)
               PROVE  /\ (i <= k \/ s \in H) /\ Ends(o.resp) => o.x \in H \/ o.resp \in E
                      /\ (i = k \/ s \in H) /\ ~ Ends(o.resp) => o.x \in H
    BY DEF Leads
  <2>1. Ends(o.resp) /\ o.resp \in Mild => o.resp \in E
    BY MildAnswers, MildIsResponse
  <2>2. i < k => chain[i] # "lua"
    BY <1>4
  <2>3. i <= k => i < k \/ i = k
    OBVIOUS
  <2>4. chain[i] = "mailrules" \/ s \in H => o.x \in H
    BY <1>1
  <2>5. i < k => chain[i] = "mailrules" \/ o.resp \in Mild
    BY <1>1, <2>2
  <2> HIDE DEF E
  <2> QED BY <1>4, <2>1, <2>3, <2>4, <2>5
<1>6. \A o \in Call(hook, y) : response_ok(o.resp) => o.x \in H
  <2>1. \A o \in Call(hook, y) : o.x \in H \/ (Ends(o.resp) /\ o.resp \in E)
    <3> HIDE DEF E
    <3> QED BY <1>2, <1>3, <1>5, CallThrough, NoneIsResponse
  <2> QED BY <2>1
<1>7. \A o \in Call(hook, y) : o.x \in G
  BY <1>2, <1>3, CallStays, NoneIsResponse
<1> QED BY <1>0, <1>6, <1>7 DEF hook, G, H, L

LEMMA BodyCallStands ==
  ASSUME NEW y \in Session, NEW tried, NEW relays, IsStanding(y, tried, relays),
         NEW limits \in SUBSET (Nat \ {0}), IsLow(y, limits),
         chain \in Seq(Plugin), NEW name \in MessageHook
  PROVE  \A o \in Call(Hook(name), y) :
           /\ o.x \in Session /\ o.x.loaded = y.loaded /\ o.x.saved_sender = y.saved_sender
           /\ IsStanding(o.x, tried, relays) /\ IsLow(o.x, limits)
           /\ IsWithin(y, limits) => IsWithin(o.x, limits)
           /\ NoScriptBefore(chain, "counters") /\ name = "data_start" /\ response_ok(o.resp) =>
                IsWithin(o.x, limits)
<1> DEFINE hook == Hook(name)
           G == {s \in Session : /\ s.loaded = y.loaded /\ s.saved_sender = y.saved_sender
                                 /\ IsStanding(s, tried, relays) /\ IsLow(s, limits)}
           H == {s \in G : IsWithin(s, limits)}
<1>1. ASSUME NEW p, NEW s \in G, NEW o \in answers(p, s, hook)
      PROVE  /\ o.x \in G /\ o.resp \in Response
             /\ s \in H => o.x \in H
             /\ p = "counters" /\ name = "data_start" =>
                  o.resp # "final" /\ (~ Ends(o.resp) => o.x \in H)
             /\ p # "counters" => o.x = s /\ (p # "lua" => o.resp # "final")
  <2>0. /\ s \in Session /\ s.loaded = y.loaded /\ s.saved_sender = y.saved_sender
        /\ IsStanding(s, tried, relays) /\ IsLow(s, limits) /\ limits \in SUBSET Nat
    OBVIOUS
  <2>1. /\ Lowers(s, o.x) /\ o.resp \in Response
        /\ p # "counters" => o.x = s /\ (p # "lua" => o.resp = "none")
    BY <2>0, BodyLowers
  <2>2. IsStanding(o.x, tried, relays)
    BY <2>0, <2>1, StandingLowers
  <2>3. IsLow(o.x, limits) /\ (IsWithin(s, limits) => IsWithin(o.x, limits))
    BY <2>0, <2>1, LowLowers
  <2>4. o.x \in Session /\ o.x.loaded = s.loaded /\ o.x.saved_sender = s.saved_sender
    BY <2>1 DEF Lowers
  <2>5. ASSUME p = "counters", name = "data_start", ~ Ends(o.resp)
        PROVE  IsWithin(o.x, limits)
    <3>1. o = counters_start(s)
      BY <2>0, <2>5, BodyLowers
    <3>2. o.resp = "none"
      BY <2>0, <2>5, <3>1, CountersStart DEF Ends, response_ok
    <3>3. \A v \in ValuesOf(s, "DATABYTES") \ {0} : SizeOf(o.x) <= v
      BY <2>0, <3>1, <3>2, StartLowers
    <3>4. ValuesOf(o.x, "DATABYTES") = ValuesOf(s, "DATABYTES")
      BY <2>1 DEF Lowers, ValuesOf
    <3>5. OfProcess("DATABYTES") \subseteq ValuesOf(s, "DATABYTES")
      BY DEF OfProcess, ValuesOf
    <3>6. \A l \in limits : SizeOf(o.x) <= l
      BY <2>3, <3>3, <3>4 DEF IsLow
    <3> QED BY <3>3, <3>5, <3>6 DEF IsWithin
  <2>6. p = "counters" /\ name = "data_start" => o.resp # "final"
    BY <2>0, BodyLowers, CountersStart
  <2> QED BY <2>0, <2>1, <2>2, <2>3, <2>4, <2>5, <2>6
<1>2. y \in G /\ H \subseteq G /\ (IsWithin(y, limits) => y \in H)
  OBVIOUS
<1> HIDE DEF hook, G, H
<1>3. Stays(hook, G, Response) /\ Stays(hook, H, Response)
  BY <1>1, <1>2 DEF Stays
<1>4. \A o \in Call(hook, y) : o.x \in G
  BY <1>2, <1>3, CallStays, NoneIsResponse
<1>5. ASSUME IsWithin(y, limits)
      PROVE  \A o \in Call(hook, y) : o.x \in H
  <2>1. y \in H
    BY <1>2, <1>5
  <2> QED BY <1>3, <2>1, CallStays, NoneIsResponse
<1>6. ASSUME NoScriptBefore(chain, "counters"), name = "data_start"
      PROVE  \A o \in Call(hook, y) : response_ok(o.resp) => o.x \in H
  <2>1. Hears(hook, G, H)
    BY <1>1, <1>6 DEF Hears
  <2> QED BY <1>2, <1>3, <1>6, <2>1, CallHeard
<1> QED BY <1>4, <1>5, <1>6 DEF hook, G, H

(***************************************************************************)
(* The steps, by what they do to what plugins keep: nothing, or only that  *)
(* the client authenticates; a reset, of the session as it is or as a hook *)
(* left it; a hook of a message; and Start, MAIL and RCPT.                 *)
(***************************************************************************)
Keeps(s, t) == t = s \/ t = session_setnum(s, "authenticated", 1)

QuietStep ==
  /\ Keeps(x, x') /\ UNCHANGED <<era, saw_mail, last>>
  /\ \/ pc = "loading" /\ x' = x /\ pc' = "starting" /\ chain' \in Chains /\ OnceEach(chain')
     \/ UNCHANGED <<pc, chain>> /\ (pc \in {"loading", "starting"} => x' = x)
     \/ pc = "swallow" /\ pc' = "command" /\ x' = x /\ chain' = chain

LastKept == last' = NoHook \/ (pc = "body" /\ last' = last)

BeforeReset(y) ==
  \/ y = x
  \/ \E o \in handle_reset(x) : y = o.x
  \/ \E name \in MessageHook : \E o \in Call(Hook(name), x) : y = o.x

ResetStep ==
  /\ pc \in {"command", "body"} /\ pc' \in {"command", "swallow", "closed"}
  /\ \E y : BeforeReset(y) /\ \E r \in handle_reset(y) : x' = r.x
  /\ era' = EraAfterReset /\ saw_mail' \in {saw_mail, FALSE} /\ LastKept /\ chain' = chain

BodyStep ==
  /\ pc \in {"command", "body"} /\ pc' \in {"command", "body"}
  /\ \E name \in MessageHook : \E o \in Call(Hook(name), x) :
       /\ response_ok(o.resp) /\ x' = o.x
       /\ pc' = "body" => name = "data_start" \/ pc = "body"
  /\ LastKept /\ UNCHANGED <<era, saw_mail, chain>>

LEMMA RefusedResets ==
  ASSUME NEW y, BeforeReset(y), Refused(y), pc \in {"command", "body"}, LastKept,
         UNCHANGED <<saw_mail, chain>>
  PROVE  ResetStep
BY DEF Refused, ResetStep

LEMMA StepShape ==
  ASSUME Typed, [Next]_vars
  PROVE  \/ QuietStep \/ Start \/ ResetStep \/ BodyStep
         \/ \E a \in Sender, size \in Size : MAIL(a, size)
         \/ \E a \in Recipient : RCPT(a)
<1>1. ASSUME NEW d \in Directive \cup Range(Wrapped), Load(d) PROVE QuietStep
  BY <1>1 DEF Load, QuietStep, Keeps
<1>2. CASE ListStands
  <2>1. Walk(modules) = listed /\ OnceEach(listed)
    BY WalkIsList DEF Typed, Describes
  <2>2. chain' = Walk(modules) /\ OnceEach(chain')
    BY <1>2, <2>1 DEF ListStands
  <2> QED BY <1>2, <2>2 DEF ListStands, QuietStep, Keeps
<1>3. CASE HELO \/ RSET
  <2>1. BeforeReset(x) /\ \A o \in handle_reset(x) : BeforeReset(o.x)
    BY DEF BeforeReset
  <2>2. pc = "command" /\ pc' \in {"command", "closed"} /\ era' = EraAfterReset /\ LastKept
        /\ chain' = chain /\ saw_mail' \in {saw_mail, FALSE}
    BY <1>3 DEF HELO, RSET, LastKept, Loaded
  <2>3. \E y : BeforeReset(y) /\ \E r \in handle_reset(y) : x' = r.x
    <3>1. CASE HELO
      BY <2>1, <3>1 DEF HELO
    <3>2. CASE RSET
      <4>1. PICK o \in handle_reset(x) :
              x' = o.x \/ \E e \in handle_reset(o.x) : x' = e.x
        BY <3>2 DEF RSET
      <4> QED BY <2>1, <4>1
    <3> QED BY <1>3, <3>1, <3>2
  <2> QED BY <2>2, <2>3 DEF ResetStep
<1>4. CASE AUTH \/ EndSwallowed
  BY <1>4 DEF AUTH, EndSwallowed, QuietStep, Keeps, Loaded
<1>5. CASE DATA
  <2>1. /\ pc \in {"command", "body"} /\ pc = "command" /\ LastKept
        /\ UNCHANGED <<saw_mail, chain>>
    BY <1>5 DEF DATA, LastKept, Loaded
  <2>2. BeforeReset(x) /\ \A o \in Call(Hook("data_start"), x) : BeforeReset(o.x)
    BY DEF BeforeReset, MessageHook
  <2>3. ASSUME NEW o \in Call(Hook("data_start"), x), response_ok(o.resp), x' = o.x,
               pc' = "body", UNCHANGED era
        PROVE  BodyStep
    <3>1. "data_start" \in MessageHook
      BY DEF MessageHook
    <3> QED BY <2>1, <2>3, <3>1 DEF BodyStep
  <2> QED BY <1>5, <2>1, <2>2, <2>3, RefusedResets DEF DATA
<1>6. CASE Block
  <2>1. pc = "body" /\ LastKept /\ UNCHANGED <<saw_mail, chain>> /\ "data_block" \in MessageHook
    BY <1>6 DEF Block, LastKept, Loaded, MessageHook
  <2>2. \A o \in Call(Hook("data_block"), x) : BeforeReset(o.x)
    BY <2>1 DEF BeforeReset
  <2>3. ASSUME NEW o \in Call(Hook("data_block"), x), response_ok(o.resp), x' = o.x,
               UNCHANGED <<pc, era>>
        PROVE  BodyStep
    BY <2>1, <2>3 DEF BodyStep
  <2>4. ASSUME NEW o \in Call(Hook("data_block"), x), \E r \in handle_reset(o.x) : x' = r.x,
               pc' = "swallow", era' = EraAfterReset
        PROVE  ResetStep
    BY <2>1, <2>2, <2>4 DEF ResetStep
  <2> QED BY <1>6, <2>3, <2>4 DEF Block
<1>7. CASE End
  <2>1. pc = "body" /\ LastKept /\ UNCHANGED <<saw_mail, chain>> /\ "message_end" \in MessageHook
    BY <1>7 DEF End, LastKept, Loaded, MessageHook
  <2>2. \A o \in Call(Hook("message_end"), x) : BeforeReset(o.x)
    BY <2>1 DEF BeforeReset
  <2>3. ASSUME NEW o \in Call(Hook("message_end"), x), response_ok(o.resp), x' = o.x,
               pc' = "command", era' = era
        PROVE  BodyStep
    BY <2>1, <2>3 DEF BodyStep
  <2> QED BY <1>7, <2>1, <2>2, <2>3, RefusedResets DEF End
<1>8. CASE UNCHANGED vars
  BY <1>8 DEF vars, QuietStep, Keeps
<1> QED BY <1>1, <1>2, <1>3, <1>4, <1>5, <1>6, <1>7, <1>8 DEF Next

(***************************************************************************)
(* What a session keeps of its messages.  Stands is inductive: the session *)
(* record holds no more than the rules of this message gave, the sender    *)
(* that mailrules saved is this message's while it has one, and in a body  *)
(* counters has looked at every limit.                                     *)
(***************************************************************************)
IsSound(s, e) ==
  /\ IsEra(e) /\ e.relays \in BOOLEAN /\ e.limits \in SUBSET (Nat \ {0})
  /\ IsStanding(s, e.tried, e.relays) /\ IsLow(s, e.limits)

Serving == pc \notin {"loading", "starting", "closed"}
Fresh == ~ saw_mail /\ last = NoHook /\ era = NewEra

Stands ==
  /\ pc # "loading" => NoScriptBefore(chain, "mailrules")
  /\ IsSound(x, era)
  /\ Serving => x.loaded
  /\ saw_mail => era.sender \in Sender /\ x.saved_sender = era.sender
  /\ pc \in {"loading", "starting"} => Fresh
  /\ pc = "body" /\ NoScriptBefore(chain, "counters") => IsWithin(x, era.limits)

LEMMA NothingSound ==
  ASSUME NEW s, NEW sender, IsStanding(s, {}, FALSE)
  PROVE  IsSound(s, EraOf(sender))
BY DEF IsSound, IsEra, EraOf, IsLow

\* A client that authenticates changes no number of the message's.
LEMMA KeepsWhat ==
  ASSUME NEW s \in Session, NEW t, Keeps(s, t)
  PROVE  /\ t \in Session /\ t.env = s.env /\ SameCounts(s, t)
         /\ NumIs(t, "maxdatabytes") = NumIs(s, "maxdatabytes")
         /\ NumIs(t, "maxrcpts") = NumIs(s, "maxrcpts")
         /\ SizeOf(t) = SizeOf(s)
<1>1. CASE t = s
  BY <1>1 DEF SameCounts
<1>2. CASE t = session_setnum(s, "authenticated", 1)
  <2>1. 1 \in Nat \ {0} /\ "authenticated" \in NumberName
    BY DEF NumberName
  <2>2. t \in Session /\ SameCounts(s, t) /\ t.env = s.env
    BY <1>2, <2>1, SetNumType
  <2>3. \A n : n # "authenticated" => NumIs(t, n) = NumIs(s, n)
    BY <1>2, <2>1, SetNumIs
  <2>4. /\ NumIs(t, "maxdatabytes") = NumIs(s, "maxdatabytes")
        /\ NumIs(t, "maxrcpts") = NumIs(s, "maxrcpts")
    BY <2>3
  <2> QED BY <2>2, <2>4, SameSize
<1> QED BY <1>1, <1>2 DEF Keeps

LEMMA StandsAfter ==
  ASSUME pc' # "loading" => NoScriptBefore(chain', "mailrules"),
         IsSound(x', era'), Serving' => x'.loaded,
         saw_mail' => era'.sender \in Sender /\ x'.saved_sender = era'.sender,
         pc' \in {"loading", "starting"} => Fresh',
         pc' = "body" /\ NoScriptBefore(chain', "counters") => IsWithin(x', era'.limits)
  PROVE  Stands'
BY DEF Stands, IsSound, IsEra, IsStanding, IsLow, IsWithin, ValuesOf, NumIs, SizeOf,
       NoScriptBefore, OfProcess, session_getnum, session_hasnum

LEMMA StandsQuiet ==
  ASSUME Typed, Stands, QuietStep, \A c \in Chains : NoScriptBefore(c, "mailrules")
  PROVE  Stands'
<1>1. /\ x' \in Session /\ x'.env = x.env /\ SameCounts(x, x')
      /\ NumIs(x', "maxdatabytes") = NumIs(x, "maxdatabytes") /\ SizeOf(x') = SizeOf(x)
  BY KeepsWhat DEF Typed, QuietStep
<1>2. era' = era /\ saw_mail' = saw_mail /\ last' = last
  BY DEF QuietStep
<1>3. IsSound(x', era')
  BY <1>1, <1>2 DEF Stands, IsSound, IsStanding, IsLow, ValuesOf
<1>4. saw_mail' => era'.sender \in Sender /\ x'.saved_sender = era'.sender
  BY <1>1, <1>2 DEF Stands, SameCounts
<1>5. pc' # "loading" => NoScriptBefore(chain', "mailrules")
  BY DEF QuietStep, Stands
<1>6. Serving' => x'.loaded
  BY <1>1 DEF QuietStep, Stands, Serving, SameCounts
<1>7. pc' \in {"loading", "starting"} => Fresh'
  BY <1>2 DEF QuietStep, Stands, Fresh
<1>8. pc' = "body" /\ NoScriptBefore(chain', "counters") => IsWithin(x', era'.limits)
  BY <1>1, <1>2 DEF QuietStep, Stands, IsWithin
<1> QED BY <1>3, <1>4, <1>5, <1>6, <1>7, <1>8, StandsAfter

LEMMA StandsStart ==
  ASSUME Typed, Stands, Start, "MAILRULES" \in DOMAIN Environ
  PROVE  Stands'
<1>1. /\ pc = "starting" /\ pc' \in {"command", "closed"} /\ chain' = chain
      /\ UNCHANGED <<era, saw_mail, last>>
  BY DEF Start, Loaded
<1>2. /\ era = NewEra /\ ~ saw_mail /\ IsStanding(x, {}, FALSE)
      /\ NoScriptBefore(chain, "mailrules") /\ x \in Session /\ chain \in Seq(Plugin)
  <2>1. era = NewEra /\ ~ saw_mail /\ IsStanding(x, era.tried, era.relays)
    BY <1>1 DEF Stands, Fresh, IsSound
  <2>2. NewEra.tried = {} /\ NewEra.relays = FALSE
    BY DEF NewEra, EraOf
  <2>3. NoScriptBefore(chain, "mailrules") /\ x \in Session /\ chain \in Seq(Plugin)
    BY <1>1 DEF Typed, Stands
  <2> QED BY <2>1, <2>2, <2>3
<1>3. \A o \in Call(Hook("init"), x) :
        IsStanding(o.x, {}, FALSE) /\ o.x.loaded
  BY <1>2, InitCallStands
<1>4. IsStanding(x', {}, FALSE) /\ x'.loaded
  BY <1>3 DEF Start
<1>5. IsSound(x', era')
  BY <1>1, <1>2, <1>4, NothingSound DEF NewEra
<1> QED BY <1>1, <1>2, <1>4, <1>5, StandsAfter DEF Serving

LEMMA BeforeResetStands ==
  ASSUME Typed, Stands, pc \in {"command", "body"}, NEW y, BeforeReset(y)
  PROVE  y \in Session /\ y.loaded /\ y.saved_sender = x.saved_sender
<1>1. /\ x \in Session /\ x.loaded /\ chain \in Seq(Plugin) /\ NoScriptBefore(chain, "mailrules")
      /\ IsStanding(x, era.tried, era.relays) /\ IsLow(x, era.limits)
      /\ era.limits \in SUBSET (Nat \ {0})
  BY DEF Typed, Stands, IsSound, Serving
<1>2. ASSUME NEW o \in handle_reset(x), y = o.x
      PROVE  y \in Session /\ y.loaded /\ y.saved_sender = x.saved_sender
  BY <1>1, <1>2, ResetCallStands
<1>3. ASSUME NEW name \in MessageHook, NEW o \in Call(Hook(name), x), y = o.x
      PROVE  y \in Session /\ y.loaded /\ y.saved_sender = x.saved_sender
  BY <1>1, <1>3, BodyCallStands
<1> QED BY <1>1, <1>2, <1>3 DEF BeforeReset

LEMMA StandsReset ==
  ASSUME Typed, Stands, ResetStep
  PROVE  Stands'
<1>1. /\ chain \in Seq(Plugin) /\ NoScriptBefore(chain, "mailrules") /\ chain' = chain
      /\ pc' \in {"command", "swallow", "closed"} /\ pc \in {"command", "body"}
  BY DEF Typed, Stands, ResetStep
<1>2. PICK y : BeforeReset(y) /\ \E r \in handle_reset(y) : x' = r.x
  BY DEF ResetStep
<1>3. y \in Session /\ y.loaded /\ y.saved_sender = x.saved_sender
  BY <1>1, <1>2, BeforeResetStands
<1>4. x'.loaded /\ x'.saved_sender = x.saved_sender /\ IsStanding(x', {}, FALSE)
  BY <1>1, <1>2, <1>3, ResetCallStands
<1>5. era' = EraOf(era.sender) /\ era'.sender = era.sender /\ saw_mail' \in {saw_mail, FALSE}
  BY DEF ResetStep, EraAfterReset, EraOf
<1>6. IsSound(x', era')
  BY <1>4, <1>5, NothingSound
<1>7. saw_mail' => era'.sender \in Sender /\ x'.saved_sender = era'.sender
  BY <1>4, <1>5 DEF Stands
<1> QED BY <1>1, <1>4, <1>6, <1>7, StandsAfter

LEMMA StandsBody ==
  ASSUME Typed, Stands, BodyStep
  PROVE  Stands'
<1>1. /\ chain \in Seq(Plugin) /\ NoScriptBefore(chain, "mailrules") /\ chain' = chain
      /\ pc' \in {"command", "body"} /\ pc \in {"command", "body"}
      /\ UNCHANGED <<era, saw_mail>>
      /\ x \in Session /\ x.loaded /\ IsSound(x, era)
  BY DEF Typed, Stands, BodyStep, Serving
<1>2. /\ era.limits \in SUBSET (Nat \ {0}) /\ x \in Session /\ chain \in Seq(Plugin)
      /\ IsStanding(x, era.tried, era.relays) /\ IsLow(x, era.limits)
  BY <1>1 DEF IsSound
<1>3. ASSUME NEW name \in MessageHook
      PROVE  \A o \in Call(Hook(name), x) :
             /\ o.x \in Session /\ o.x.loaded = x.loaded /\ o.x.saved_sender = x.saved_sender
             /\ IsStanding(o.x, era.tried, era.relays) /\ IsLow(o.x, era.limits)
             /\ IsWithin(x, era.limits) => IsWithin(o.x, era.limits)
             /\ NoScriptBefore(chain, "counters") /\ name = "data_start" /\ response_ok(o.resp) =>
                  IsWithin(o.x, era.limits)
  BY <1>2, BodyCallStands
<1>4. PICK name \in MessageHook : \E o \in Call(Hook(name), x) :
        response_ok(o.resp) /\ x' = o.x /\ (pc' = "body" => name = "data_start" \/ pc = "body")
  BY DEF BodyStep
<1>5. PICK o \in Call(Hook(name), x) :
        response_ok(o.resp) /\ x' = o.x /\ (pc' = "body" => name = "data_start" \/ pc = "body")
  BY <1>4
<1>6. IsSound(x', era')
  BY <1>1, <1>3, <1>5 DEF IsSound
<1>7. saw_mail' => era'.sender \in Sender /\ x'.saved_sender = era'.sender
  BY <1>1, <1>3, <1>5 DEF Stands
<1>8. pc' = "body" /\ NoScriptBefore(chain', "counters") => IsWithin(x', era'.limits)
  BY <1>1, <1>3, <1>5 DEF Stands
<1> QED BY <1>1, <1>3, <1>5, <1>6, <1>7, <1>8, StandsAfter

LEMMA StandsMail ==
  ASSUME Typed, Stands, NEW a \in Sender, NEW size \in Size, MAIL(a, size)
  PROVE  Stands'
<1>1. /\ pc = "command" /\ pc' = pc /\ chain' = chain /\ x \in Session /\ x.loaded
      /\ chain \in Seq(Plugin) /\ NoScriptBefore(chain, "mailrules")
  BY DEF MAIL, Loaded, Typed, Stands, Serving
<1> DEFINE L == LimitsOf(ForSender[a])
<1>2. PICK r \in handle_reset(x) : \E o \in Call(SenderHook(a, size), r.x), b \in Backend :
        /\ x' = o.x /\ saw_mail' = response_ok(Verdict(o.resp, b))
        /\ era' = [NewEra EXCEPT
             !.sender = a, !.tried = L,
             !.limits = IF response_ok(o.resp) THEN L ELSE {},
             !.relays = Relays(ForSender[a])]
  BY DEF MAIL
<1>3. r.x \in Session /\ r.x.loaded /\ IsStanding(r.x, {}, FALSE)
  BY <1>1, ResetCallStands
<1> PICK o \in Call(SenderHook(a, size), r.x), b \in Backend :
        /\ x' = o.x /\ saw_mail' = response_ok(Verdict(o.resp, b))
        /\ era' = [NewEra EXCEPT
             !.sender = a, !.tried = L,
             !.limits = IF response_ok(o.resp) THEN L ELSE {},
             !.relays = Relays(ForSender[a])]
  BY <1>2
<1>4. /\ L \subseteq Nat \ {0} /\ o.x.loaded
      /\ IsStanding(o.x, L, Relays(ForSender[a]))
      /\ response_ok(o.resp) => o.x.saved_sender = a /\ IsLow(o.x, L)
  BY <1>1, <1>3, SenderCallStands
<1> HIDE DEF L
<1>5. /\ era'.sender = a /\ era'.tried = L /\ era'.relays = Relays(ForSender[a])
      /\ era'.limits = (IF response_ok(o.resp) THEN L ELSE {}) /\ IsEra(era')
  BY <1>2 DEF NewEra, EraOf, IsEra
<1>6. IsSound(x', era')
  <2>1. IsLow(x', era'.limits) /\ era'.limits \in SUBSET (Nat \ {0})
    BY <1>2, <1>4, <1>5 DEF IsLow
  <2> QED BY <1>2, <1>4, <1>5, <2>1 DEF IsSound, Relays
<1>7. saw_mail' => era'.sender \in Sender /\ x'.saved_sender = era'.sender
  <2>1. response_ok(Verdict(o.resp, b)) => response_ok(o.resp)
    BY DEF Verdict, response_ok
  <2> QED BY <1>2, <1>4, <1>5, <2>1
<1> QED BY <1>1, <1>2, <1>4, <1>6, <1>7, StandsAfter

LEMMA StandsRcpt ==
  ASSUME Typed, Stands, NEW a \in Recipient, RCPT(a)
  PROVE  Stands'
<1>1. /\ pc = "command" /\ pc' = pc /\ chain' = chain /\ x \in Session /\ x.loaded
      /\ chain \in Seq(Plugin) /\ NoScriptBefore(chain, "mailrules")
      /\ saw_mail' = saw_mail /\ saw_mail
      /\ era.sender \in Sender /\ x.saved_sender = era.sender /\ IsSound(x, era)
  BY DEF RCPT, Loaded, Typed, Stands, Serving
<1> DEFINE given == ForRecipient[x.saved_sender][a]
           L == LimitsOf(given)
           more == era.tried \cup L
           allowed == era.relays \/ Relays(given)
<1> HIDE DEF given, L, more, allowed
<1>2. /\ era.limits \in SUBSET (Nat \ {0}) /\ era.limits \in SUBSET Nat
      /\ era.relays \in BOOLEAN /\ IsStanding(x, era.tried, era.relays) /\ IsLow(x, era.limits)
      /\ x \in Session /\ x.loaded /\ x.saved_sender \in Sender
      /\ chain \in Seq(Plugin) /\ NoScriptBefore(chain, "mailrules")
  BY <1>1 DEF IsSound
<1>3. /\ L \subseteq Nat \ {0}
      /\ \A o \in Call(RecipientHook(a), x) :
           /\ o.x \in Session /\ o.x.loaded /\ o.x.saved_sender = x.saved_sender
           /\ IsStanding(o.x, more, allowed)
           /\ IsLow(o.x, era.limits)
           /\ response_ok(o.resp) => IsLow(o.x, era.limits \cup L)
  <2>1. given = ForRecipient[x.saved_sender][a]
    BY DEF given
  <2>2. LimitsOf(given) \subseteq more /\ (Relays(given) => allowed)
    BY DEF more, allowed, L
  <2>3. IsStanding(x, more, allowed)
    BY <1>2, StandingMore DEF more, allowed
  <2>4. Asking(x, a, given, more, allowed, era.limits)
    BY <1>2, <2>1, <2>2, <2>3 DEF Asking
  <2> QED BY <1>2, <2>4, RecipientCallStands DEF L
<1>4. PICK o \in Call(RecipientHook(a), x) :
        /\ x' = o.x
        /\ era' = [era EXCEPT
             !.tried  = @ \cup L,
             !.limits = IF response_ok(o.resp) THEN @ \cup L ELSE @,
             !.asked  = @ + 1,
             !.took   = IF Accepts(o) THEN @ + 1 ELSE @,
             !.relays = @ \/ Relays(given)]
  BY <1>1 DEF RCPT, given, L
<1>5. /\ era'.sender = era.sender /\ era'.tried = more /\ IsEra(era')
      /\ era'.limits = (IF response_ok(o.resp) THEN era.limits \cup L ELSE era.limits)
      /\ era'.relays = allowed
  BY <1>1, <1>4 DEF IsSound, IsEra, more, allowed
<1>6. IsSound(x', era')
  <2>1. IsLow(x', era'.limits)
    BY <1>3, <1>4, <1>5
  <2>4. era'.limits \in SUBSET (Nat \ {0})
    BY <1>2, <1>3, <1>5
  <2>2. era'.relays \in BOOLEAN
    BY <1>2, <1>5 DEF Relays, allowed
  <2>3. IsStanding(x', era'.tried, era'.relays)
    BY <1>3, <1>4, <1>5
  <2> QED BY <1>5, <2>1, <2>2, <2>3, <2>4 DEF IsSound
<1>7. saw_mail' => era'.sender \in Sender /\ x'.saved_sender = era'.sender
  BY <1>1, <1>2, <1>3, <1>4, <1>5
<1> QED BY <1>1, <1>3, <1>4, <1>6, <1>7, StandsAfter

LEMMA StandsHolds ==
  ASSUME \A c \in Chains : NoScriptBefore(c, "mailrules"), "MAILRULES" \in DOMAIN Environ
  PROVE  Spec => []Stands
<1>1. Init => Stands
  <2> SUFFICES ASSUME Init PROVE Stands
    OBVIOUS
  <2>1. pc = "loading" /\ Fresh /\ x = session_init /\ era = NewEra /\ ~ saw_mail
    BY DEF Init, Fresh
  <2>2. x.env = {} /\ NumIs(x, "maxdatabytes") = {}
    BY <2>1 DEF session_init, NumIs
  <2>3. IsStanding(x, {}, FALSE)
    BY <2>2 DEF IsStanding
  <2>4. IsSound(x, era)
    BY <2>1, <2>3, NothingSound DEF NewEra
  <2> QED BY <2>1, <2>4 DEF Stands, Serving
<1>2. Typed /\ Stands /\ [Next]_vars => Stands'
  BY StepShape, StandsQuiet, StandsStart, StandsReset, StandsBody, StandsMail, StandsRcpt
<1> QED BY <1>1, <1>2, TypedHolds, PTL DEF Spec

(***************************************************************************)
(* SizeLimitAlwaysLeast: with counters and mailrules in the list and no    *)
(* script in front of either, and any rules, no message arrives under a    *)
(* limit above $DATABYTES or above one that the rules gave its sender and  *)
(* recipients, nor under one that an earlier message left                  *)
(* (plugin-counters.c minenv and reset, plugin-mailrules.c apply_rule and  *)
(* reset).                                                                 *)
(***************************************************************************)
THEOREM SizeLimitAlwaysLeast ==
  ASSUME \A c \in Chains : NoScriptBefore(c, "counters") /\ NoScriptBefore(c, "mailrules"),
         "MAILRULES" \in DOMAIN Environ
  PROVE  Spec => []SizeLimitIsLeast
<1>1. Typed /\ Stands /\ Counted => SizeLimitIsLeast
  <2> SUFFICES ASSUME Typed, Stands, Counted, pc = "body" PROVE
          /\ \A limit \in era.limits \cup (OfProcess("DATABYTES") \ {0}) : SizeInForce <= limit
          /\ SizeInForce \in era.tried \cup OfProcess("DATABYTES") \cup {Unlimited}
    BY DEF SizeLimitIsLeast
  <2>1. IsWithin(x, era.limits)
    BY DEF Stands, Counted, HearsAll
  <2>2. NumIs(x, "maxdatabytes") \subseteq era.tried \cup OfProcess("DATABYTES")
    BY DEF Stands, IsSound, IsStanding
  <2>3. SizeInForce \in NumIs(x, "maxdatabytes") \cup {Unlimited}
    BY DEF SizeInForce, NumIs, session_getnum, session_hasnum
  <2>4. SizeInForce = SizeOf(x)
    BY DEF SizeInForce, SizeOf
  <2> QED BY <2>1, <2>2, <2>3, <2>4 DEF IsWithin
<1>2. Spec => []Stands
  BY StandsHolds
<1>3. Spec => []Counted
  <2>1. \A c \in Chains : HasCounters(c)
    BY DEF NoScriptBefore, HasCounters
  <2> QED BY <2>1, CountedHolds
<1> QED BY <1>1, <1>2, <1>3, TypedHolds, PTL


(***************************************************************************)
(* What counters holds against a recipient.  IsLimited: its limit is the   *)
(* process's or one that some rule may set, which is all that a session    *)
(* ever holds; a session asked no more than n counts no more than n.       *)
(***************************************************************************)
IsLimited(s) == NumIs(s, "maxrcpts") \subseteq RecipientLimits

LEMMA ValuesAreLimits ==
  ASSUME NEW s \in Session
  PROVE  ValuesOf(s, "MAXRCPTS") \ {0} \subseteq RecipientLimits
<1>1. s.env \subseteq Assignment
  BY DEF Session
<1> QED BY <1>1 DEF ValuesOf, RecipientLimits, OfProcess

LEMMA LimitedLowers ==
  ASSUME NEW s \in Session, NEW t, Lowers(s, t), IsLimited(s)
  PROVE  IsLimited(t)
BY ValuesAreLimits DEF Lowers, IsLimited

LEMMA LimitedApplies ==
  ASSUME NEW s, NEW o, NEW applied, Applies(s, o, applied), IsLimited(s)
  PROVE  IsLimited(o.x)
BY DEF Applies, Ran, IsLimited

LEMMA ResetCallCounts ==
  ASSUME NEW y \in Session, IsLimited(y), chain \in Seq(Plugin), NoScriptBefore(chain, "counters")
  PROVE  \A o \in handle_reset(y) : o.x \in Session /\ IsLimited(o.x) /\ o.x.rcpt_count = 0
<1> DEFINE hook == Hook("reset")
           G == {s \in Session : IsLimited(s)}
           H == {s \in G : s.rcpt_count = 0}
<1>1. ASSUME NEW p, NEW s \in G, NEW o \in answers(p, s, hook)
      PROVE  /\ o.x \in G /\ o.resp \in Response
             /\ p = "counters" \/ s \in H => o.x \in H
             /\ p # "lua" => ~ Ends(o.resp)
  <2>1. o.x \in Session /\ o.resp \in Response
    BY ResetStays
  <2>2. p # "lua" => ~ Ends(o.resp)
    BY ResetLowers DEF Ends, response_ok
  <2>3. CASE p = "mailrules"
    <3>1. NumIs(o.x, "maxrcpts") = NumIs(s, "maxrcpts") /\ o.x.rcpt_count = s.rcpt_count
      BY <2>3, ResetLowers, MailrulesReset DEF SameCounts
    <3> QED BY <2>1, <2>2, <2>3, <3>1 DEF IsLimited
  <2>4. CASE p # "mailrules"
    <3>1. Lowers(s, o.x) /\ (p = "counters" => o.x.rcpt_count = 0) /\ (p # "counters" => o.x = s)
      BY <2>4, ResetLowers
    <3>2. IsLimited(o.x)
      BY <3>1, LimitedLowers
    <3> QED BY <2>1, <2>2, <3>1, <3>2
  <2> QED BY <2>3, <2>4
<1>2. y \in G
  OBVIOUS
<1> HIDE DEF hook, G, H
<1>3. Stays(hook, G, Response)
  BY <1>1 DEF Stays
<1>4. PICK k \in 1 .. Len(chain) :
        chain[k] = "counters" /\ \A i \in 1 .. k - 1 : chain[i] # "lua"
  BY DEF NoScriptBefore
<1>5. Leads(hook, G, H, {}, k)
  <2> SUFFICES ASSUME NEW i \in 1 .. Len(chain), NEW s \in G,
                      NEW o \in answers(chain[i], s, hook)
               PROVE  /\ (i <= k \/ s \in H) /\ Ends(o.resp) => o.x \in H
                      /\ (i = k \/ s \in H) /\ ~ Ends(o.resp) => o.x \in H
    BY DEF Leads
  <2>1. i < k => chain[i] # "lua"
    BY <1>4
  <2>2. i <= k => i < k \/ i = k
    OBVIOUS
  <2> QED BY <1>1, <1>4, <2>1, <2>2
<1>6. \A o \in Call(hook, y) : o.x \in H
  BY <1>2, <1>3, <1>5, CallThrough, NoneIsResponse
<1> QED BY <1>6 DEF handle_reset, hook, G, H

LEMMA InitCallCounts ==
  ASSUME NEW y \in Session, IsLimited(y), chain \in Seq(Plugin)
  PROVE  \A o \in Call(Hook("init"), y) : IsLimited(o.x) /\ o.x.rcpt_count = y.rcpt_count
<1> DEFINE hook == Hook("init")
           G == {s \in Session : IsLimited(s) /\ s.rcpt_count = y.rcpt_count}
<1>1. ASSUME NEW p, NEW s \in G, NEW o \in answers(p, s, hook)
      PROVE  o.x \in G /\ o.resp \in Response
  <2>1. o.x \in Session /\ o.resp \in Response /\ o.x.rcpt_count = s.rcpt_count
    BY InitAnswers DEF Kept
  <2>2. CASE p = "mailrules"
    <3>1. o.x.nums = s.nums
      BY <2>2, InitLowers, MailrulesInit
    <3> QED BY <2>1, <3>1 DEF IsLimited, NumIs
  <2>3. CASE p # "mailrules"
    <3>1. Lowers(s, o.x)
      BY <2>3, InitLowers
    <3> QED BY <2>1, <3>1, LimitedLowers
  <2> QED BY <2>2, <2>3
<1>2. y \in G
  OBVIOUS
<1> HIDE DEF hook, G
<1>3. Stays(hook, G, Response)
  BY <1>1 DEF Stays
<1>4. \A o \in Call(hook, y) : o.x \in G
  BY <1>2, <1>3, CallStays, NoneIsResponse
<1> QED BY <1>4 DEF hook, G

LEMMA SenderCallCounts ==
  ASSUME NEW y \in Session, y.loaded, IsLimited(y), chain \in Seq(Plugin),
         NEW a \in Sender, NEW size
  PROVE  \A o \in Call(SenderHook(a, size), y) : IsLimited(o.x) /\ o.x.rcpt_count = y.rcpt_count
<1> DEFINE hook == SenderHook(a, size)
           G == {s \in Session : s.loaded /\ IsLimited(s) /\ s.rcpt_count = y.rcpt_count}
<1>1. ASSUME NEW p, NEW s \in G, NEW o \in answers(p, s, hook)
      PROVE  o.x \in G /\ o.resp \in Response
  <2>1. o.x \in Session /\ o.resp \in Response /\ o.x.rcpt_count = s.rcpt_count
    BY SenderAnswers DEF Kept
  <2>2. CASE p = "mailrules"
    <3> DEFINE t == [s EXCEPT !.saved_sender = a]
    <3>1. t \in Session /\ t.nums = s.nums /\ t.loaded
      BY DEF Session
    <3>2. o = validate_sender(s, a)
      BY <2>2, SenderLowers
    <3>3. Applies(t, o, ForSender[a])
      BY <3>2, SenderRules
    <3> HIDE DEF t
    <3>4. IsLimited(t)
      BY <3>1 DEF IsLimited, NumIs
    <3>5. o.x.loaded
      BY <3>1, <3>3 DEF Applies, Ran, SameCounts
    <3> QED BY <2>1, <3>3, <3>4, <3>5, LimitedApplies
  <2>3. CASE p # "mailrules"
    <3>1. Lowers(s, o.x)
      BY <2>3, SenderLowers
    <3>2. o.x.loaded
      BY <3>1 DEF Lowers
    <3> QED BY <2>1, <3>1, <3>2, LimitedLowers
  <2> QED BY <2>2, <2>3
<1>2. y \in G
  OBVIOUS
<1> HIDE DEF hook, G
<1>3. Stays(hook, G, Response)
  BY <1>1 DEF Stays
<1>4. \A o \in Call(hook, y) : o.x \in G
  BY <1>2, <1>3, CallStays, NoneIsResponse
<1> QED BY <1>4 DEF hook, G

LEMMA BodyCallCounts ==
  ASSUME NEW y \in Session, IsLimited(y), chain \in Seq(Plugin), NEW name \in MessageHook
  PROVE  \A o \in Call(Hook(name), y) :
           o.x \in Session /\ IsLimited(o.x) /\ o.x.rcpt_count = y.rcpt_count
<1> DEFINE hook == Hook(name)
           G == {s \in Session : IsLimited(s) /\ s.rcpt_count = y.rcpt_count}
<1>1. ASSUME NEW p, NEW s \in G, NEW o \in answers(p, s, hook)
      PROVE  o.x \in G /\ o.resp \in Response
  <2>1. Lowers(s, o.x) /\ o.resp \in Response /\ o.x.rcpt_count = s.rcpt_count
    BY BodyLowers
  <2>2. o.x \in Session
    BY <2>1 DEF Lowers
  <2> QED BY <2>1, <2>2, LimitedLowers
<1>2. y \in G
  OBVIOUS
<1> HIDE DEF hook, G
<1>3. Stays(hook, G, Response)
  BY <1>1 DEF Stays
<1>4. \A o \in Call(hook, y) : o.x \in G
  BY <1>2, <1>3, CallStays, NoneIsResponse
<1> QED BY <1>4 DEF hook, G


\* A recipient: counters, which is in the list once, counts it once, and
\* whoever is refused by it is over a limit then.
LEMMA RecipientCallCounts ==
  ASSUME NEW y \in Session, y.loaded, y.saved_sender \in Sender, IsLimited(y),
         chain \in Seq(Plugin), OnceEach(chain), HasCounters(chain), NEW a \in Recipient
  PROVE  \A o \in Call(RecipientHook(a), y) :
           /\ o.x \in Session /\ IsLimited(o.x) /\ o.x.rcpt_count <= y.rcpt_count + 1
           /\ o.by = "counters" => \E v \in NumIs(o.x, "maxrcpts") : o.x.rcpt_count > v
<1> DEFINE hook == RecipientHook(a)
           n == Len(chain)
           m == y.rcpt_count
           G == {s \in Session : s.loaded /\ s.saved_sender \in Sender /\ IsLimited(s)}
           Over(s) == \E v \in NumIs(s, "maxrcpts") : s.rcpt_count > v
<1>1. ASSUME NEW p, NEW s \in G, NEW o \in answers(p, s, hook)
      PROVE  /\ o.x \in G /\ o.resp \in Response
             /\ p = "counters" => o.x.rcpt_count = s.rcpt_count + 1 /\ (Ends(o.resp) => Over(o.x))
             /\ p # "counters" => o.x.rcpt_count = s.rcpt_count
  <2>0. s \in Session /\ s.loaded /\ s.saved_sender \in Sender /\ IsLimited(s)
    OBVIOUS
  <2>1. /\ p = "counters" => o.x.rcpt_count = s.rcpt_count + 1 /\ (Ends(o.resp) => Over(o.x))
        /\ p # "counters" => o.x.rcpt_count = s.rcpt_count
        /\ p = "mailrules" => o = validate_recipient(s, a)
        /\ p # "mailrules" => Lowers(s, o.x) /\ o.resp \in Response
    BY <2>0, RecipientLowers
  <2>2. CASE p = "mailrules"
    <3>1. Applies(s, o, ForRecipient[s.saved_sender][a])
      BY <2>0, <2>1, <2>2, RecipientRules
    <3>2. o.x \in Session /\ o.x.loaded /\ o.x.saved_sender = s.saved_sender
      BY <2>0, <3>1 DEF Applies, Ran, SameCounts
    <3>3. o.resp \in Response
      BY <2>0, <2>2, RecipientAnswers DEF Kept
    <3>4. IsLimited(o.x)
      BY <2>0, <3>1, LimitedApplies
    <3> QED BY <2>0, <2>1, <3>2, <3>3, <3>4
  <2>3. CASE p # "mailrules"
    <3>1. o.x \in Session /\ o.x.loaded /\ o.x.saved_sender = s.saved_sender
      BY <2>0, <2>1, <2>3 DEF Lowers
    <3>2. o.resp \in Response
      BY <2>1, <2>3
    <3>3. IsLimited(o.x)
      BY <2>0, <2>1, <2>3, LimitedLowers
    <3> QED BY <2>0, <2>1, <3>1, <3>2, <3>3
  <2> QED BY <2>2, <2>3
<1>2. y \in G /\ m \in Nat
  BY DEF Session
<1>3. PICK k \in 1 .. n : chain[k] = "counters"
  BY DEF HasCounters
<1>4. n \in Nat /\ n \in 0 .. n /\ 0 \in 0 .. n /\ \A i \in 1 .. n : chain[i] = "counters" => i = k
  BY <1>3 DEF OnceEach
<1> DEFINE Good(acc, i) == /\ acc.by = "counters" => Over(acc.x)
                           /\ acc.x.rcpt_count <= m + 1
                           /\ i < k => acc.x.rcpt_count <= m
           J == [i \in 0 .. n |-> {acc \in Outcome(G, Response) : Good(acc, i)}]
<1> HIDE DEF hook, n, m, G, Over
<1>5. Stays(hook, G, Response)
  BY <1>1 DEF Stays
<1>6. [x |-> y, resp |-> "none", by |-> "none"] \in J[0]
  <2>1. y.rcpt_count <= m /\ y.rcpt_count <= m + 1
    BY <1>2 DEF m
  <2> QED BY <1>2, <1>4, <2>1, NoneIsResponse DEF Outcome
<1>7. ASSUME NEW i \in 1 .. n, NEW acc \in Outcome(G, Response), acc \in J[i - 1],
             NEW e \in Outcomes(acc, chain[i], hook)
      PROVE  e \in J[i]
  <2>1. i \in 0 .. n /\ i - 1 \in 0 .. n /\ (i < k => i - 1 < k) /\ (i = k => i - 1 < k)
    BY <1>3, <1>4
  <2>2. Good(acc, i - 1) /\ acc.x \in G /\ acc.x.rcpt_count \in Nat
    <3>1. Good(acc, i - 1) /\ acc.x \in G
      BY <1>7, <2>1 DEF Outcome
    <3> QED BY <3>1 DEF G, Session
  <2>3. chain[i] \in Plugin /\ chain[i] # "none"
    BY PluginsAssumption DEF n
  <2>4. e \in Outcome(G, Response)
    BY <1>5, <2>3, NoneIsResponse, OutcomesType
  <2>5. Good(e, i)
    <3>1. CASE acc.by # "none"
      <4>1. e = acc
        BY <3>1, OneMore
      <4> QED BY <2>1, <2>2, <4>1
    <3>2. CASE acc.by = "none"
      <4>1. PICK o \in answers(chain[i], acc.x, hook) :
              /\ e.x = o.x
              /\ Ends(o.resp) => e.resp = o.resp /\ e.by = chain[i]
              /\ ~ Ends(o.resp) => e.by = "none"
        BY <3>2, OneMore
      <4>2. CASE chain[i] = "counters"
        <5>1. i = k /\ e.x.rcpt_count = acc.x.rcpt_count + 1 /\ (Ends(o.resp) => Over(e.x))
          BY <1>1, <1>4, <2>2, <4>1, <4>2
        <5>2. acc.x.rcpt_count <= m /\ ~ (i < k)
          BY <1>3, <2>1, <2>2, <5>1
        <5>3. e.x.rcpt_count <= m + 1
          BY <1>2, <2>2, <5>1, <5>2
        <5>4. e.by = "counters" => Over(e.x)
          BY <4>1, <5>1
        <5> QED BY <5>2, <5>3, <5>4
      <4>3. CASE chain[i] # "counters"
        <5>1. e.x.rcpt_count = acc.x.rcpt_count /\ e.by # "counters"
          BY <1>1, <2>2, <4>1, <4>3
        <5> QED BY <2>1, <2>2, <5>1
      <4> QED BY <4>2, <4>3
    <3> QED BY <3>1, <3>2
  <2> HIDE DEF Good
  <2> QED BY <2>1, <2>4, <2>5
<1> HIDE DEF J
<1>8. \A o \in Call(hook, y) : o \in Outcome(G, Response) /\ o \in J[n]
  BY <1>2, <1>5, <1>6, <1>7, NoneIsResponse, CallAlong DEF n
<1>9. \A o \in Call(hook, y) : Good(o, n) /\ o.x \in G
  BY <1>4, <1>8 DEF J, Outcome
<1> QED BY <1>9 DEF hook, m, G, Over


(***************************************************************************)
(* Counting is inductive beside Stands: counters counts no recipient that  *)
(* this message did not ask for, against no limit that is not one of its   *)
(* own, and the last answer kept is of a command after the last reset.     *)
(***************************************************************************)
Within(s, e) == IsLimited(s) /\ e.asked \in Nat /\ s.rcpt_count <= e.asked

Counting ==
  /\ pc # "loading" => NoScriptBefore(chain, "counters") /\ OnceEach(chain)
  /\ Within(x, era)
  /\ pc \in {"body", "swallow", "loading", "starting"} => last = NoHook
  /\ RefusedForThisMessage

LEMMA CountingAfter ==
  ASSUME pc' # "loading" => NoScriptBefore(chain', "counters") /\ OnceEach(chain'),
         Within(x', era'),
         pc' \in {"body", "swallow", "loading", "starting"} => last' = NoHook,
         last'.hook = "recipient" /\ last'.by = "counters" =>
           \E max \in RecipientLimits : era'.asked > max
  PROVE  Counting'
<1>1. RefusedForThisMessage'
  BY DEF RefusedForThisMessage, RecipientLimits, OfProcess, Assignment
<1>2. Within(x, era)'
  BY DEF Within, IsLimited, NumIs, RecipientLimits, OfProcess, Assignment
<1> QED BY <1>1, <1>2 DEF Counting, NoScriptBefore, OnceEach

LEMMA NoHookRefused == NoHook.hook # "recipient"
BY DEF NoHook

LEMMA CountingQuiet ==
  ASSUME Typed, Counting, QuietStep, \A c \in Chains : NoScriptBefore(c, "counters")
  PROVE  Counting'
<1>1. x' \in Session /\ NumIs(x', "maxrcpts") = NumIs(x, "maxrcpts") /\ SameCounts(x, x')
  BY KeepsWhat DEF Typed, QuietStep
<1>2. era' = era /\ last' = last
  BY DEF QuietStep
<1>3. Within(x', era')
  BY <1>1, <1>2 DEF Counting, Within, IsLimited, SameCounts
<1>4. pc' # "loading" => NoScriptBefore(chain', "counters") /\ OnceEach(chain')
  BY DEF QuietStep, Counting
<1>5. pc' \in {"body", "swallow", "loading", "starting"} => last' = NoHook
  BY <1>2 DEF QuietStep, Counting
<1>6. last'.hook = "recipient" /\ last'.by = "counters" =>
        \E max \in RecipientLimits : era'.asked > max
  BY <1>2 DEF Counting, RefusedForThisMessage
<1> QED BY <1>3, <1>4, <1>5, <1>6, CountingAfter

LEMMA CountingStart ==
  ASSUME Typed, Counting, Start
  PROVE  Counting'
<1>1. /\ pc = "starting" /\ pc' \in {"command", "closed"} /\ chain' = chain
      /\ UNCHANGED <<era, saw_mail, last>>
  BY DEF Start, Loaded
<1>2. /\ x \in Session /\ chain \in Seq(Plugin) /\ Within(x, era) /\ last = NoHook
      /\ NoScriptBefore(chain, "counters") /\ OnceEach(chain)
  BY <1>1 DEF Typed, Counting
<1>3. \A o \in Call(Hook("init"), x) : IsLimited(o.x) /\ o.x.rcpt_count = x.rcpt_count
  BY <1>2, InitCallCounts DEF Within
<1>4. IsLimited(x') /\ x'.rcpt_count = x.rcpt_count
  BY <1>3 DEF Start
<1>5. Within(x', era')
  BY <1>1, <1>2, <1>4 DEF Within
<1> QED BY <1>1, <1>2, <1>5, NoHookRefused, CountingAfter

LEMMA CountingReset ==
  ASSUME Typed, Counting, ResetStep
  PROVE  Counting'
<1>1. /\ x \in Session /\ chain \in Seq(Plugin) /\ IsLimited(x) /\ pc \in {"command", "body"}
      /\ NoScriptBefore(chain, "counters") /\ OnceEach(chain)
  BY DEF Typed, Counting, Within, ResetStep
<1>2. PICK y : BeforeReset(y) /\ \E r \in handle_reset(y) : x' = r.x
  BY DEF ResetStep
<1>3. y \in Session /\ IsLimited(y)
  <2>1. ASSUME NEW o \in handle_reset(x), y = o.x
        PROVE  y \in Session /\ IsLimited(y)
    BY <1>1, <2>1, ResetCallCounts
  <2>2. ASSUME NEW name \in MessageHook, NEW o \in Call(Hook(name), x), y = o.x
        PROVE  y \in Session /\ IsLimited(y)
    BY <1>1, <2>2, BodyCallCounts
  <2> QED BY <1>1, <1>2, <2>1, <2>2 DEF BeforeReset
<1>4. \A r \in handle_reset(y) : IsLimited(r.x) /\ r.x.rcpt_count = 0
  BY <1>1, <1>3, ResetCallCounts
<1>5. era'.asked = 0
  BY DEF ResetStep, EraAfterReset, EraOf
<1>6. Within(x', era')
  BY <1>2, <1>4, <1>5 DEF Within
<1>7. last' = NoHook /\ chain' = chain
  BY DEF ResetStep, LastKept, Counting
<1> QED BY <1>1, <1>6, <1>7, NoHookRefused, CountingAfter

LEMMA CountingBody ==
  ASSUME Typed, Counting, BodyStep
  PROVE  Counting'
<1>1. /\ x \in Session /\ chain \in Seq(Plugin) /\ Within(x, era) /\ IsLimited(x)
      /\ NoScriptBefore(chain, "counters") /\ OnceEach(chain)
  BY DEF Typed, Counting, Within, BodyStep
<1>2. PICK name \in MessageHook : \E o \in Call(Hook(name), x) : x' = o.x
  BY DEF BodyStep
<1>3. \A o \in Call(Hook(name), x) : IsLimited(o.x) /\ o.x.rcpt_count = x.rcpt_count
  BY <1>1, BodyCallCounts
<1>4. last' = NoHook /\ era' = era /\ chain' = chain
  BY DEF BodyStep, LastKept, Counting
<1>5. Within(x', era')
  BY <1>1, <1>2, <1>3, <1>4 DEF Within
<1> QED BY <1>1, <1>4, <1>5, NoHookRefused, CountingAfter

LEMMA CountingMail ==
  ASSUME Typed, Stands, Counting, NEW a \in Sender, NEW size \in Size, MAIL(a, size)
  PROVE  Counting'
<1>1. /\ pc = "command" /\ pc' = pc /\ chain' = chain /\ x \in Session /\ x.loaded
      /\ chain \in Seq(Plugin) /\ NoScriptBefore(chain, "mailrules") /\ IsLimited(x)
      /\ NoScriptBefore(chain, "counters") /\ OnceEach(chain)
  BY DEF MAIL, Loaded, Typed, Stands, Serving, Counting, Within
<1>2. PICK r \in handle_reset(x) : \E o \in Call(SenderHook(a, size), r.x) : x' = o.x
  BY DEF MAIL
<1>3. r.x \in Session /\ IsLimited(r.x) /\ r.x.rcpt_count = 0
  BY <1>1, ResetCallCounts
<1>4. r.x.loaded
  BY <1>1, ResetCallStands
<1>5. \A o \in Call(SenderHook(a, size), r.x) : IsLimited(o.x) /\ o.x.rcpt_count = r.x.rcpt_count
  BY <1>1, <1>3, <1>4, SenderCallCounts
<1>6. era'.asked = 0 /\ last'.hook = "sender"
  BY DEF MAIL, NewEra, EraOf
<1>7. Within(x', era')
  BY <1>2, <1>3, <1>5, <1>6 DEF Within
<1> QED BY <1>1, <1>6, <1>7, CountingAfter

LEMMA CountingRcpt ==
  ASSUME Typed, Stands, Counting, NEW a \in Recipient, RCPT(a)
  PROVE  Counting'
<1>1. /\ pc = "command" /\ pc' = pc /\ chain' = chain
      /\ NoScriptBefore(chain, "counters") /\ OnceEach(chain)
  BY DEF RCPT, Loaded, Counting
<1>2. /\ x \in Session /\ x.loaded /\ x.saved_sender \in Sender /\ chain \in Seq(Plugin)
      /\ IsLimited(x) /\ x.rcpt_count <= era.asked /\ era.asked \in Nat /\ x.rcpt_count \in Nat
      /\ IsEra(era) /\ OnceEach(chain) /\ HasCounters(chain)
  <2>1. x.loaded /\ x.saved_sender \in Sender /\ IsEra(era)
    BY DEF RCPT, Stands, Serving, IsSound
  <2>2. IsLimited(x) /\ x.rcpt_count <= era.asked /\ era.asked \in Nat
    BY DEF Counting, Within
  <2>3. x \in Session /\ chain \in Seq(Plugin) /\ x.rcpt_count \in Nat
    BY DEF Typed, Session
  <2> QED BY <1>1, <2>1, <2>2, <2>3 DEF HasCounters, NoScriptBefore
<1>3. \A o \in Call(RecipientHook(a), x) :
        /\ o.x \in Session /\ IsLimited(o.x) /\ o.x.rcpt_count <= x.rcpt_count + 1
        /\ o.by = "counters" => \E v \in NumIs(o.x, "maxrcpts") : o.x.rcpt_count > v
  BY <1>2, RecipientCallCounts
<1>4. PICK o \in Call(RecipientHook(a), x) :
        /\ x' = o.x
        /\ last' = [hook |-> "recipient", address |-> a, resp |-> o.resp, by |-> o.by]
        /\ era' = [era EXCEPT
             !.tried  = @ \cup LimitsOf(ForRecipient[era.sender][a]),
             !.limits = IF response_ok(o.resp)
                        THEN @ \cup LimitsOf(ForRecipient[era.sender][a]) ELSE @,
             !.asked  = @ + 1,
             !.took   = IF Accepts(o) THEN @ + 1 ELSE @,
             !.relays = @ \/ Relays(ForRecipient[era.sender][a])]
  BY DEF RCPT
<1>5. era'.asked = era.asked + 1
  BY <1>2, <1>4 DEF IsEra
<1>6. o.x \in Session /\ IsLimited(o.x) /\ o.x.rcpt_count \in Nat /\ o.x.rcpt_count <= era.asked + 1
  <2>1. o.x \in Session /\ IsLimited(o.x) /\ o.x.rcpt_count <= x.rcpt_count + 1
    BY <1>3
  <2>2. o.x.rcpt_count \in Nat
    BY <2>1 DEF Session
  <2> QED BY <1>2, <2>1, <2>2
<1>7. Within(x', era')
  BY <1>2, <1>4, <1>5, <1>6 DEF Within
<1>8. ASSUME o.by = "counters"
      PROVE  \E max \in RecipientLimits : era'.asked > max
  <2>1. PICK v \in NumIs(o.x, "maxrcpts") : o.x.rcpt_count > v
    BY <1>3, <1>8
  <2>2. v \in Nat /\ v \in RecipientLimits
    BY <1>6, NumType DEF IsLimited
  <2> QED BY <1>2, <1>5, <1>6, <2>1, <2>2
<1>9. last'.by = o.by
  BY <1>4
<1> QED BY <1>1, <1>7, <1>8, <1>9, CountingAfter

LEMMA CountingHolds ==
  ASSUME \A c \in Chains : NoScriptBefore(c, "counters") /\ NoScriptBefore(c, "mailrules"),
         "MAILRULES" \in DOMAIN Environ
  PROVE  Spec => []Counting
<1>1. Init => Counting
  <2> SUFFICES ASSUME Init PROVE Counting
    OBVIOUS
  <2>1. pc = "loading" /\ last = NoHook /\ x = session_init /\ era = NewEra
    BY DEF Init
  <2>2. NumIs(x, "maxrcpts") = {} /\ x.rcpt_count = 0 /\ era.asked = 0
    BY <2>1 DEF session_init, NumIs, NewEra, EraOf
  <2> QED BY <2>1, <2>2, NoHookRefused DEF Counting, Within, IsLimited, RefusedForThisMessage
<1>2. Typed /\ Stands /\ Counting /\ [Next]_vars => Counting'
  BY StepShape, CountingQuiet, CountingStart, CountingReset, CountingBody, CountingMail,
     CountingRcpt
<1>3. Spec => []Stands
  BY StandsHolds
<1> QED BY <1>1, <1>2, <1>3, TypedHolds, PTL DEF Spec

(***************************************************************************)
(* NothingIsEverLeftOver: with counters and mailrules in the list, no      *)
(* script in front of either, and any rules, what earlier messages did is  *)
(* neither held against a recipient of this one nor a right for it (the    *)
(* reset hooks of plugin-counters.c and plugin-mailrules.c).               *)
(***************************************************************************)
THEOREM NothingIsEverLeftOver ==
  ASSUME \A c \in Chains : NoScriptBefore(c, "counters") /\ NoScriptBefore(c, "mailrules"),
         "MAILRULES" \in DOMAIN Environ
  PROVE  Spec => []NothingIsLeftOver
<1>1. Stands /\ Counting => NothingIsLeftOver
  <2>1. Counting => RefusedForThisMessage
    BY DEF Counting
  <2>2. Stands => RelayIsForThisMessage
    BY DEF Stands, IsSound, IsStanding, RelayIsForThisMessage, IsSet, ValuesOf
  <2> QED BY <2>1, <2>2 DEF NothingIsLeftOver
<1>2. Spec => []Stands
  BY StandsHolds
<1>3. Spec => []Counting
  BY CountingHolds
<1> QED BY <1>1, <1>2, <1>3, PTL


(***************************************************************************)
(* What a command answers, by what the rules say of it: mailrules ends it  *)
(* with that answer, nobody behind mailrules ends it before a final answer *)
(* of the rules does, and what they accept has an answer.                  *)
(***************************************************************************)
Agrees(o, resp, up) ==
  /\ o.by = "mailrules" => o.resp = resp
  /\ Ends(resp) => o.by \in up
  /\ resp = "ok" => o.resp # "none"

LEMMA CallAgrees ==
  ASSUME NEW hook, NEW G, NEW y \in G, Stays(hook, G, Response), chain \in Seq(Plugin),
         \E k \in 1 .. Len(chain) : chain[k] = "mailrules",
         NEW resp, \A s \in G : \A o \in answers("mailrules", s, hook) : o.resp = resp
  PROVE  \A o \in Call(hook, y) : Agrees(o, resp, UpTo(chain, "mailrules"))
<1> DEFINE n == Len(chain)
           up == UpTo(chain, "mailrules")
           None(i) == \A j \in 1 .. i : chain[j] # "mailrules"
           Good(acc, i) == /\ acc.by = "mailrules" => acc.resp = resp
                           /\ acc.by # "none" => Ends(acc.resp)
                           /\ Ends(resp) => acc.by \in up \/ (acc.by = "none" /\ None(i))
                           /\ resp = "ok" /\ ~ None(i) => acc.resp # "none"
           J == [i \in 0 .. n |-> {acc \in Outcome(G, Response) : Good(acc, i)}]
<1>1. n \in Nat /\ n \in 0 .. n /\ 0 \in 0 .. n /\ None(0) /\ ~ None(n) /\ DOMAIN chain = 1 .. n
  OBVIOUS
<1>2. ~ Ends("ok") /\ ~ Ends("none") /\ "none" # "mailrules"
  BY DEF Ends, response_ok
<1>3. ASSUME NEW i \in 1 .. n
      PROVE  /\ None(i - 1) => chain[i] \in up
             /\ None(i) <=> None(i - 1) /\ chain[i] # "mailrules"
  <2>1. None(i - 1) => chain[i] \in up
    BY <1>1, <1>3 DEF UpTo
  <2>2. \A j \in 1 .. i : j = i \/ j \in 1 .. i - 1
    OBVIOUS
  <2>3. i \in 1 .. i /\ \A j \in 1 .. i - 1 : j \in 1 .. i
    OBVIOUS
  <2> QED BY <2>1, <2>2, <2>3
<1>4. "none" \notin up
  BY PluginsAssumption, <1>1 DEF UpTo
<1> HIDE DEF n, up, None
<1>5. [x |-> y, resp |-> "none", by |-> "none"] \in J[0]
  BY <1>1, <1>2, NoneIsResponse DEF Outcome
<1>6. ASSUME NEW i \in 1 .. n, NEW acc \in Outcome(G, Response), acc \in J[i - 1],
             NEW e \in Outcomes(acc, chain[i], hook)
      PROVE  e \in J[i]
  <2>1. i \in 0 .. n /\ i - 1 \in 0 .. n
    BY <1>1
  <2>2. Good(acc, i - 1) /\ acc.x \in G
    BY <1>6, <2>1 DEF Outcome
  <2>3. chain[i] \in Plugin /\ chain[i] # "none"
    BY PluginsAssumption DEF n
  <2>4. e \in Outcome(G, Response)
    BY <2>3, NoneIsResponse, OutcomesType
  <2>5. Good(e, i)
    <3>1. CASE acc.by # "none"
      <4>1. e = acc
        BY <3>1, OneMore
      <4>2. acc.resp # "none"
        BY <1>2, <2>2, <3>1
      <4> QED BY <2>2, <3>1, <4>1, <4>2
    <3>2. CASE acc.by = "none"
      <4>1. PICK o \in answers(chain[i], acc.x, hook) :
              /\ e.x = o.x
              /\ Ends(o.resp) => e.resp = o.resp /\ e.by = chain[i]
              /\ ~ Ends(o.resp) =>
                   e.by = "none" /\ e.resp = IF acc.resp # "none" THEN acc.resp ELSE o.resp
        BY <3>2, OneMore
      <4>2. chain[i] = "mailrules" => o.resp = resp
        BY <2>2, <4>1
      <4>3. Ends(resp) => None(i - 1) /\ chain[i] \in up
        BY <1>3, <1>4, <2>2, <3>2
      <4>4. e.by = "mailrules" => e.resp = resp
        BY <1>2, <4>1, <4>2
      <4>5. e.by # "none" => Ends(e.resp)
        BY <4>1
      <4>6. Ends(resp) => e.by \in up \/ (e.by = "none" /\ None(i))
        BY <1>3, <4>1, <4>2, <4>3
      <4>7. ASSUME resp = "ok", ~ None(i) PROVE e.resp # "none"
        <5>1. CASE Ends(o.resp)
          BY <1>2, <4>1, <5>1
        <5>2. CASE ~ Ends(o.resp)
          BY <1>3, <2>2, <4>1, <4>2, <4>7, <5>2
        <5> QED BY <5>1, <5>2
      <4> QED BY <4>4, <4>5, <4>6, <4>7
    <3> QED BY <3>1, <3>2
  <2> HIDE DEF Good
  <2> QED BY <2>1, <2>4, <2>5
<1> HIDE DEF J
<1>7. \A o \in Call(hook, y) : o \in J[n]
  BY <1>5, <1>6, NoneIsResponse, CallAlong DEF n
<1>8. \A o \in Call(hook, y) : Good(o, n)
  BY <1>1, <1>7 DEF J
<1> QED BY <1>1, <1>4, <1>8 DEF Agrees, up

LEMMA SenderCallAgrees ==
  ASSUME NEW y \in Session, y.loaded, chain \in Seq(Plugin), NoScriptBefore(chain, "mailrules"),
         NEW a \in Sender, NEW size
  PROVE  \A o \in Call(SenderHook(a, size), y) :
           Agrees(o, AnswerOf(ForSender[a]), UpTo(chain, "mailrules"))
<1> DEFINE hook == SenderHook(a, size)
           G == {s \in Session : s.loaded}
<1>1. ASSUME NEW p, NEW s \in G, NEW o \in answers(p, s, hook)
      PROVE  /\ o.x \in G /\ o.resp \in Response
             /\ p = "mailrules" => o.resp = AnswerOf(ForSender[a])
  <2>1. o.x \in Session /\ o.resp \in Response
    BY SenderAnswers DEF Kept
  <2>2. CASE p = "mailrules"
    <3> DEFINE t == [s EXCEPT !.saved_sender = a]
    <3>1. t \in Session /\ t.loaded
      BY DEF Session
    <3>2. o = validate_sender(s, a)
      BY <2>2, SenderLowers
    <3>3. Applies(t, o, ForSender[a])
      BY <3>2, SenderRules
    <3> HIDE DEF t
    <3> QED BY <2>1, <3>1, <3>3 DEF Applies, Ran, SameCounts
  <2>3. CASE p # "mailrules"
    BY <2>1, <2>3, SenderLowers DEF Lowers
  <2> QED BY <2>2, <2>3
<1>2. y \in G
  OBVIOUS
<1> HIDE DEF hook, G
<1>3. Stays(hook, G, Response)
  BY <1>1 DEF Stays
<1>4. \E k \in 1 .. Len(chain) : chain[k] = "mailrules"
  BY DEF NoScriptBefore
<1> QED BY <1>1, <1>2, <1>3, <1>4, CallAgrees DEF hook

LEMMA RecipientCallAgrees ==
  ASSUME NEW y \in Session, y.loaded, y.saved_sender \in Sender, chain \in Seq(Plugin),
         NoScriptBefore(chain, "mailrules"), NEW a \in Recipient,
         NEW given, given = ForRecipient[y.saved_sender][a]
  PROVE  \A o \in Call(RecipientHook(a), y) : Agrees(o, AnswerOf(given), UpTo(chain, "mailrules"))
<1> DEFINE hook == RecipientHook(a)
           G == {s \in Session : s.loaded /\ s.saved_sender = y.saved_sender}
<1>1. ASSUME NEW p, NEW s \in G, NEW o \in answers(p, s, hook)
      PROVE  /\ o.x \in G /\ o.resp \in Response
             /\ p = "mailrules" => o.resp = AnswerOf(given)
  <2>0. s \in Session /\ s.loaded /\ s.saved_sender = y.saved_sender
    OBVIOUS
  <2>2. CASE p = "mailrules"
    <3>1. o = validate_recipient(s, a) /\ o.x \in Session /\ o.resp \in Response
      BY <2>0, <2>2, RecipientLowers, RecipientAnswers DEF Kept
    <3>2. Applies(s, o, given)
      BY <2>0, <3>1, RecipientRules
    <3> QED BY <2>0, <3>1, <3>2 DEF Applies, Ran, SameCounts
  <2>3. CASE p # "mailrules"
    <3>1. Lowers(s, o.x) /\ o.resp \in Response
      BY <2>0, <2>3, RecipientLowers
    <3> QED BY <2>0, <2>3, <3>1 DEF Lowers
  <2> QED BY <2>2, <2>3
<1>2. y \in G
  OBVIOUS
<1> HIDE DEF hook, G
<1>3. Stays(hook, G, Response)
  BY <1>1 DEF Stays
<1>4. \E k \in 1 .. Len(chain) : chain[k] = "mailrules"
  BY DEF NoScriptBefore
<1> QED BY <1>1, <1>2, <1>3, <1>4, CallAgrees DEF hook


\* What the rules say of the command that was answered last.
Wanted(l, sender) ==
  AnswerOf(IF l.hook = "recipient" THEN ForRecipient[sender][l.address]
           ELSE ForSender[l.address])

LEMMA RulesAgree ==
  RulesAnswer <=>
    (last.hook # "none" => Agrees(last, Wanted(last, era.sender), UpTo(chain, "mailrules")))
BY DEF RulesAnswer, Agrees, Wanted, UpTo

LEMMA AgreesAfter ==
  ASSUME last'.hook # "none" => Agrees(last', Wanted(last', era'.sender), UpTo(chain', "mailrules"))
  PROVE  RulesAnswer'
BY DEF RulesAnswer, Agrees, Wanted, UpTo, AnswerOf

LEMMA AgreesKept ==
  ASSUME RulesAnswer, chain' = chain, era'.sender = era.sender,
         last' = last \/ last' = NoHook
  PROVE  RulesAnswer'
BY RulesAgree, AgreesAfter DEF NoHook

LEMMA AgreesMail ==
  ASSUME Typed, Stands, NEW a \in Sender, NEW size \in Size, MAIL(a, size)
  PROVE  RulesAnswer'
<1>1. /\ chain' = chain /\ x \in Session /\ x.loaded
      /\ chain \in Seq(Plugin) /\ NoScriptBefore(chain, "mailrules")
  BY DEF MAIL, Loaded, Typed, Stands, Serving
<1>2. PICK r \in handle_reset(x) : \E o \in Call(SenderHook(a, size), r.x) :
        last' = [hook |-> "sender", address |-> a, resp |-> o.resp, by |-> o.by]
  BY DEF MAIL
<1>3. r.x \in Session /\ r.x.loaded
  BY <1>1, ResetCallStands
<1>4. \A o \in Call(SenderHook(a, size), r.x) :
        Agrees(o, AnswerOf(ForSender[a]), UpTo(chain, "mailrules"))
  BY <1>1, <1>3, SenderCallAgrees
<1>5. PICK o \in Call(SenderHook(a, size), r.x) :
        last' = [hook |-> "sender", address |-> a, resp |-> o.resp, by |-> o.by]
  BY <1>2
<1>6. last'.hook # "recipient" /\ last'.address = a /\ last'.resp = o.resp /\ last'.by = o.by
  BY <1>5
<1>7. Wanted(last', era'.sender) = AnswerOf(ForSender[a])
  BY <1>6 DEF Wanted
<1>8. Agrees(last', AnswerOf(ForSender[a]), UpTo(chain, "mailrules"))
  BY <1>4, <1>6 DEF Agrees
<1> QED BY <1>1, <1>7, <1>8, AgreesAfter

LEMMA AgreesRcpt ==
  ASSUME Typed, Stands, NEW a \in Recipient, RCPT(a)
  PROVE  RulesAnswer'
<1>1. /\ chain' = chain /\ IsSound(x, era) /\ x.saved_sender = era.sender
      /\ x \in Session /\ x.loaded /\ x.saved_sender \in Sender
      /\ chain \in Seq(Plugin) /\ NoScriptBefore(chain, "mailrules")
  BY DEF RCPT, Loaded, Typed, Stands, Serving
<1> DEFINE given == ForRecipient[x.saved_sender][a]
<1>2. PICK o \in Call(RecipientHook(a), x) :
        /\ last' = [hook |-> "recipient", address |-> a, resp |-> o.resp, by |-> o.by]
        /\ era' = [era EXCEPT
             !.tried  = @ \cup LimitsOf(ForRecipient[era.sender][a]),
             !.limits = IF response_ok(o.resp)
                        THEN @ \cup LimitsOf(ForRecipient[era.sender][a]) ELSE @,
             !.asked  = @ + 1,
             !.took   = IF Accepts(o) THEN @ + 1 ELSE @,
             !.relays = @ \/ Relays(ForRecipient[era.sender][a])]
  BY DEF RCPT
<1> HIDE DEF given
<1>3. \A r \in Call(RecipientHook(a), x) : Agrees(r, AnswerOf(given), UpTo(chain, "mailrules"))
  BY <1>1, RecipientCallAgrees DEF given
<1>4. era'.sender = era.sender
  BY <1>1, <1>2 DEF IsSound, IsEra
<1>5. last'.hook = "recipient" /\ last'.address = a /\ last'.resp = o.resp /\ last'.by = o.by
  BY <1>2
<1>6. Wanted(last', era'.sender) = AnswerOf(given)
  BY <1>1, <1>4, <1>5 DEF Wanted, given
<1>7. Agrees(last', AnswerOf(given), UpTo(chain, "mailrules"))
  BY <1>3, <1>5 DEF Agrees
<1> QED BY <1>1, <1>6, <1>7, AgreesAfter

(***************************************************************************)
(* RulesAlwaysAnswer: with mailrules in the list, no script in front of    *)
(* it, and any rules, mailrules answers a command with the code of the     *)
(* first rule that matches with the sender of this very message, and only  *)
(* mailrules or a plugin before it answers when that code is final or an   *)
(* error (plugin-mailrules.c run_rules).                                   *)
(***************************************************************************)
THEOREM RulesAlwaysAnswer ==
  ASSUME \A c \in Chains : NoScriptBefore(c, "mailrules"), "MAILRULES" \in DOMAIN Environ
  PROVE  Spec => []RulesAnswer
<1>1. Init => RulesAnswer
  BY RulesAgree DEF Init, NoHook
<1>2. Typed /\ Stands /\ RulesAnswer /\ [Next]_vars => RulesAnswer'
  <2> SUFFICES ASSUME Typed, Stands, RulesAnswer, [Next]_vars PROVE RulesAnswer'
    OBVIOUS
  <2>1. ASSUME QuietStep PROVE RulesAnswer'
    <3>1. era' = era /\ last' = last
      BY <2>1 DEF QuietStep
    <3>2. CASE chain' = chain
      BY <3>1, <3>2, AgreesKept
    <3>3. CASE chain' # chain
      <4>1. pc = "loading"
        BY <2>1, <3>3 DEF QuietStep
      <4>2. last' = NoHook
        BY <3>1, <4>1 DEF Stands, Fresh
      <4> QED BY <4>2, AgreesAfter DEF NoHook
    <3> QED BY <3>2, <3>3
  <2>2. CASE Start
    BY <2>2, AgreesKept DEF Start, Loaded
  <2>3. ASSUME ResetStep PROVE RulesAnswer'
    <3>1. era'.sender = era.sender
      BY <2>3 DEF ResetStep, EraAfterReset, EraOf
    <3> QED BY <2>3, <3>1, AgreesKept DEF ResetStep, LastKept
  <2>4. CASE BodyStep
    BY <2>4, AgreesKept DEF BodyStep, LastKept
  <2> QED BY StepShape, <2>1, <2>2, <2>3, <2>4, AgreesMail, AgreesRcpt
<1>3. Spec => []Stands
  BY StandsHolds
<1> QED BY <1>1, <1>2, <1>3, TypedHolds, PTL DEF Spec

=============================================================================
