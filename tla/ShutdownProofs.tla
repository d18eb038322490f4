--------------------------- MODULE ShutdownProofs ---------------------------
(***************************************************************************)
(* Proofs about the start and the end of the server: what is read of       *)
(* config.ini, for any key words, values and layout of the file; and the   *)
(* listening socket, the log and the workers, for any number of workers    *)
(* and any configuration.                                                  *)
(***************************************************************************)
EXTENDS Shutdown, WellFoundedInduction, TLAPS

-----------------------------------------------------------------------------
(* Searches and sequences. *)

\* A nonempty set of natural numbers has a least element.
LEMMA LeastElement ==
    ASSUME NEW T, T \subseteq Nat, T # {}
    PROVE  \E i \in T : \A j \in T : i <= j
<1>1. PICK i \in T : \A j \in T : ~(<<j, i>> \in OpToRel(<, Nat))
  BY NatLessThanWellFounded, WFMin
<1>2. ASSUME NEW j \in T PROVE i <= j
  <2>1. <<j, i>> \in Nat \X Nat /\ <<j, i>>[1] = j /\ <<j, i>>[2] = i
    OBVIOUS
  <2>2. ~(j < i)
    BY <1>1, <2>1 DEF OpToRel
  <2> QED BY <2>2
<1> QED BY <1>2

\* Induction, over a set of numbers.
LEMMA Upwards ==
    ASSUME NEW n \in Nat, NEW T, 0 \in T, \A k \in 1..n : k - 1 \in T => k \in T
    PROVE  0..n \subseteq T
<1> DEFINE U == (0..n) \ T
<1> SUFFICES ASSUME U # {} PROVE FALSE
  OBVIOUS
<1>1. PICK i \in U : \A j \in U : i <= j
  <2>1. U \subseteq Nat
    OBVIOUS
  <2> HIDE DEF U
  <2> QED BY <2>1, LeastElement
<1>2. i # 0 /\ i - 1 \in 0..n /\ i \in 1..n
  OBVIOUS
<1>3. i - 1 \in T
  BY <1>1, <1>2
<1> QED BY <1>1, <1>2, <1>3

\* What strstr and strchr return: the first place, ...
LEMMA SearchFinds ==
    ASSUME NEW f \in Seq(Tokens), NEW p \in Nat \ {0}, NEW S, NEW q \in p..Len(f), f[q] \in S,
           \A j \in p..(q - 1) : f[j] \notin S
    PROVE  Search(f, p, S) = q
<1> DEFINE found == {i \in p..Len(f) : f[i] \in S}
<1>1. q \in found /\ \A j \in found : q <= j
  OBVIOUS
<1>2. ASSUME NEW i \in found, \A j \in found : i <= j PROVE i = q
  BY <1>1, <1>2
<1>3. (CHOOSE i \in found : \A j \in found : i <= j) = q
  BY <1>1, <1>2
<1> QED BY <1>1, <1>3 DEF Search

\* ... if there is any, ...
LEMMA SearchStops ==
    ASSUME NEW f \in Seq(Tokens), NEW p \in Nat \ {0}, NEW S, NEW q \in p..Len(f), f[q] \in S
    PROVE  Search(f, p, S) \in p..q /\ f[Search(f, p, S)] \in S
<1> DEFINE found == {i \in p..Len(f) : f[i] \in S}
<1>1. found \subseteq Nat /\ q \in found
  OBVIOUS
<1>2. PICK i \in found : \A j \in found : i <= j
  BY <1>1, LeastElement
<1>3. Search(f, p, S) = i
  <2>1. i \in p..Len(f) /\ f[i] \in S /\ \A j \in p..(i - 1) : f[j] \notin S
    BY <1>2
  <2> QED BY <2>1, SearchFinds
<1> QED BY <1>1, <1>2, <1>3

\* ... and NULL if there is none, or nowhere to begin.
LEMMA SearchFails ==
    ASSUME NEW f, NEW p, NEW S, p = 0 \/ \A j \in p..Len(f) : f[j] \notin S
    PROVE  Search(f, p, S) = 0
BY DEF Search

\* A file made of three pieces.
LEMMA Pieces ==
    ASSUME NEW a \in Seq(Tokens), NEW c \in Seq(Tokens), NEW b \in Seq(Tokens)
    PROVE  LET f == a \o c \o b
           IN  /\ f \in Seq(Tokens) /\ Len(f) = Len(a) + Len(c) + Len(b)
               /\ \A i \in 1..Len(a) : f[i] = a[i]
               /\ \A i \in 1..Len(c) : f[Len(a) + i] = c[i]
               /\ \A i \in 1..Len(b) : f[Len(a) + Len(c) + i] = b[i]
OBVIOUS

-----------------------------------------------------------------------------
(* One line of the file. *)

Spaces(l) == IF l.spaced THEN 1 ELSE 0
Closed(l, k) == IF k \in l.closed THEN 1 ELSE 0

\* What the constants are.
LEMMA Words ==
    ASSUME NEW k \in KeyWords
    PROVE  /\ {"=", ";", "sp", "nl", k} \subseteq Tokens /\ k \notin {"=", ";", "sp", "nl"}
           /\ Written[k] \in Seq(Tokens) /\ Len(Written[k]) \in Nat
           /\ DOMAIN Written[k] = 1..Len(Written[k])
           /\ \A j \in 1..Len(Written[k]) : Written[k][j] \notin {";", "nl"}
           /\ Written[k] # <<>> => Written[k][1] # "sp"
<1>1. Written[k] \in Seq(Tokens)
  BY ConfigAssumption
<1>2. Len(Written[k]) \in Nat /\ DOMAIN Written[k] = 1..Len(Written[k])
  BY <1>1
<1>3. {"=", ";", "sp", "nl", k} \subseteq Tokens
  BY DEF Tokens
<1> QED BY <1>1, <1>2, <1>3, ConfigAssumption

\* Two sequences in a row.
LEMMA Joined ==
    ASSUME NEW a \in Seq(Tokens), NEW b \in Seq(Tokens)
    PROVE  /\ a \o b \in Seq(Tokens) /\ Len(a \o b) = Len(a) + Len(b)
           /\ Len(a) \in Nat /\ Len(b) \in Nat
           /\ \A i \in 1..Len(a) : (a \o b)[i] = a[i]
           /\ \A i \in 1..Len(b) : (a \o b)[Len(a) + i] = b[i]
OBVIOUS

LEMMA Associative ==
    ASSUME NEW a \in Seq(Tokens), NEW c \in Seq(Tokens), NEW b \in Seq(Tokens)
    PROVE  (a \o c) \o b = a \o (c \o b)
OBVIOUS

\* One token, and two.
LEMMA One ==
    ASSUME NEW x \in Tokens
    PROVE  <<x>> \in Seq(Tokens) /\ Len(<<x>>) = 1 /\ <<x>>[1] = x
OBVIOUS

LEMMA Two ==
    ASSUME NEW x \in Tokens, NEW y \in Tokens
    PROVE  <<x, y>> \in Seq(Tokens) /\ Len(<<x, y>>) = 2 /\ <<x, y>>[1] = x /\ <<x, y>>[2] = y
OBVIOUS

LEMMA Zero == \A p : p = <<>> => Len(p) = 0
OBVIOUS

LEMMA None == <<>> \in Seq(Tokens) /\ Len(<<>>) = 0
OBVIOUS

\* A line: its length, and what stands where.
LineAs(t, s, k, W, c) ==
    /\ t \in Seq(Tokens) /\ Len(t) = 3 + s + s + Len(W) + c
    /\ t[1] = "nl" /\ t[2] = k /\ t[3 + s] = "="
    /\ s = 1 => t[3] = "sp" /\ t[5] = "sp"
    /\ \A j \in 1..Len(W) : t[3 + s + s + j] = W[j]
    /\ c = 1 => t[3 + s + s + Len(W) + 1] = ";"

LEMMA LineShape ==
    ASSUME NEW l, NEW k \in KeyWords
    PROVE  LineAs(Line(l, k), Spaces(l), k, Written[k], Closed(l, k))
<1> DEFINE n == <<"nl", k>>
           p == Space(l)
           e == <<"=">>
           W == Written[k]
           m == IF k \in l.closed THEN <<";">> ELSE <<>>
           a1 == n \o p
           a2 == a1 \o e
           a3 == a2 \o p
           s == Spaces(l)
           c == Closed(l, k)
<1>1. /\ "=" \in Tokens /\ ";" \in Tokens /\ "sp" \in Tokens /\ "nl" \in Tokens /\ k \in Tokens
      /\ W \in Seq(Tokens) /\ Len(W) \in Nat
  BY Words
<1>2. n \in Seq(Tokens) /\ Len(n) = 2 /\ n[1] = "nl" /\ n[2] = k
  BY <1>1, Two, Zenon
<1>3. e \in Seq(Tokens) /\ Len(e) = 1 /\ e[1] = "="
  BY <1>1, One, Zenon
<1>4. s \in {0, 1} /\ p \in Seq(Tokens) /\ Len(p) = s /\ (s = 1 => p[1] = "sp")
  <2>1. CASE l.spaced
    <3>1. p = <<"sp">> /\ s = 1
      BY <2>1, Zenon DEF Space, Spaces
    <3> QED BY <1>1, <3>1, One, Zenon
  <2>2. CASE ~l.spaced
    <3>1. p = <<>> /\ s = 0
      BY <2>2, Zenon DEF Space, Spaces
    <3> HIDE DEF p, s
    <3> QED BY <3>1, None
  <2> QED BY <2>1, <2>2
<1>5. c \in {0, 1} /\ m \in Seq(Tokens) /\ Len(m) = c /\ (c = 1 => m[1] = ";")
  <2>1. CASE k \in l.closed
    <3>1. m = <<";">> /\ c = 1
      BY <2>1, Zenon DEF Closed
    <3> QED BY <1>1, <3>1, One, Zenon
  <2>2. CASE k \notin l.closed
    <3>1. m = <<>> /\ c = 0
      BY <2>2, Zenon DEF Closed
    <3> HIDE DEF m, c
    <3> QED BY <3>1, None
  <2> QED BY <2>1, <2>2
<1>6. Line(l, k) = a3 \o W \o m
  BY Zenon DEF Line
<1> HIDE DEF n, p, e, W, m, s, c
<1>7. /\ a1 \in Seq(Tokens) /\ Len(a1) = 2 + s /\ a1[1] = "nl" /\ a1[2] = k
      /\ s = 1 => a1[3] = "sp"
  <2>1. /\ a1 \in Seq(Tokens) /\ Len(a1) = Len(n) + Len(p)
        /\ \A i \in 1..Len(n) : a1[i] = n[i]
        /\ \A i \in 1..Len(p) : a1[Len(n) + i] = p[i]
    BY <1>2, <1>4, Joined
  <2> HIDE DEF a1
  <2> QED BY <1>2, <1>4, <2>1
<1> HIDE DEF a1
<1>8. /\ a2 \in Seq(Tokens) /\ Len(a2) = 3 + s /\ a2[1] = "nl" /\ a2[2] = k /\ a2[3 + s] = "="
      /\ s = 1 => a2[3] = "sp"
  BY <1>3, <1>4, <1>7, Joined
<1> HIDE DEF a2
<1>9. /\ a3 \in Seq(Tokens) /\ Len(a3) = 3 + s + s /\ a3[1] = "nl" /\ a3[2] = k /\ a3[3 + s] = "="
      /\ s = 1 => a3[3] = "sp" /\ a3[5] = "sp"
  BY <1>4, <1>8, Joined
<1> HIDE DEF a3
<1>10. s \in {0, 1} /\ c \in {0, 1} /\ Len(a3) = 3 + s + s /\ Len(m) = c
  BY <1>4, <1>5, <1>9, Zenon
<1>11. LET t == a3 \o W \o m
       IN  /\ t \in Seq(Tokens) /\ Len(t) = Len(a3) + Len(W) + Len(m)
           /\ \A i \in 1..Len(a3) : t[i] = a3[i]
           /\ \A i \in 1..Len(W) : t[Len(a3) + i] = W[i]
           /\ \A i \in 1..Len(m) : t[Len(a3) + Len(W) + i] = m[i]
  <2>1. a3 \in Seq(Tokens) /\ W \in Seq(Tokens) /\ m \in Seq(Tokens)
    BY <1>1, <1>5, <1>9, Zenon
  <2> QED BY <2>1, Pieces, Zenon
<1>12. /\ 1 \in 1..Len(a3) /\ 2 \in 1..Len(a3) /\ 3 + s \in 1..Len(a3)
       /\ s = 1 => 3 \in 1..Len(a3) /\ 5 \in 1..Len(a3)
       /\ c = 1 => 1 \in 1..Len(m)
  BY <1>10
<1> DEFINE t == a3 \o W \o m
<1>13. /\ t[1] = a3[1] /\ t[2] = a3[2] /\ t[3 + s] = a3[3 + s]
       /\ s = 1 => t[3] = a3[3] /\ t[5] = a3[5]
       /\ c = 1 => t[Len(a3) + Len(W) + 1] = m[1]
  BY <1>11, <1>12, Zenon
<1>14. /\ t \in Seq(Tokens) /\ Len(t) = 3 + s + s + Len(W) + c
       /\ \A i \in 1..Len(W) : t[3 + s + s + i] = W[i]
       /\ c = 1 => t[3 + s + s + Len(W) + 1] = m[1]
  BY <1>10, <1>11, <1>13, Zenon
<1>15. Line(l, k) = t
  BY <1>6, Zenon DEF a1, a2, a3
<1> HIDE DEF t
<1> QED BY <1>5, <1>9, <1>13, <1>14, <1>15, Zenon DEF W, s, c, LineAs

\* A key word stands in a line only as its key, unless the value holds it.
LEMMA LineKeys ==
    ASSUME NEW l, NEW k \in KeyWords, NEW x \in KeyWords, ~Holds(k, x),
           NEW j \in 1..Len(Line(l, k)), Line(l, k)[j] = x
    PROVE  j = 2 /\ x = k
<1> DEFINE s == Spaces(l)
           W == Written[k]
           w == Len(W)
           c == Closed(l, k)
           t == Line(l, k)
<1>1. s \in 0..1 /\ c \in 0..1
  BY DEF Spaces, Closed
<1>2. LineAs(t, s, k, W, c)
  BY LineShape, Zenon
<1>3. x \notin {"=", ";", "sp", "nl"} /\ (\A i \in 1..w : W[i] # x) /\ w \in Nat
  <2>1. W \in Seq(Tokens) /\ w \in Nat /\ x \notin {"=", ";", "sp", "nl"}
    BY Words, Zenon
  <2>2. \A i \in DOMAIN W : W[i] # x
    BY Zenon DEF Holds
  <2>3. DOMAIN W = 1..w
    BY Words, Zenon
  <2> QED BY <2>1, <2>2, <2>3, Zenon
<1>4. t[j] = x /\ j \in 1..Len(t)
  OBVIOUS
<1> HIDE DEF s, w, c, t, W
<1>5. j \in Int /\ 1 <= j /\ j <= 3 + s + s + w + c
  <2>1. Len(t) = 3 + s + s + w + c
    BY <1>2, Zenon DEF w, LineAs
  <2>2. w \in Nat
    BY <1>3, Zenon
  <2> QED BY <1>1, <1>4, <2>1, <2>2
<1> DEFINE i == j - 3 - s - s
<1>6. j = 3 + s + s + i /\ i \in Int
  BY <1>1, <1>5
<1> HIDE DEF i
<1>7. i \notin 1..w
  BY <1>2, <1>3, <1>4, <1>6, Zenon DEF LineAs, w
<1>8. j \in {1, 2, 3 + s} \/ (s = 1 /\ j \in {3, 5}) \/ (c = 1 /\ j = 3 + s + s + w + 1)
  <2>1. w \in Nat
    BY <1>3, Zenon
  <2> QED BY <1>1, <1>5, <1>6, <1>7, <2>1
<1> QED BY <1>2, <1>3, <1>4, <1>8, Zenon DEF LineAs, w

\* A file around a line, whose key word is not in what comes before.
FileAs(f, p, s, k, W, c, r) ==
    /\ f \in Seq(Tokens) /\ Len(f) = p + 3 + s + s + Len(W) + c + r
    /\ \A j \in 1..p : f[j] # k
    /\ f[p + 1] = "nl" /\ f[p + 2] = k /\ f[p + 3 + s] = "="
    /\ s = 1 => f[p + 3] = "sp" /\ f[p + 5] = "sp"
    /\ \A j \in 1..Len(W) : f[p + 3 + s + s + j] = W[j]
    /\ c = 1 => f[p + 3 + s + s + Len(W) + 1] = ";"
    /\ r > 0 => f[p + 3 + s + s + Len(W) + c + 1] = "nl"

LEMMA FileShape ==
    ASSUME NEW l, NEW k \in KeyWords, NEW a \in Seq(Tokens), NEW b \in Seq(Tokens),
           \A j \in 1..Len(a) : a[j] # k, Len(b) > 0 => b[1] = "nl"
    PROVE  FileAs(a \o Line(l, k) \o b, Len(a), Spaces(l), k, Written[k], Closed(l, k), Len(b))
<1> DEFINE s == Spaces(l)
           W == Written[k]
           w == Len(W)
           c == Closed(l, k)
           t == Line(l, k)
           f == a \o t \o b
           p == Len(a)
           r == Len(b)
<1>1. LineAs(t, s, k, W, c)
  BY LineShape
<1>2. t \in Seq(Tokens)
  BY <1>1, Zenon DEF LineAs
<1>3. /\ f \in Seq(Tokens) /\ Len(f) = p + Len(t) + r
      /\ \A i \in 1..p : f[i] = a[i]
      /\ \A i \in 1..Len(t) : f[p + i] = t[i]
      /\ \A i \in 1..r : f[p + Len(t) + i] = b[i]
  BY <1>2, Pieces, Zenon
<1>4. s \in 0..1 /\ c \in 0..1
  BY DEF Spaces, Closed
<1>5. w \in Nat /\ p \in Nat /\ r \in Nat
  <2>1. w \in Nat
    BY Words, Zenon
  <2> QED BY <2>1
<1>6. Len(t) = 3 + s + s + w + c
  BY <1>1, Zenon DEF LineAs
<1> HIDE DEF s, W, w, c, t, f, p, r
<1>7. /\ 1 \in 1..Len(t) /\ 2 \in 1..Len(t) /\ 3 + s \in 1..Len(t)
      /\ s = 1 => 3 \in 1..Len(t) /\ 5 \in 1..Len(t)
      /\ \A j \in 1..w : 3 + s + s + j \in 1..Len(t)
      /\ c = 1 => 3 + s + s + w + 1 \in 1..Len(t)
      /\ r > 0 => 1 \in 1..r
  BY <1>4, <1>5, <1>6
<1>8. /\ p + (3 + s) = p + 3 + s /\ p + (3 + s + s + w + 1) = p + 3 + s + s + w + 1
      /\ \A j \in 1..w : p + (3 + s + s + j) = p + 3 + s + s + j
      /\ p + Len(t) + 1 = p + 3 + s + s + w + c + 1
      /\ p + Len(t) + r = p + 3 + s + s + w + c + r
  BY <1>4, <1>5, <1>6
<1>9. /\ f[p + 1] = t[1] /\ f[p + 2] = t[2] /\ f[p + 3 + s] = t[3 + s]
      /\ s = 1 => f[p + 3] = t[3] /\ f[p + 5] = t[5]
      /\ \A j \in 1..w : f[p + 3 + s + s + j] = t[3 + s + s + j]
      /\ c = 1 => f[p + 3 + s + s + w + 1] = t[3 + s + s + w + 1]
      /\ r > 0 => f[p + 3 + s + s + w + c + 1] = b[1]
      /\ Len(f) = p + 3 + s + s + w + c + r
  BY <1>3, <1>7, <1>8, Zenon
<1>10. (\A j \in 1..p : f[j] # k) /\ (r > 0 => b[1] = "nl")
  BY <1>3, Zenon DEF p, r
<1>11. FileAs(f, p, s, k, W, c, r)
  BY <1>1, <1>3, <1>9, <1>10, Zenon DEF FileAs, LineAs, w
<1> QED BY <1>11, Zenon DEF s, W, c, t, f, p, r

\* What read_config_info makes of the line: its value, unless nothing ends it.
LEMMA FileRead ==
    ASSUME NEW f, NEW p \in Nat, NEW s \in 0..1, NEW i \in Indices, NEW c \in 0..1, NEW r \in Nat,
           FileAs(f, p, s, Key(i), Written[Key(i)], c, r)
    PROVE  /\ ~Missing(f, i)
           /\ parse_config_key_word(f, ValueOf(f, i))[2] =
                IF c = 0 /\ r = 0 THEN <<>> ELSE Written[Key(i)]
<1> DEFINE k == Key(i)
           W == Written[k]
           w == Len(W)
           q == p + 3 + s + s + 1
<1>1. k \in KeyWords
  BY DEF Key, KeyWords, Indices
<1>2. /\ W \in Seq(Tokens) /\ w \in Nat /\ k \notin {"=", ";", "sp", "nl"}
      /\ \A j \in 1..w : W[j] \notin {";", "nl"}
      /\ W # <<>> => W[1] # "sp"
  BY <1>1, Words, Zenon
<1>3. FileAs(f, p, s, k, W, c, r)
  OBVIOUS
<1> HIDE DEF k, W, w, q
<1>4. w \in Nat /\ Len(f) = p + 3 + s + s + w + c + r /\ f \in Seq(Tokens)
  BY <1>2, <1>3, Zenon DEF FileAs, w
<1>5. KeyOf(f, i) = p + 2
  <2>1. p + 2 \in 1..Len(f) /\ 1 \in Nat \ {0} /\ (p + 2) - 1 = p + 1
    BY <1>4
  <2>2. f[p + 2] \in {k} /\ f[p + 1] # k
    BY <1>2, <1>3, Zenon DEF FileAs
  <2>3. \A j \in 1..(p + 1) : j = p + 1 \/ j \in 1..p
    OBVIOUS
  <2>4. \A j \in 1..((p + 2) - 1) : f[j] \notin {k}
    BY <1>3, <2>1, <2>2, <2>3, Zenon DEF FileAs
  <2>5. Search(f, 1, {k}) = p + 2
    BY <1>4, <2>1, <2>2, <2>4, SearchFinds, Zenon
  <2> QED BY <2>5, Zenon DEF KeyOf, k
<1>6. EqualOf(f, i) = p + 3 + s
  <2>1. p + 3 + s \in (p + 2)..Len(f) /\ p + 2 \in Nat \ {0}
    BY <1>4
  <2>2. f[p + 3 + s] \in {"="}
    BY <1>3, Zenon DEF FileAs
  <2>3. \A j \in (p + 2)..((p + 3 + s) - 1) : j = p + 2 \/ (s = 1 /\ j = p + 3)
    OBVIOUS
  <2>4. f[p + 2] # "=" /\ (s = 1 => f[p + 3] # "=")
    BY <1>2, <1>3 DEF FileAs
  <2>5. \A j \in (p + 2)..((p + 3 + s) - 1) : f[j] \notin {"="}
    BY <2>3, <2>4, Zenon
  <2> DEFINE x == p + 2
             y == p + 3 + s
  <2>6. /\ x \in Nat \ {0} /\ y \in x..Len(f) /\ f[y] \in {"="}
        /\ \A j \in x..(y - 1) : f[j] \notin {"="}
    BY <2>1, <2>2, <2>5, Zenon
  <2> HIDE DEF x, y
  <2>7. Search(f, x, {"="}) = y
    BY <1>4, <2>6, SearchFinds, Zenon
  <2> QED BY <1>5, <2>7, Zenon DEF EqualOf, x, y
<1>7. ~Missing(f, i)
  BY <1>5, <1>6 DEF Missing
<1>8. q \in Nat \ {0} /\ Len(f) = q - 1 + w + c + r
  BY <1>4 DEF q
<1>9. \A j \in 1..w : f[q - 1 + j] = W[j]
  <2>1. q - 1 = p + 3 + s + s
    BY DEF q
  <2> QED BY <1>3, <2>1, Zenon DEF FileAs, w
<1>10. c = 1 => f[q + w] = ";"
  <2>1. q + w = p + 3 + s + s + w + 1
    BY <1>4 DEF q
  <2> QED BY <1>3, <2>1, Zenon DEF FileAs, w
<1>11. r > 0 => f[q + w + c] = "nl"
  <2>1. q + w + c = p + 3 + s + s + w + c + 1
    BY <1>4 DEF q
  <2> QED BY <1>3, <2>1, Zenon DEF FileAs, w
<1>12. ValueOf(f, i) = q
  <2> DEFINE e == p + 3 + s
  <2>1. e + 1 <= q /\ q <= Len(f) + 1 /\ e \in Nat /\ q \in (e + 1)..(Len(f) + 1)
    BY <1>4, <1>8 DEF q
  <2>2. q = Len(f) + 1 \/ f[q] # "sp"
    <3>1. CASE w > 0
      <4>1. 1 \in 1..w /\ q - 1 + 1 = q
        BY <1>4, <1>8, <3>1
      <4>2. W # <<>>
        BY <3>1, Zero DEF w
      <4> QED BY <1>2, <1>9, <4>1, <4>2, Zenon
    <3>2. CASE w = 0 /\ c = 1
      <4>1. q + w = q
        BY <1>8, <3>2
      <4> QED BY <1>10, <3>2, <4>1
    <3>3. CASE w = 0 /\ c = 0 /\ r > 0
      BY <1>8, <1>11, <3>3
    <3>4. CASE w = 0 /\ c = 0 /\ r = 0
      BY <1>8, <3>4
    <3> QED BY <1>4, <3>1, <3>2, <3>3, <3>4
  <2>3. \A j \in (e + 1)..(q - 1) : s = 1 /\ j = p + 5
    BY DEF q
  <2>4. \A j \in (e + 1)..(q - 1) : f[j] = "sp"
    BY <1>3, <2>3, Zenon DEF FileAs
  <2> DEFINE V(x) == /\ x = Len(f) + 1 \/ f[x] # "sp"
                     /\ \A j \in (e + 1)..(x - 1) : f[j] = "sp"
  <2>5. V(q)
    BY <2>2, <2>4, Zenon
  <2> HIDE DEF e
  <2>6. ASSUME NEW x \in (e + 1)..(Len(f) + 1), V(x) PROVE x = q
    <3>1. ASSUME x < q PROVE FALSE
      <4>1. x \in (e + 1)..(q - 1) /\ x # Len(f) + 1
        BY <1>8, <2>1, <3>1
      <4> QED BY <2>4, <2>6, <4>1
    <3>2. ASSUME q < x PROVE FALSE
      <4>1. q \in (e + 1)..(x - 1) /\ q # Len(f) + 1
        BY <1>8, <2>1, <3>2
      <4> QED BY <2>2, <2>6, <4>1
    <3> QED BY <1>8, <2>1, <3>1, <3>2
  <2>7. (CHOOSE x \in (e + 1)..(Len(f) + 1) : V(x)) = q
    <3> HIDE DEF V
    <3> QED BY <2>1, <2>5, <2>6
  <2> QED BY <1>6, <2>7, Zenon DEF ValueOf, e
<1>13. \A j \in q..((q + w) - 1) : f[j] \notin {";", "nl"}
  <2> SUFFICES ASSUME NEW j \in q..((q + w) - 1) PROVE f[j] \notin {";", "nl"}
    OBVIOUS
  <2> DEFINE x == j - (q - 1)
  <2>1. x \in 1..w /\ q - 1 + x = j
    BY <1>4, <1>8
  <2> HIDE DEF x
  <2> QED BY <1>2, <1>9, <2>1, Zenon
<1>14. CASE c = 0 /\ r = 0
  <2>1. \A j \in q..Len(f) : f[j] \notin {";", "nl"}
    <3>1. Len(f) = (q + w) - 1
      BY <1>4, <1>8, <1>14
    <3> QED BY <1>13, <3>1, Zenon
  <2>2. Search(f, q, {";", "nl"}) = 0
    BY <2>1, SearchFails, Zenon
  <2>3. parse_config_key_word(f, q) = <<FALSE, <<>>>>
    BY <2>2, Zenon DEF parse_config_key_word
  <2> QED BY <1>7, <1>12, <1>14, <2>3
<1>15. CASE ~(c = 0 /\ r = 0)
  <2>1. q + w \in q..Len(f)
    BY <1>4, <1>8, <1>15
  <2>2. f[q + w] \in {";", "nl"}
    <3>1. CASE c = 1
      BY <1>10, <3>1, Zenon
    <3>2. CASE c = 0
      <4>1. r > 0 /\ q + w + c = q + w
        BY <1>4, <1>8, <1>15, <3>2
      <4> QED BY <1>11, <4>1, Zenon
    <3>3. c = 0 \/ c = 1
      OBVIOUS
    <3> QED BY <3>1, <3>2, <3>3, Zenon
  <2> DEFINE e == q + w
  <2>3. e # 0 /\ e \in q..Len(f) /\ f[e] \in {";", "nl"} /\ \A j \in q..(e - 1) : f[j] \notin {";", "nl"}
    <3>1. e # 0
      BY <1>4, <1>8
    <3> QED BY <1>13, <2>1, <2>2, <3>1, Zenon
  <2>5. parse_config_key_word(f, q) = <<TRUE, SubSeq(f, q, (q + w) - 1)>>
    <3> HIDE DEF e
    <3>1. Search(f, q, {";", "nl"}) = e
      BY <1>4, <1>8, <2>3, SearchFinds, Zenon
    <3>2. parse_config_key_word(f, q) = <<TRUE, SubSeq(f, q, e - 1)>>
      BY <2>3, <3>1, Zenon DEF parse_config_key_word
    <3> QED BY <3>2, Zenon DEF e
  <2>6. SubSeq(f, q, (q + w) - 1) = W
    <3> DEFINE g == SubSeq(f, q, (q + w) - 1)
    <3>1. g \in Seq(Tokens) /\ Len(g) = w /\ \A j \in 1..w : g[j] = f[q - 1 + j]
      BY <1>4, <1>8, <2>1
    <3> HIDE DEF g
    <3>2. \A j \in 1..w : g[j] = W[j]
      BY <1>9, <3>1, Zenon
    <3>3. g = W
      <4>1. W \in Seq(Tokens)
        BY <1>2, Zenon
      <4> QED BY <3>1, <3>2, <4>1 DEF w
    <3> QED BY <3>3 DEF g
  <2> QED BY <1>7, <1>12, <1>15, <2>5, <2>6 DEF W, k
<1> QED BY <1>14, <1>15

-----------------------------------------------------------------------------
(* The file. *)

LEMMA LayoutFacts ==
    ASSUME NEW l \in Layouts
    PROVE  /\ Len(l.order) \in Nat /\ DOMAIN l.order = 1..Len(l.order)
           /\ \A j \in 1..Len(l.order) : l.order[j] \in KeyWords
           /\ \A i, j \in 1..Len(l.order) : l.order[i] = l.order[j] => i = j
           /\ l.mentioned \in {<<>>} \cup {<<k>> : k \in KeyWords}
<1> DEFINE O == {o \in UNION {[1..k -> KeyWords] : k \in 0..Len(config_file_key_word)} :
                   \A a, b \in DOMAIN o : a # b => o[a] # o[b]}
           o == l.order
<1>1. o \in O /\ l.mentioned \in {<<>>} \cup {<<k>> : k \in KeyWords}
  BY DEF Layouts
<1> HIDE DEF o
<1>2. Len(config_file_key_word) \in Nat
  <2>1. config_file_key_word \in Seq(KeyWords)
    BY ConfigAssumption, Zenon
  <2> QED BY <2>1
<1>3. PICK m \in 0..Len(config_file_key_word) : o \in [1..m -> KeyWords]
  BY <1>1
<1>4. Len(o) = m /\ m \in Nat /\ DOMAIN o = 1..m
  BY <1>2, <1>3
<1>5. \A i, j \in 1..m : o[i] = o[j] => i = j
  BY <1>1, <1>4
<1>6. \A j \in 1..m : o[j] \in KeyWords
  BY <1>3
<1> QED BY <1>1, <1>4, <1>5, <1>6, Zenon DEF o

\* The lines that Render writes one after the other.
LinesOf(l) ==
    LET Lines[k \in 0..Len(l.order)] == IF k = 0 THEN <<";">> \o l.mentioned
                                                 ELSE Lines[k - 1] \o Line(l, l.order[k])
    IN  Lines

LEMMA RenderLines ==
    ASSUME NEW l
    PROVE  Render(l) = LinesOf(l)[Len(l.order)] \o IF l.ended THEN <<"nl">> ELSE <<>>
BY DEF Render, LinesOf

\* They are defined, one after the other.
LEMMA LinesDefined ==
    ASSUME NEW l, Len(l.order) \in Nat
    PROVE  LinesOf(l) = [k \in 0..Len(l.order) |->
                           IF k = 0 THEN <<";">> \o l.mentioned
                                    ELSE LinesOf(l)[k - 1] \o Line(l, l.order[k])]
<1> DEFINE n == Len(l.order)
           A == <<";">> \o l.mentioned
           B(g, k) == g \o Line(l, l.order[k])
           Is(f, m) == f = [k \in 0..m |-> IF k = 0 THEN A ELSE B(f[k - 1], k)]
           T == {m \in 0..n : \E f : Is(f, m)}
<1> n \in Nat
  OBVIOUS
<1> HIDE DEF n, A, B
<1>1. 0 \in T
  <2> DEFINE f == [k \in 0..0 |-> A]
  <2>1. Is(f, 0)
    OBVIOUS
  <2> HIDE DEF Is
  <2> QED BY <2>1
<1>2. ASSUME NEW m \in 1..n, m - 1 \in T PROVE m \in T
  <2>1. PICK f : Is(f, m - 1)
    BY <1>2
  <2> DEFINE g == [k \in 0..m |-> IF k = m THEN B(f[m - 1], m) ELSE f[k]]
  <2>2. \A k \in 0..m : g[k] = IF k = 0 THEN A ELSE B(g[k - 1], k)
    <3> SUFFICES ASSUME NEW k \in 0..m PROVE g[k] = IF k = 0 THEN A ELSE B(g[k - 1], k)
      OBVIOUS
    <3>1. CASE k = m
      <4>1. g[k] = B(f[m - 1], m) /\ g[k - 1] = f[m - 1] /\ k # 0
        BY <3>1
      <4> HIDE DEF g
      <4> QED BY <3>1, <4>1
    <3>2. CASE k # m
      <4>1. g[k] = f[k] /\ (k # 0 => g[k - 1] = f[k - 1]) /\ k \in 0..(m - 1)
        BY <3>2
      <4> HIDE DEF g
      <4>2. f[k] = IF k = 0 THEN A ELSE B(f[k - 1], k)
        BY <2>1, <4>1
      <4> QED BY <4>1, <4>2
    <3> QED BY <3>1, <3>2
  <2>3. g = [k \in 0..m |-> g[k]]
    OBVIOUS
  <2> HIDE DEF g
  <2>4. Is(g, m)
    BY <2>2, <2>3
  <2> QED BY <2>4
<1>3. n \in T
  <2> HIDE DEF T
  <2>1. 0..n \subseteq T
    BY <1>1, <1>2, Upwards
  <2> QED BY <2>1
<1> QED BY <1>3, Zenon DEF LinesOf, n, A, B

\* One line after the other, each of tokens.
LEMMA LinesStep ==
    ASSUME NEW l \in Layouts
    PROVE  LET n == Len(l.order)
               Ls == LinesOf(l)
           IN  /\ n \in Nat
               /\ Ls[0] = <<";">> \o l.mentioned
               /\ \A k \in 1..n : Ls[k] = Ls[k - 1] \o Line(l, l.order[k])
               /\ \A k \in 1..n : Line(l, l.order[k]) \in Seq(Tokens)
               /\ \A k \in 0..n : Ls[k] \in Seq(Tokens)
<1> DEFINE n == Len(l.order)
           A == <<";">> \o l.mentioned
           B(k) == Line(l, l.order[k])
           Ls == LinesOf(l)
<1>1. n \in Nat
  BY LayoutFacts
<1>2. Ls = [k \in 0..n |-> IF k = 0 THEN A ELSE Ls[k - 1] \o B(k)]
  BY <1>1, LinesDefined, Zenon
<1>3. A \in Seq(Tokens)
  <2>1. <<";">> \in Seq(Tokens) /\ KeyWords \subseteq Tokens
    <3>1. ";" \in Tokens
      BY Zenon DEF Tokens
    <3>2. KeyWords \subseteq Tokens
      BY Zenon DEF Tokens
    <3> QED BY <3>1, <3>2, One, Zenon
  <2>2. l.mentioned \in Seq(Tokens)
    <3> DEFINE m == l.mentioned
    <3>1. m \in {<<>>} \cup {<<k>> : k \in KeyWords}
      BY LayoutFacts, Zenon
    <3> HIDE DEF m
    <3>2. ASSUME m = <<>> PROVE m \in Seq(Tokens)
      BY <3>2, None, Zenon
    <3>3. ASSUME NEW k \in KeyWords, m = <<k>> PROVE m \in Seq(Tokens)
      BY <2>1, <3>3, One, Zenon
    <3>4. m = <<>> \/ \E k \in KeyWords : m = <<k>>
      BY <3>1
    <3>5. m \in Seq(Tokens)
      BY <3>2, <3>3, <3>4, Zenon
    <3> QED BY <3>5, Zenon DEF m
  <2> QED BY <2>1, <2>2, Joined, Zenon
<1>4. \A k \in 1..n : B(k) \in Seq(Tokens)
  <2> SUFFICES ASSUME NEW k \in 1..n PROVE B(k) \in Seq(Tokens)
    BY Zenon
  <2>1. l.order[k] \in KeyWords
    BY LayoutFacts, Zenon
  <2> QED BY <2>1, LineShape, Zenon DEF LineAs
<1> HIDE DEF n, A, B, Ls
<1>5. Ls[0] = A /\ \A k \in 1..n : Ls[k] = Ls[k - 1] \o B(k)
  <2>1. Ls[0] = A
    BY <1>1, <1>2
  <2>2. ASSUME NEW k \in 1..n PROVE Ls[k] = Ls[k - 1] \o B(k)
    <3>1. k \in 0..n /\ k # 0
      BY <1>1
    <3>2. Ls[k] = IF k = 0 THEN A ELSE Ls[k - 1] \o B(k)
      BY <1>2, <3>1, Zenon
    <3> QED BY <3>1, <3>2, Zenon
  <2> QED BY <2>1, <2>2
<1>6. \A k \in 0..n : Ls[k] \in Seq(Tokens)
  <2> DEFINE T == {k \in 0..n : Ls[k] \in Seq(Tokens)}
  <2>1. 0 \in T
    BY <1>1, <1>3, <1>5
  <2>2. \A k \in 1..n : k - 1 \in T => k \in T
    <3> SUFFICES ASSUME NEW k \in 1..n, k - 1 \in T PROVE k \in T
      OBVIOUS
    <3>1. Ls[k] \in Seq(Tokens)
      BY <1>4, <1>5, Joined, Zenon
    <3> QED BY <3>1
  <2> HIDE DEF T
  <2>3. 0..n \subseteq T
    BY <1>1, <2>1, <2>2, Upwards, Zenon
  <2> QED BY <2>3 DEF T
<1> QED BY <1>1, <1>4, <1>5, <1>6, Zenon DEF n, A, B, Ls

\* A key word that neither the comment has, nor any line as its key or in its value, is nowhere.
LEMMA LinesWithout ==
    ASSUME NEW l \in Layouts, NEW x \in KeyWords, l.mentioned # <<x>>, NEW m \in 0..Len(l.order),
           \A k \in 1..m : l.order[k] # x /\ ~Holds(l.order[k], x)
    PROVE  \A j \in 1..Len(LinesOf(l)[m]) : LinesOf(l)[m][j] # x
<1> DEFINE n == Len(l.order)
           Ls == LinesOf(l)
           Free(g) == \A j \in 1..Len(g) : g[j] # x
           T == {k \in 0..m : Free(Ls[k])}
<1>1. /\ n \in Nat /\ Ls[0] = <<";">> \o l.mentioned
      /\ \A k \in 1..n : Ls[k] = Ls[k - 1] \o Line(l, l.order[k])
      /\ \A k \in 1..n : Line(l, l.order[k]) \in Seq(Tokens)
      /\ \A k \in 0..n : Ls[k] \in Seq(Tokens)
  BY LinesStep, Zenon
<1> n \in Nat /\ m \in 0..n
  BY <1>1, Zenon
<1>2. ASSUME NEW g \in Seq(Tokens), NEW h \in Seq(Tokens), Free(g), Free(h) PROVE Free(g \o h)
  <2> HIDE DEF n, Ls
  <2> SUFFICES ASSUME NEW j \in 1..Len(g \o h) PROVE (g \o h)[j] # x
    OBVIOUS
  <2>1. CASE j \in 1..Len(g)
    BY <1>2, <2>1
  <2>2. CASE j \notin 1..Len(g)
    <3>1. j - Len(g) \in 1..Len(h) /\ (g \o h)[j] = h[j - Len(g)]
      BY <2>2
    <3> QED BY <1>2, <3>1
  <2> QED BY <2>1, <2>2
<1>3. 0 \in T
  <2>1. Free(<<";">>) /\ <<";">> \in Seq(Tokens)
    <3>1. ";" \in Tokens /\ x # ";"
      BY Words, Zenon
    <3> DEFINE g == <<";">>
    <3>2. g \in Seq(Tokens) /\ Len(g) = 1 /\ g[1] # x
      BY <3>1, One, Zenon
    <3> HIDE DEF g
    <3>3. Free(g)
      BY <3>2
    <3> QED BY <3>2, <3>3, Zenon DEF g
  <2>2. Free(l.mentioned) /\ l.mentioned \in Seq(Tokens)
    <3> DEFINE g == l.mentioned
    <3>1. g \in {<<>>} \cup {<<k>> : k \in KeyWords} /\ g # <<x>> /\ KeyWords \subseteq Tokens
      BY LayoutFacts, Words, Zenon
    <3> HIDE DEF g
    <3>2. ASSUME g = <<>> PROVE Free(g) /\ g \in Seq(Tokens)
      <4>1. Len(g) = 0
        BY <3>2, Zero, Zenon
      <4>2. Free(g)
        BY <4>1
      <4> QED BY <3>2, <4>2, None, Zenon
    <3>3. ASSUME NEW k \in KeyWords, g = <<k>> PROVE Free(g) /\ g \in Seq(Tokens)
      <4>1. k # x
        BY <3>1, <3>3
      <4>2. g \in Seq(Tokens) /\ Len(g) = 1 /\ g[1] = k
        BY <3>1, <3>3, One, Zenon
      <4> QED BY <4>1, <4>2
    <3>4. g = <<>> \/ \E k \in KeyWords : g = <<k>>
      BY <3>1, Zenon
    <3>5. Free(g) /\ g \in Seq(Tokens)
      BY <3>2, <3>3, <3>4, Zenon
    <3> QED BY <3>5, Zenon DEF g
  <2>3. Free(Ls[0])
    BY <1>1, <1>2, <2>1, <2>2, Zenon
  <2>4. 0 \in 0..m
    <3> HIDE DEF n
    <3> QED OBVIOUS
  <2> QED BY <2>3, <2>4, Zenon
<1>4. \A k \in 1..m : k - 1 \in T => k \in T
  <2> SUFFICES ASSUME NEW k \in 1..m, k - 1 \in T PROVE k \in T
    BY Zenon
  <2>1. k \in 1..n /\ k - 1 \in 0..n /\ k \in 0..m
    <3> HIDE DEF n, T
    <3> QED OBVIOUS
  <2>2. Free(Line(l, l.order[k]))
    <3>1. l.order[k] \in KeyWords
      BY <2>1, LayoutFacts, Zenon
    <3> QED BY <3>1, LineKeys, Zenon
  <2>3. Free(Ls[k])
    BY <1>1, <1>2, <2>1, <2>2, Zenon
  <2> QED BY <2>1, <2>3, Zenon
<1>5. 0..m \subseteq T /\ m \in 0..m
  <2>1. m \in Nat /\ m \in 0..m
    <3> HIDE DEF n, T
    <3> QED OBVIOUS
  <2> HIDE DEF T
  <2> QED BY <1>3, <1>4, <2>1, Upwards, Zenon
<1> QED BY <1>5, Zenon

\* The lines up to the j-th, and what follows: nothing, or another line.
LEMMA LinesAfter ==
    ASSUME NEW l \in Layouts, NEW j \in 0..Len(l.order)
    PROVE  \E b \in Seq(Tokens) :
             /\ LinesOf(l)[Len(l.order)] = LinesOf(l)[j] \o b
             /\ Len(b) = 0 <=> j = Len(l.order)
             /\ Len(b) > 0 => b[1] = "nl"
<1> DEFINE n == Len(l.order)
           Ls == LinesOf(l)
           B(k) == Line(l, l.order[k])
           Beyond(b, d) == /\ b \in Seq(Tokens) /\ Ls[j + d] = Ls[j] \o b
                           /\ Len(b) = 0 <=> d = 0
                           /\ Len(b) > 0 => b[1] = "nl"
           T == {d \in 0..(n - j) : \E b : Beyond(b, d)}
<1>1. n \in Nat /\ j \in 0..n
  BY LayoutFacts, Zenon
<1>2. /\ \A k \in 1..n : Ls[k] = Ls[k - 1] \o B(k)
      /\ \A k \in 0..n : Ls[k] \in Seq(Tokens)
  BY LinesStep, Zenon
<1>3. ASSUME NEW k \in 1..n PROVE B(k) \in Seq(Tokens) /\ Len(B(k)) > 0 /\ B(k)[1] = "nl"
  <2>1. l.order[k] \in KeyWords
    BY LayoutFacts, Zenon
  <2>2. LineAs(B(k), Spaces(l), l.order[k], Written[l.order[k]], Closed(l, l.order[k]))
    BY <2>1, LineShape, Zenon
  <2>3. /\ B(k) \in Seq(Tokens) /\ B(k)[1] = "nl"
        /\ Len(B(k)) = 3 + Spaces(l) + Spaces(l) + Len(Written[l.order[k]]) + Closed(l, l.order[k])
    BY <2>2, Zenon DEF LineAs
  <2>4. Len(Written[l.order[k]]) \in Nat
    BY <2>1, Words, Zenon
  <2>5. Spaces(l) \in 0..1 /\ Closed(l, l.order[k]) \in 0..1
    BY DEF Spaces, Closed
  <2> HIDE DEF B
  <2>6. Len(B(k)) > 0
    BY <2>3, <2>4, <2>5
  <2> QED BY <2>3, <2>6, Zenon
<1> HIDE DEF n, Ls, B
<1>4. 0 \in T
  <2>1. 0 \in 0..(n - j) /\ j + 0 = j
    BY <1>1
  <2>2. Ls[j] = Ls[j] \o <<>>
    BY <1>1, <1>2
  <2>3. Beyond(<<>>, 0)
    BY <2>1, <2>2, None
  <2> HIDE DEF Beyond
  <2> QED BY <2>1, <2>3
<1>5. \A d \in 1..(n - j) : d - 1 \in T => d \in T
  <2> SUFFICES ASSUME NEW d \in 1..(n - j), NEW b, Beyond(b, d - 1) PROVE \E g : Beyond(g, d)
    <3>1. \A d \in 1..(n - j) : d \in 0..(n - j)
      BY <1>1
    <3> HIDE DEF Beyond
    <3> QED BY <3>1, Zenon
  <2> DEFINE k == j + d
             h == B(k)
             g == b \o h
  <2>1. k \in 1..n /\ k - 1 = j + (d - 1) /\ k - 1 \in 0..n
    BY <1>1
  <2> HIDE DEF k
  <2>2. h \in Seq(Tokens) /\ Len(h) > 0 /\ h[1] = "nl"
    BY <1>3, <2>1
  <2>3. Ls[k] = (Ls[j] \o b) \o h
    BY <1>2, <2>1, Zenon
  <2> HIDE DEF h
  <2>4. b \in Seq(Tokens) /\ Ls[j] \in Seq(Tokens)
    BY <1>1, <1>2, Zenon
  <2>5. Ls[k] = Ls[j] \o g
    BY <2>2, <2>3, <2>4, Associative, Zenon
  <2>6. /\ g \in Seq(Tokens) /\ Len(g) = Len(b) + Len(h) /\ Len(b) \in Nat /\ Len(h) \in Nat
        /\ \A i \in 1..Len(b) : g[i] = b[i]
        /\ \A i \in 1..Len(h) : g[Len(b) + i] = h[i]
    BY <2>2, <2>4, Joined, Zenon
  <2> HIDE DEF g
  <2>7. Len(g) > 0 /\ d # 0 /\ Len(g) # 0
    BY <2>2, <2>6
  <2>8. g[1] = "nl"
    <3>1. CASE Len(b) = 0
      <4>1. 1 \in 1..Len(h) /\ Len(b) + 1 = 1
        BY <2>2, <2>6, <3>1
      <4> QED BY <2>2, <2>6, <4>1, Zenon
    <3>2. CASE Len(b) > 0
      <4>1. 1 \in 1..Len(b)
        BY <2>6, <3>2
      <4> QED BY <2>6, <3>2, <4>1, Zenon
    <3> QED BY <2>6, <3>1, <3>2
  <2>9. Beyond(g, d)
    BY <2>5, <2>6, <2>7, <2>8, Zenon DEF k
  <2> QED BY <2>9, Zenon
<1>6. n - j \in T
  <2>1. n - j \in Nat /\ n - j \in 0..(n - j)
    BY <1>1
  <2> HIDE DEF T
  <2>2. 0..(n - j) \subseteq T
    BY <1>4, <1>5, <2>1, Upwards, Zenon
  <2> QED BY <2>1, <2>2
<1>7. j + (n - j) = n /\ (n - j = 0 <=> j = n)
  BY <1>1
<1> QED BY <1>6, <1>7, Zenon DEF n, Ls

\* A file around its j-th line.
LEMMA LineSplit ==
    ASSUME NEW l \in Layouts, NEW j \in 1..Len(l.order)
    PROVE  /\ j - 1 \in 0..Len(l.order) /\ LinesOf(l)[j - 1] \in Seq(Tokens)
           /\ Line(l, l.order[j]) \in Seq(Tokens)
           /\ \E c \in Seq(Tokens) :
                /\ Render(l) = LinesOf(l)[j - 1] \o Line(l, l.order[j]) \o c
                /\ Len(c) \in Nat /\ (Len(c) = 0 <=> ~l.ended /\ j = Len(l.order))
                /\ Len(c) > 0 => c[1] = "nl"
<1> DEFINE n == Len(l.order)
           Ls == LinesOf(l)
           t == Line(l, l.order[j])
           e == IF l.ended THEN <<"nl">> ELSE <<>>
           a == Ls[j - 1]
           f == Render(l)
<1>1. n \in Nat /\ j \in 1..n /\ j \in 0..n /\ j - 1 \in 0..n
  <2>1. n \in Nat
    BY LayoutFacts, Zenon
  <2> HIDE DEF n
  <2>2. j \in 1..n
    BY DEF n
  <2>3. j \in 0..n /\ j - 1 \in 0..n
    BY <2>1, <2>2
  <2> QED BY <2>1, <2>2, <2>3, Zenon
<1>2. t \in Seq(Tokens)
  BY <1>1, LinesStep, Zenon
<1>3. a \in Seq(Tokens) /\ Ls[j] = a \o t /\ Ls[j] \in Seq(Tokens)
  BY <1>1, LinesStep, Zenon
<1>4. PICK b \in Seq(Tokens) : /\ Ls[n] = Ls[j] \o b
                               /\ Len(b) = 0 <=> j = n
                               /\ Len(b) > 0 => b[1] = "nl"
  BY <1>1, LinesAfter, Zenon
<1>5. /\ e \in Seq(Tokens)
      /\ Len(e) = 0 <=> ~l.ended
      /\ Len(e) > 0 => e[1] = "nl"
  <2>1. CASE l.ended
    <3>1. e = <<"nl">> /\ "nl" \in Tokens
      BY <2>1, Zenon DEF Tokens
    <3>2. e \in Seq(Tokens) /\ Len(e) = 1 /\ e[1] = "nl"
      BY <3>1, One, Zenon
    <3>3. 1 # 0
      OBVIOUS
    <3> QED BY <2>1, <3>2, <3>3, Zenon
  <2>2. CASE ~l.ended
    <3>1. e = <<>>
      BY <2>2, Zenon
    <3>2. ~(0 > 0)
      OBVIOUS
    <3>3. e \in Seq(Tokens) /\ Len(e) = 0
      BY <3>1, None, Zenon
    <3> QED BY <2>2, <3>2, <3>3, Zenon
  <2> QED BY <2>1, <2>2
<1>6. f = Ls[n] \o e
  BY RenderLines, Zenon
<1> DEFINE c == b \o e
<1> HIDE DEF n, Ls, t, e, a, f
<1>7. f = a \o t \o c
  <2>1. f = ((a \o t) \o b) \o e /\ a \o t \in Seq(Tokens)
    BY <1>2, <1>3, <1>4, <1>6, Joined, Zenon
  <2> QED BY <1>4, <1>5, <2>1, Associative, Zenon
<1>8. /\ c \in Seq(Tokens) /\ Len(c) \in Nat
      /\ Len(c) = 0 <=> (~l.ended /\ j = n)
      /\ Len(c) > 0 => c[1] = "nl"
  <2>1. /\ c \in Seq(Tokens) /\ Len(c) = Len(b) + Len(e) /\ Len(b) \in Nat /\ Len(e) \in Nat
        /\ \A x \in 1..Len(b) : c[x] = b[x]
        /\ \A x \in 1..Len(e) : c[Len(b) + x] = e[x]
    BY <1>4, <1>5, Joined, Zenon
  <2> HIDE DEF c
  <2>2. Len(c) \in Nat /\ (Len(c) = 0 <=> Len(b) = 0 /\ Len(e) = 0)
    BY <2>1
  <2>3. Len(b) > 0 \/ Len(b) = 0
    BY <2>1
  <2>4. CASE Len(b) > 0
    <3>1. 1 \in 1..Len(b)
      BY <2>1, <2>4
    <3> QED BY <1>4, <1>5, <2>1, <2>2, <2>4, <3>1, Zenon
  <2>5. CASE Len(b) = 0
    <3>1. Len(c) > 0 => 1 \in 1..Len(e) /\ Len(e) > 0 /\ Len(b) + 1 = 1
      BY <2>1, <2>5
    <3>2. Len(c) = 0 <=> (~l.ended /\ j = n)
      BY <1>4, <1>5, <2>2, <2>5, Zenon
    <3>3. Len(c) > 0 => c[1] = "nl"
      BY <1>5, <2>1, <2>5, <3>1
    <3> QED BY <2>1, <2>2, <3>2, <3>3, Zenon
  <2> QED BY <2>3, <2>4, <2>5
<1> HIDE DEF c
<1>9. \E g \in Seq(Tokens) : /\ f = a \o t \o g
                             /\ Len(g) \in Nat /\ (Len(g) = 0 <=> ~l.ended /\ j = n)
                             /\ Len(g) > 0 => g[1] = "nl"
  BY <1>8, <1>7, Zenon
<1> QED BY <1>1, <1>2, <1>3, <1>9, Zenon DEF n, Ls, t, a, f

\* read_config_info reads the line of a key that is there and nowhere before, unless nothing
\* ends it.
LEMMA ReadsLine ==
    ASSUME NEW l \in Layouts, NEW i \in Indices, l.mentioned # <<Key(i)>>,
           NEW j \in 1..Len(l.order), l.order[j] = Key(i),
           \A m \in 1..(j - 1) : ~Holds(l.order[m], Key(i))
    PROVE  /\ ~Missing(Render(l), i)
           /\ parse_config_key_word(Render(l), ValueOf(Render(l), i))[2] =
                IF ~l.ended /\ j = Len(l.order) /\ Key(i) \notin l.closed
                  THEN <<>> ELSE Written[Key(i)]
<1> DEFINE n == Len(l.order)
           k == Key(i)
           t == Line(l, k)
           a == LinesOf(l)[j - 1]
           f == Render(l)
<1>1. n \in Nat /\ j - 1 \in 0..n
  BY LayoutFacts, LineSplit, Zenon
<1>2. k \in KeyWords
  BY DEF KeyWords, Key, Indices
<1>3. a \in Seq(Tokens)
  BY LineSplit, Zenon
<1>4. \A m \in 1..Len(a) : a[m] # k
  <2>1. \A m \in 1..(j - 1) : l.order[m] # k
    <3>1. \A m \in 1..(j - 1) : m \in 1..n /\ m # j
      <4>1. j \in 1..n
        OBVIOUS
      <4> HIDE DEF n
      <4> QED BY <1>1, <4>1
    <3> QED BY <3>1, LayoutFacts, Zenon
  <2> QED BY <1>1, <1>2, <2>1, LinesWithout, Zenon
<1>5. PICK c \in Seq(Tokens) : /\ f = a \o t \o c
                               /\ Len(c) \in Nat /\ (Len(c) = 0 <=> ~l.ended /\ j = n)
                               /\ Len(c) > 0 => c[1] = "nl"
  BY LineSplit, Zenon
<1> HIDE DEF n, k, t, a, f
<1> DEFINE p == Len(a)
           s == Spaces(l)
           z == Closed(l, k)
           r == Len(c)
<1>6. FileAs(f, p, s, k, Written[k], z, r)
  BY <1>2, <1>3, <1>4, <1>5, FileShape, Zenon DEF t
<1>7. p \in Nat /\ s \in 0..1 /\ z \in 0..1 /\ r \in Nat
  <2>1. p \in Nat
    BY <1>3
  <2> QED BY <1>5, <2>1 DEF Spaces, Closed
<1> HIDE DEF p, s, z, r
<1>8. /\ ~Missing(f, i)
      /\ parse_config_key_word(f, ValueOf(f, i))[2] = IF z = 0 /\ r = 0 THEN <<>> ELSE Written[k]
  BY <1>6, <1>7, FileRead, Zenon DEF k
<1>9. z = 0 <=> k \notin l.closed
  BY DEF z, Closed
<1> QED BY <1>5, <1>8, <1>9, Zenon DEF r, k, f, n

\* A key that is nowhere is missing.
LEMMA NotThere ==
    ASSUME NEW l \in Layouts, NEW i \in Indices, l.mentioned # <<Key(i)>>,
           \A j \in 1..Len(l.order) : l.order[j] # Key(i) /\ ~Holds(l.order[j], Key(i))
    PROVE  Missing(Render(l), i)
<1> DEFINE n == Len(l.order)
           k == Key(i)
           a == LinesOf(l)[n]
           e == IF l.ended THEN <<"nl">> ELSE <<>>
           f == Render(l)
<1>1. n \in 0..n
  <2>1. n \in Nat
    BY LayoutFacts, Zenon
  <2> HIDE DEF n
  <2> QED BY <2>1
<1>2. k \in KeyWords
  BY DEF KeyWords, Key, Indices
<1>3. a \in Seq(Tokens) /\ \A j \in 1..Len(a) : a[j] # k
  BY <1>1, <1>2, LinesStep, LinesWithout, Zenon
<1>4. e \in Seq(Tokens) /\ \A j \in 1..Len(e) : e[j] # k
  <2>1. k # "nl" /\ "nl" \in Tokens
    BY <1>2, Words, Zenon
  <2>2. CASE l.ended
    <3>1. e = <<"nl">>
      BY <2>2, Zenon
    <3>2. e \in Seq(Tokens) /\ Len(e) = 1 /\ e[1] # k
      BY <2>1, <3>1, One, Zenon
    <3> HIDE DEF e, k
    <3>3. \A j \in 1..Len(e) : e[j] # k
      BY <3>2
    <3> QED BY <3>2, <3>3, Zenon DEF e, k
  <2>3. CASE ~l.ended
    <3>1. e = <<>>
      BY <2>3, Zenon
    <3>2. e \in Seq(Tokens) /\ Len(e) = 0
      BY <3>1, None, Zenon
    <3> HIDE DEF e, k
    <3>3. \A j \in 1..Len(e) : e[j] # k
      BY <3>2
    <3> QED BY <3>2, <3>3, Zenon DEF e, k
  <2> QED BY <2>2, <2>3
<1>5. f = a \o e
  BY RenderLines, Zenon
<1> HIDE DEF n, k, a, e, f
<1>6. \A j \in 1..Len(f) : f[j] \notin {k}
  <2> SUFFICES ASSUME NEW j \in 1..Len(f) PROVE f[j] # k
    OBVIOUS
  <2>1. CASE j \in 1..Len(a)
    BY <1>3, <1>4, <1>5, <2>1
  <2>2. CASE j \notin 1..Len(a)
    <3>1. j - Len(a) \in 1..Len(e) /\ f[j] = e[j - Len(a)]
      BY <1>3, <1>4, <1>5, <2>2
    <3> QED BY <1>4, <3>1
  <2> QED BY <2>1, <2>2
<1>7. KeyOf(f, i) = 0
  BY <1>6, SearchFails, Zenon DEF KeyOf, k
<1> QED BY <1>7, Zenon DEF Missing, f

\* What read_config_info leaves in config_info when it returns 0.
THEOREM ValuesRead ==
    ASSUME NEW l \in Layouts, read_config_info(Render(l)) = 0,
           NEW i \in Indices, ~Elsewhere(l, Key(i))
    PROVE  config_info(Render(l))[i] =
             IF ~l.ended /\ Key(i) = l.order[Len(l.order)] /\ Key(i) \notin l.closed
               THEN <<>> ELSE Written[Key(i)]
<1> DEFINE n == Len(l.order)
           k == Key(i)
           f == Render(l)
           N == Len(config_file_key_word)
<1>1. N \in Nat /\ i \in 1..N
  <2>1. config_file_key_word \in Seq(KeyWords)
    BY ConfigAssumption, Zenon
  <2> QED BY <2>1 DEF Indices
<1>2. n \in Nat /\ \A j, m \in 1..n : l.order[j] = l.order[m] => j = m
  BY LayoutFacts, Zenon
<1>3. /\ l.mentioned # <<k>>
      /\ \A j \in 1..n : (\A m \in 1..j : l.order[m] # k) => ~Holds(l.order[j], k)
  <2>1. DOMAIN l.order = 1..n
    BY LayoutFacts, Zenon
  <2> QED BY <2>1, Zenon DEF Elsewhere
<1>4. Reached(f, N)
  <2>1. 0 # -1
    OBVIOUS
  <2> QED BY <2>1, Zenon DEF read_config_info
<1> HIDE DEF n, k, f, N
<1>5. ~Missing(f, i) /\ Reached(f, i)
  BY <1>1, <1>4 DEF Reached
<1>6. PICK j \in 1..n : l.order[j] = k
  <2> SUFFICES ASSUME \A j \in 1..n : l.order[j] # k PROVE FALSE
    BY Zenon
  <2>1. \A j \in 1..n : \A m \in 1..j : m \in 1..n
    BY <1>2
  <2>2. \A j \in 1..n : l.order[j] # k /\ ~Holds(l.order[j], k)
    BY <1>3, <2>1, Zenon
  <2> QED BY <1>3, <1>5, <2>2, NotThere, Zenon DEF n, k, f
<1>10. \A m \in 1..(j - 1) : ~Holds(l.order[m], k)
  <2>1. \A m \in 1..(j - 1) : m \in 1..n /\ \A x \in 1..m : x \in 1..n /\ x # j
    BY <1>2, <1>6
  <2> QED BY <1>2, <1>3, <1>6, <2>1, Zenon
<1>7. parse_config_key_word(f, ValueOf(f, i))[2] =
        IF ~l.ended /\ j = n /\ k \notin l.closed THEN <<>> ELSE Written[k]
  BY <1>3, <1>6, <1>10, ReadsLine, Zenon DEF n, k, f
<1>8. j = n <=> k = l.order[n]
  <2>1. n \in 1..n
    BY <1>2, <1>6
  <2> QED BY <1>2, <1>6, <2>1
<1>9. config_info(f)[i] = parse_config_key_word(f, ValueOf(f, i))[2]
  BY <1>5, Zenon DEF config_info
<1> QED BY <1>7, <1>8, <1>9, Zenon DEF n, k, f

\* When read_config_info returns 0, for any file whatever: it looks for words, not for lines.
\* Every key word must stand somewhere with a "=" somewhere behind it, be it in a comment, in a
\* value or on a later line (config_info.c:69, 75).
THEOREM KeysFound ==
    ASSUME NEW f \in Seq(Tokens)
    PROVE  read_config_info(f) = 0 <=>
             /\ f # <<>>
             /\ \A i \in Indices : \E p, q \in 1..Len(f) : p <= q /\ f[p] = Key(i) /\ f[q] = "="
<1> DEFINE N == Len(config_file_key_word)
           Found(i) == \E p, q \in 1..Len(f) : p <= q /\ f[p] = Key(i) /\ f[q] = "="
<1>1. ASSUME NEW i \in Indices PROVE ~Missing(f, i) <=> Found(i)
  <2> DEFINE x == KeyOf(f, i)
  <2>1. ASSUME ~Missing(f, i) PROVE Found(i)
    <3>1. x # 0 /\ EqualOf(f, i) # 0
      BY <2>1, Zenon DEF Missing
    <3>2. \E p \in 1..Len(f) : f[p] \in {Key(i)}
      BY <3>1, SearchFails, Zenon DEF KeyOf
    <3>3. x \in 1..Len(f) /\ f[x] = Key(i)
      <4>1. PICK p \in 1..Len(f) : f[p] \in {Key(i)}
        BY <3>2
      <4>2. x \in 1..p /\ f[x] \in {Key(i)}
        BY <4>1, SearchStops DEF KeyOf
      <4> HIDE DEF x
      <4> QED BY <4>1, <4>2
    <3>4. \E q \in x..Len(f) : f[q] \in {"="}
      BY <3>1, SearchFails, Zenon DEF EqualOf
    <3>5. PICK q \in x..Len(f) : f[q] = "="
      BY <3>4, Zenon
    <3> HIDE DEF x
    <3>6. q \in 1..Len(f) /\ x <= q
      BY <3>3, <3>5
    <3> QED BY <3>3, <3>5, <3>6
  <2>2. ASSUME Found(i) PROVE ~Missing(f, i)
    <3>1. PICK p \in 1..Len(f), q \in 1..Len(f) : p <= q /\ f[p] = Key(i) /\ f[q] = "="
      BY <2>2
    <3>2. x \in 1..p
      BY <3>1, SearchStops DEF KeyOf
    <3> DEFINE y == EqualOf(f, i)
    <3>3. y = Search(f, x, {"="})
      BY DEF EqualOf
    <3> HIDE DEF x, y
    <3>4. x \in Nat \ {0} /\ q \in x..Len(f) /\ f[q] \in {"="}
      BY <3>1, <3>2
    <3>5. y \in x..q
      BY <3>3, <3>4, SearchStops, Zenon
    <3>6. x # 0 /\ y # 0
      BY <3>4, <3>5
    <3> QED BY <3>6, Zenon DEF Missing, x, y
  <2> QED BY <2>1, <2>2
<1>2. N \in Nat /\ 1..N = Indices
  <2>1. config_file_key_word \in Seq(KeyWords)
    BY ConfigAssumption, Zenon
  <2> QED BY <2>1 DEF Indices
<1>3. read_config_info(f) = 0 <=> f # <<>> /\ Reached(f, N)
  <2>1. (read_file_to_buff(f) = 0 <=> f # <<>>) /\ 0 # -1
    BY DEF read_file_to_buff
  <2> QED BY <2>1, Zenon DEF read_config_info
<1>4. Reached(f, N) <=> \A i \in Indices : ~Missing(f, i)
  BY <1>2, Zenon DEF Reached
<1> QED BY <1>1, <1>3, <1>4, Zenon

-----------------------------------------------------------------------------
(* The threads. *)

USE ThreadsDiffer DEF Threads

\* The steps, one name for each.
LEMMA Steps ==
    ASSUME [Next]_vars
    PROVE  \/ \E v \in Threads : Signal(v)
           \/ \E t \in Threads : Lock(t) \/ WriteLine(t)
           \/ TestListen(Handler, "set_exit") \/ TestListen(Acceptor, "returned")
           \/ TestListen(Main, "destroy")
           \/ CloseListen(Handler) \/ CloseListen(Acceptor) \/ CloseListen(Main)
           \/ UnsetListen(Handler, "set_exit") \/ UnsetListen(Acceptor, "returned")
           \/ UnsetListen(Main, "destroy")
           \/ SetExit \/ SetExitAccept \/ Socket \/ SetUp \/ AcceptTest \/ Accept
           \/ ReadConfig \/ LogInit \/ Fork \/ Register \/ CreatePool \/ GiveUp
           \/ CreateAcceptTask \/ Turn \/ UseQueue("loop") \/ UseQueue("queue") \/ EndLoop \/ CloseLog \/ Destroy \/ Join
           \/ \E w \in Workers : Wake(w) \/ TakeJob(w) \/ ReturnOnEmpty(w) \/ WorkerEnds(w)
           \/ UNCHANGED vars
BY DEF Next, Handle, AcceptorSetUp, AcceptorEnd, Start, MainStep, Dequeue

-----------------------------------------------------------------------------
(* Types. *)

\* The handler logs only while it runs, and runs only once main has registered it.
HandlerQuiet ==
    /\ pc[Handler] \in {"unregistered", "off"} => lpc[Handler] = "idle"
    /\ pc[Main] \in {"config", "log_init", "fork", "register"} => pc[Handler] = "unregistered"

LEMMA TypeStep == ASSUME TypeOK, HandlerQuiet, [Next]_vars PROVE TypeOK' /\ HandlerQuiet'
<1> USE DEF TypeOK, HandlerQuiet, log, sock, flags, Quiet, LogLine, Move
<1>1. ASSUME NEW v \in Threads, Signal(v) PROVE TypeOK' /\ HandlerQuiet'
  BY <1>1 DEF Signal
<1>2. ASSUME NEW t \in Threads, Lock(t) PROVE TypeOK' /\ HandlerQuiet'
  BY <1>2 DEF Lock
<1>3. ASSUME NEW t \in Threads, WriteLine(t) PROVE TypeOK' /\ HandlerQuiet'
  BY <1>3 DEF WriteLine
<1>4. ASSUME NEW t \in {Main, Acceptor, Handler},
             NEW next \in {"set_exit", "returned", "destroy"}, TestListen(t, next)
      PROVE  TypeOK' /\ HandlerQuiet'
  BY <1>4 DEF TestListen
<1>5. ASSUME NEW t \in {Main, Acceptor, Handler}, CloseListen(t)
      PROVE  TypeOK' /\ HandlerQuiet'
  BY <1>5 DEF CloseListen
<1>6. ASSUME NEW t \in {Main, Acceptor, Handler},
             NEW next \in {"set_exit", "returned", "destroy"}, UnsetListen(t, next)
      PROVE  TypeOK' /\ HandlerQuiet'
  BY <1>6 DEF UnsetListen
<1>7. CASE SetExit
  BY <1>7 DEF SetExit
<1>8. CASE SetExitAccept
  BY <1>8 DEF SetExitAccept
<1>9. CASE Socket \/ SetUp
  BY <1>9 DEF Socket, SetUp
<1>10. CASE AcceptTest \/ Accept
  BY <1>10 DEF AcceptTest, Accept
<1>11. CASE ReadConfig \/ LogInit
  BY <1>11 DEF ReadConfig, LogInit
<1>12. CASE Fork \/ Register \/ GiveUp
  <2>1. CASE Fork
    BY <2>1 DEF Fork
  <2>2. CASE Register
    BY <2>2 DEF Register
  <2>3. CASE GiveUp
    BY <2>3 DEF GiveUp
  <2> QED BY <1>12, <2>1, <2>2, <2>3
<1>13. CASE CreatePool
  BY <1>13 DEF CreatePool
<1>14. CASE CreateAcceptTask
  BY <1>14 DEF CreateAcceptTask
<1>15. CASE Turn \/ UseQueue("loop") \/ UseQueue("queue") \/ EndLoop \/ CloseLog
  <2>1. CASE Turn
    BY <2>1 DEF Turn
  <2>2. ASSUME NEW next \in {"loop", "queue"}, UseQueue(next) PROVE TypeOK' /\ HandlerQuiet'
    BY <2>2 DEF UseQueue
  <2>3. CASE EndLoop
    BY <2>3 DEF EndLoop
  <2>4. CASE CloseLog
    BY <2>4 DEF CloseLog
  <2> QED BY <1>15, <2>1, <2>2, <2>3, <2>4
<1>16. CASE Destroy \/ Join
  BY <1>16 DEF Destroy, Join
<1>17. ASSUME NEW w \in Workers, Wake(w) \/ TakeJob(w) \/ ReturnOnEmpty(w) \/ WorkerEnds(w)
      PROVE  TypeOK' /\ HandlerQuiet'
  BY <1>17 DEF Wake, TakeJob, ReturnOnEmpty, WorkerEnds
<1>18. CASE UNCHANGED vars
  BY <1>18 DEF vars
<1> QED BY <1>1, <1>2, <1>3, <1>4, <1>5, <1>6, <1>7, <1>8, <1>9, <1>10, <1>11, <1>12, <1>13,
           <1>14, <1>15, <1>16, <1>17, <1>18, Steps

LEMMA InitTypes == ASSUME Init PROVE TypeOK /\ HandlerQuiet
<1>1. \A t \in Threads : pc[t] \in {"config", "unregistered", "none"}
  BY DEF Init
<1>2. pc = [t \in Threads |-> pc[t]] /\ lpc = [t \in Threads |-> "idle"]
  BY DEF Init
<1>3. pc[Handler] = "unregistered" /\ lpc[Handler] = "idle"
  BY DEF Init
<1>4. HandlerQuiet
  BY <1>3 DEF HandlerQuiet
<1>5. log_mutex = NoThread /\ layout \in Layouts \cup {NoFile}
  BY DEF Init
<1>6. \A t \in Threads : lpc[t] = "write" <=> log_mutex = t
  BY <1>2, <1>5
<1>7. /\ {log_open, listen_fd, exit_flag, exit_accept_flag, thpool_keepalive, swept, crashed, early} \subseteq BOOLEAN
      /\ victim = NoThread /\ listening = "none" /\ closes = 0
  BY DEF Init
<1> QED BY <1>1, <1>2, <1>4, <1>5, <1>6, <1>7 DEF TypeOK

\* The types of the state; the log mutex is the thread's that writes, suspended or not.
THEOREM TypeCorrect == Spec => []TypeOK
<1>1. Init => TypeOK /\ HandlerQuiet
  BY InitTypes
<1> QED BY <1>1, TypeStep, PTL DEF Spec

-----------------------------------------------------------------------------
(* The listening socket. *)

\* The accept thread exists once main has created it, and has a socket once listen_fd is set.
AcceptorInv ==
    /\ pc[Main] \in {"config", "log_init", "fork", "register", "pool", "create"} =>
         pc[Acceptor] = "none"
    /\ listen_fd => pc[Acceptor] \notin {"none", "socket"}

\* The flags that let the accept thread and main go to the socket are set by the handler
\* when it has done with it, unless it came too early to find it.
ListenInv ==
    /\ AcceptorInv
    /\ ~early =>
         /\ pc[Handler] \in {"unregistered", "off", "test_listen", "close_listen"} =>
              closes = 0 /\ (pc[Handler] = "close_listen" => listen_fd)
         /\ pc[Handler] \in {"unset_listen", "set_exit", "set_accept", "handled"} => closes = 1
         /\ pc[Handler] \in {"set_exit", "set_accept", "handled"} => ~listen_fd
         /\ pc[Handler] \in {"close_listen", "unset_listen", "set_exit", "set_accept", "handled"} =>
              pc[Acceptor] \notin {"none", "socket"}
         /\ exit_flag \/ exit_accept_flag => pc[Handler] \in {"set_accept", "handled"}
         /\ pc[Main] \in {"close_log", "test_listen", "destroy"} => exit_flag
         /\ pc[Acceptor] = "test_listen" => exit_accept_flag
         /\ {pc[Main], pc[Acceptor]} \cap {"close_listen", "unset_listen"} = {}
    /\ pc[Handler] \in {"unregistered", "off", "test_listen", "close_listen", "unset_listen",
                        "set_exit", "set_accept", "handled"}

LEMMA ListenStep == ASSUME TypeOK, HandlerQuiet, ListenInv, [Next]_vars PROVE ListenInv'
<1> USE DEF TypeOK, HandlerQuiet, ListenInv, AcceptorInv, log, sock, flags, Quiet, LogLine, Move
<1>1. ASSUME NEW v \in Threads, Signal(v) PROVE ListenInv'
  BY <1>1 DEF Signal
<1>2. ASSUME NEW t \in Threads, Lock(t) \/ WriteLine(t) PROVE ListenInv'
  BY <1>2 DEF Lock, WriteLine
<1>3. CASE TestListen(Handler, "set_exit")
  BY <1>3 DEF TestListen
<1>4. CASE TestListen(Acceptor, "returned")
  BY <1>4 DEF TestListen
<1>5. CASE TestListen(Main, "destroy")
  BY <1>5 DEF TestListen
<1>6. CASE CloseListen(Handler)
  BY <1>6 DEF CloseListen
<1>7. CASE CloseListen(Acceptor)
  BY <1>7 DEF CloseListen
<1>8. CASE CloseListen(Main)
  BY <1>8 DEF CloseListen
<1>9. CASE UnsetListen(Handler, "set_exit")
  BY <1>9 DEF UnsetListen
<1>10. CASE UnsetListen(Acceptor, "returned")
  BY <1>10 DEF UnsetListen
<1>11. CASE UnsetListen(Main, "destroy")
  BY <1>11 DEF UnsetListen
<1>12. CASE SetExit
  BY <1>12 DEF SetExit
<1>13. CASE SetExitAccept
  BY <1>13 DEF SetExitAccept
<1>14. CASE Socket
  BY <1>14 DEF Socket
<1>15. CASE SetUp \/ AcceptTest \/ Accept
  BY <1>15 DEF SetUp, AcceptTest, Accept
<1>16. CASE ReadConfig \/ LogInit
  BY <1>16 DEF ReadConfig, LogInit
<1>17. CASE Fork \/ Register \/ GiveUp
  BY <1>17 DEF Fork, Register, GiveUp
<1>18. CASE CreatePool
  BY <1>18 DEF CreatePool
<1>19. CASE CreateAcceptTask
  BY <1>19 DEF CreateAcceptTask
<1>20. CASE Turn \/ UseQueue("loop") \/ UseQueue("queue") \/ EndLoop \/ CloseLog
  <2>1. CASE Turn
    BY <2>1 DEF Turn
  <2>2. ASSUME NEW next \in {"loop", "queue"}, UseQueue(next) PROVE ListenInv'
    BY <2>2 DEF UseQueue
  <2>3. CASE EndLoop
    BY <2>3 DEF EndLoop
  <2>4. CASE CloseLog
    BY <2>4 DEF CloseLog
  <2> QED BY <1>20, <2>1, <2>2, <2>3, <2>4
<1>21. CASE Destroy \/ Join
  BY <1>21 DEF Destroy, Join
<1>22. ASSUME NEW w \in Workers, Wake(w) \/ TakeJob(w) \/ ReturnOnEmpty(w) \/ WorkerEnds(w)
      PROVE  ListenInv'
  BY <1>22 DEF Wake, TakeJob, ReturnOnEmpty, WorkerEnds
<1>23. CASE UNCHANGED vars
  BY <1>23 DEF vars
<1> QED BY <1>1, <1>2, <1>3, <1>4, <1>5, <1>6, <1>7, <1>8, <1>9, <1>10, <1>11, <1>12, <1>13,
           <1>14, <1>15, <1>16, <1>17, <1>18, <1>19, <1>20, <1>21, <1>22, <1>23, Steps

\* The number of the listening socket is closed once, by whichever of the three comes to it
\* first, unless the signal came before the socket (g_net_update.c:62, 251, 738).
THEOREM SocketClosedOnce == Spec => []ListenClosedOnce
<1>1. Init => TypeOK /\ HandlerQuiet
  BY InitTypes
<1>2. Init => ListenInv
  BY DEF Init, ListenInv, AcceptorInv
<1>3. ListenInv => ListenClosedOnce
  BY DEF ListenInv, ListenClosedOnce
<1> QED BY <1>1, <1>2, <1>3, TypeStep, ListenStep, PTL DEF Spec

-----------------------------------------------------------------------------
(* What main has read of config.ini. *)

\* main goes on only when read_config_info has returned 0.
ReadInv == pc[Main] = "log_init" => layout # NoFile /\ read_config_info(Render(layout)) = 0

LEMMA ReadStep == ASSUME TypeOK, ReadInv, [Next]_vars PROVE ReadInv'
<1> USE DEF TypeOK, log, sock, flags, Quiet, LogLine, Move
<1> DEFINE Kept == pc'[Main] = "log_init" => pc[Main] = "log_init" /\ layout' = layout
<1>1. ASSUME NEW v \in Threads, Signal(v) PROVE Kept
  BY <1>1 DEF Signal
<1>2. ASSUME NEW t \in Threads, Lock(t) \/ WriteLine(t) PROVE Kept
  BY <1>2 DEF Lock, WriteLine
<1>3. ASSUME NEW t \in {Main, Acceptor, Handler},
             NEW next \in {"set_exit", "returned", "destroy"}, TestListen(t, next)
      PROVE  Kept
  BY <1>3 DEF TestListen
<1>4. ASSUME NEW t \in {Main, Acceptor, Handler}, CloseListen(t) PROVE Kept
  BY <1>4 DEF CloseListen
<1>5. ASSUME NEW t \in {Main, Acceptor, Handler},
             NEW next \in {"set_exit", "returned", "destroy"}, UnsetListen(t, next)
      PROVE  Kept
  BY <1>5 DEF UnsetListen
<1>6. ASSUME SetExit \/ SetExitAccept \/ Socket PROVE Kept
  BY <1>6 DEF SetExit, SetExitAccept, Socket
<1>7. ASSUME SetUp \/ AcceptTest \/ Accept PROVE Kept
  BY <1>7 DEF SetUp, AcceptTest, Accept
<1>8. ASSUME ReadConfig PROVE ReadInv'
  <2>1. /\ pc' = [pc EXCEPT ![Main] = IF read_config_info(File) = 0 THEN "log_init" ELSE "ended"]
        /\ layout' = layout
    BY <1>8 DEF ReadConfig
  <2>2. pc'[Main] = "log_init" => read_config_info(File) = 0
    BY <2>1
  <2>3. layout = NoFile => read_config_info(File) = -1
    <3>1. read_file_to_buff(<<>>) # 0
      BY DEF read_file_to_buff
    <3> QED BY <3>1, Zenon DEF File, read_config_info
  <2>4. layout # NoFile => File = Render(layout)
    BY DEF File
  <2>5. 0 # -1
    OBVIOUS
  <2> QED BY <2>1, <2>2, <2>3, <2>4, <2>5, Zenon DEF ReadInv
<1>9. ASSUME LogInit PROVE Kept
  BY <1>9 DEF LogInit
<1>10. ASSUME Fork \/ Register \/ GiveUp PROVE Kept
  BY <1>10 DEF Fork, Register, GiveUp
<1>11. ASSUME CreatePool PROVE Kept
  BY <1>11 DEF CreatePool
<1>12. ASSUME CreateAcceptTask PROVE Kept
  BY <1>12 DEF CreateAcceptTask
<1>13. ASSUME Turn \/ UseQueue("loop") \/ UseQueue("queue") \/ EndLoop \/ CloseLog PROVE Kept
  BY <1>13 DEF Turn, UseQueue, EndLoop, CloseLog
<1>14. ASSUME Destroy \/ Join PROVE Kept
  BY <1>14 DEF Destroy, Join
<1>15. ASSUME NEW w \in Workers, Wake(w) \/ TakeJob(w) \/ ReturnOnEmpty(w) \/ WorkerEnds(w)
      PROVE  Kept
  BY <1>15 DEF Wake, TakeJob, ReturnOnEmpty, WorkerEnds
<1>16. ASSUME UNCHANGED vars PROVE Kept
  BY <1>16 DEF vars
<1>17. Kept \/ ReadConfig
  <2> HIDE DEF Kept
  <2> QED BY <1>1, <1>2, <1>3, <1>4, <1>5, <1>6, <1>7, <1>9, <1>10, <1>11, <1>12, <1>13,
             <1>14, <1>15, <1>16, Steps
<1> QED BY <1>8, <1>17, Zenon DEF ReadInv

\* read_config_info gives every key what its line says, whatever the values hold and whatever
\* the order, the spaces and the ends of the lines are, unless the key word stands somewhere
\* before its line; and only a last line that nothing ends is read as empty (config_info.c:69, 86).
THEOREM ReadAsWritten == Spec => []ConfigAsWritten
<1>1. Init => TypeOK /\ HandlerQuiet
  BY InitTypes
<1>2. Init => ReadInv
  BY DEF Init, ReadInv
<1>3. TypeOK /\ ReadInv => ConfigAsWritten
  <2> SUFFICES ASSUME TypeOK, ReadInv, pc[Main] = "log_init"
               PROVE  \A i \in Indices : ~Elsewhere(layout, Key(i)) =>
                        config_info(Render(layout))[i] =
                          IF ~layout.ended /\ Key(i) = layout.order[Len(layout.order)] /\ Key(i) \notin layout.closed
                            THEN <<>> ELSE Written[Key(i)]
    BY Zenon DEF ConfigAsWritten
  <2>1. layout \in Layouts /\ read_config_info(Render(layout)) = 0
    BY Zenon DEF TypeOK, ReadInv
  <2> QED BY <2>1, ValuesRead, Zenon
<1> QED BY <1>1, <1>2, <1>3, TypeStep, ReadStep, PTL DEF Spec

-----------------------------------------------------------------------------
(* The end of the server. *)

\* Before the log is open nothing is logged, and it is closed only when the server ends;
\* main returns before there are workers, or after it has joined them.
EndInv ==
    /\ crashed => exit_flag
    /\ \/ log_open \/ exit_flag \/ Ended
       \/ pc[Main] \in {"config", "log_init"} /\ \A t \in Threads : lpc[t] = "idle"
    /\ pc[Main] = "close_log" => exit_flag
    /\ pc[Main] \in {"config", "log_init", "fork", "register", "pool", "give_up"} =>
         \A w \in Workers : pc[w] = "none"
    /\ \A w \in Workers : pc[w] \in {"none", "wait", "lock", "abandoned", "exited"}
    /\ Ended => \A w \in Workers : pc[w] \notin {"wait", "lock"}

LEMMA EndStep == ASSUME TypeOK, HandlerQuiet, AcceptorInv, EndInv, [Next]_vars PROVE EndInv'
<1> USE DEF TypeOK, HandlerQuiet, EndInv, Ended, Runs, log, sock, flags, Quiet, LogLine, Move
<1>1. ASSUME NEW v \in Threads, Signal(v) PROVE EndInv'
  BY <1>1 DEF Signal
<1>2. ASSUME NEW t \in Threads, Lock(t) PROVE EndInv'
  BY <1>2 DEF Lock
<1>3. ASSUME NEW t \in Threads, WriteLine(t) PROVE EndInv'
  BY <1>3 DEF WriteLine
<1>4. ASSUME NEW t \in {Main, Acceptor, Handler},
             NEW next \in {"set_exit", "returned", "destroy"}, TestListen(t, next)
      PROVE  EndInv'
  BY <1>4 DEF TestListen
<1>5. ASSUME NEW t \in {Main, Acceptor, Handler}, CloseListen(t) PROVE EndInv'
  BY <1>5 DEF CloseListen
<1>6. ASSUME NEW t \in {Main, Acceptor, Handler},
             NEW next \in {"set_exit", "returned", "destroy"}, UnsetListen(t, next)
      PROVE  EndInv'
  BY <1>6 DEF UnsetListen
<1>7. CASE SetExit \/ SetExitAccept
  BY <1>7 DEF SetExit, SetExitAccept
<1>8. CASE Socket \/ SetUp
  <2>1. CASE Socket
    BY <2>1 DEF Socket, AcceptorInv
  <2>2. CASE SetUp
    BY <2>2 DEF SetUp, AcceptorInv
  <2> QED BY <1>8, <2>1, <2>2
<1>9. CASE AcceptTest \/ Accept
  <2>1. CASE AcceptTest
    BY <2>1 DEF AcceptTest
  <2>2. CASE Accept
    BY <2>2 DEF Accept, AcceptorInv
  <2> QED BY <1>9, <2>1, <2>2
<1>10. CASE ReadConfig
  BY <1>10 DEF ReadConfig
<1>11. CASE LogInit
  BY <1>11 DEF LogInit
<1>12. CASE Fork
  BY <1>12 DEF Fork
<1>13. CASE Register
  BY <1>13 DEF Register
<1>14. CASE GiveUp
  BY <1>14 DEF GiveUp
<1>15. CASE CreatePool
  BY <1>15 DEF CreatePool
<1>16. CASE CreateAcceptTask
  BY <1>16 DEF CreateAcceptTask
<1>17. CASE Turn \/ UseQueue("loop") \/ UseQueue("queue") \/ EndLoop \/ CloseLog
  <2>1. CASE Turn
    BY <2>1 DEF Turn
  <2>2. ASSUME NEW next \in {"loop", "queue"}, UseQueue(next) PROVE EndInv'
    <3>1. /\ pc' = [pc EXCEPT ![Main] = next] /\ pc[Main] = "queue"
          /\ UNCHANGED <<exit_flag, log_open, crashed>>
      BY <2>2 DEF UseQueue
    <3>2. log_open \/ exit_flag
      BY <3>1
    <3> QED BY <3>1, <3>2
  <2>3. CASE EndLoop
    BY <2>3 DEF EndLoop
  <2>4. CASE CloseLog
    BY <2>4 DEF CloseLog
  <2> QED BY <1>17, <2>1, <2>2, <2>3, <2>4
<1>18. CASE Destroy
  BY <1>18 DEF Destroy
<1>19. CASE Join
  BY <1>19 DEF Join
<1>20. ASSUME NEW w \in Workers, Wake(w) \/ TakeJob(w) \/ ReturnOnEmpty(w) \/ WorkerEnds(w)
      PROVE  EndInv'
  BY <1>20 DEF Wake, TakeJob, ReturnOnEmpty, WorkerEnds
<1>21. CASE UNCHANGED vars
  BY <1>21 DEF vars
<1> QED BY <1>1, <1>2, <1>3, <1>4, <1>5, <1>6, <1>7, <1>8, <1>9, <1>10, <1>11, <1>12, <1>13,
           <1>14, <1>15, <1>16, <1>17, <1>18, <1>19, <1>20, <1>21, Steps

LEMMA EndAlways == Spec => []EndInv
<1>1. Init => TypeOK /\ HandlerQuiet
  BY InitTypes
<1>2. Init => EndInv
  <2> SUFFICES ASSUME Init PROVE EndInv
    OBVIOUS
  <2>1. pc[Main] = "config" /\ (\A w \in Workers : pc[w] = "none") /\ (\A t \in Threads : lpc[t] = "idle")
    BY DEF Init
  <2> QED BY <2>1 DEF Init, EndInv, Ended
<1>3. Init => ListenInv
  BY DEF Init, ListenInv, AcceptorInv
<1>4. ListenInv => AcceptorInv
  BY DEF ListenInv
<1> QED BY <1>1, <1>2, <1>3, <1>4, TypeStep, ListenStep, EndStep, PTL DEF Spec

\* A line that crashes the server is one of its last: the file is closed under a thread that
\* logs only once a kill signal has set exit_flag (g_net_update.c:737).
THEOREM CrashNeedsSignal == Spec => [](crashed => exit_flag)
<1>1. EndInv => (crashed => exit_flag)
  BY DEF EndInv
<1> QED BY <1>1, EndAlways, PTL

\* main returns only when no worker is left: none was started, or each was joined
\* (thread_pool.c:92), be it one that has returned with the mutex of the queue.
THEOREM MainOutlivesWorkers ==
    Spec => [](Ended => \A w \in Workers : pc[w] \in {"none", "exited", "abandoned"})
<1>1. EndInv => (Ended => \A w \in Workers : pc[w] \in {"none", "exited", "abandoned"})
  BY DEF EndInv
<1> QED BY <1>1, EndAlways, PTL
=============================================================================
