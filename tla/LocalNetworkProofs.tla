-------------------------- MODULE LocalNetworkProofs --------------------------
(***************************************************************************)
(* Theorems about LocalNetwork, for shells that are not told to add a name *)
(* which their list has already: whatever commands are given and wherever  *)
(* they are cut off, the list and the network configuration stay the same, *)
(* identities are those of the keys, and a sync or a change of the first   *)
(* contact reaches every node.                                             *)
(***************************************************************************)
EXTENDS LocalNetwork, SequenceTheorems, TLAPS

-----------------------------------------------------------------------------
(* Nodes, steps and commands                                               *)

Obj == [name : Names, up : BOOLEAN, run : BOOLEAN, rid : Key, fc : Key, key : Key]

Verbs == {"mkdir", "load", "key", "save", "add", "set", "rmdir", "remove", "visit",
          "wipe", "wipeall", "wipekey", "start", "stop"}

(* Steps that come only at the beginning, or only at the end.              *)
Openers == {"mkdir", "key", "rmdir", "wipekey", "unset"}
Closers == {"add", "remove", "set"}

(* The steps there can be with n nodes.                                    *)
Work(n) ==
  [do : Verbs, i : 1..n, x : {None}] \union [do : {"apply"}, i : 1..n, x : 1..n]
    \union [do : {"clear"}, i : 1..n, x : Obj] \union [do : {"unset"}, i : {0}, x : Obj]

Leads(t, do, next) ==
  t[1].do = do => 2 \in 1..Len(t) /\ t[2] = Step(next, t[1].i, None)

(* The order of the steps of a command.                                    *)
Shaped(t) ==
  /\ \A k \in 1..Len(t) : t[k].do \in Closers => k = Len(t)
  /\ \A k \in 2..Len(t) : /\ t[k].do \notin Openers
                          /\ t[k].do = "save" => k = 2 /\ t[1].do = "key"
                          /\ t[k].do = "remove" => t[1].do = "rmdir"
  /\ t # <<>> => Leads(t, "mkdir", "load") /\ Leads(t, "key", "save") /\ Leads(t, "rmdir", "remove")

Left == ToSet(todo)
Rest == ToSet(Tail(todo))

Has(do, i) == \E s \in Left : s.do = do /\ s.i = i
Adding == \E s \in Left : s.do = "add"

(* The list is the one of the network configuration, but for a node that   *)
(* is being added, which is new and the last one.                          *)
Listed ==
  /\ \A i \in 1..Len(net.names) : nodes[i].name = net.names[i]
  /\ IF Adding THEN /\ Len(nodes) = Len(net.names) + 1
                    /\ \A i \in 1..Len(net.names) : net.names[i] # nodes[Len(nodes)].name
     ELSE Len(nodes) = Len(net.names)
  /\ \A s \in Left : s.do = "add" => s.i = Len(nodes)

Typed ==
  /\ open \in BOOLEAN /\ synced \in BOOLEAN /\ spoilt \in BOOLEAN
  /\ cut \subseteq Names /\ keys \in 0..MaxKeys /\ faults \in Nat
  /\ nodes \in Seq(Obj) /\ todo \in Seq(Work(Len(nodes)))
  /\ net \in [fc : Names \union {None}, names : Seq(Names)]
  /\ disk \in [Names -> Dir \union {None}]
  /\ ~open => nodes = <<>> /\ todo = <<>>

(* A node that is initialized has a directory, until both go.              *)
HasHome ==
  /\ \A i \in Ids : nodes[i].up => Exists(i) \/ (At("remove") /\ It.i = i)
  /\ At("key") \/ At("save") \/ At("wipekey") => Exists(It.i)

TypeInv ==
  /\ Typed /\ Shaped(todo) /\ HasHome
  /\ \A i, j \in 1..Len(net.names) : net.names[i] = net.names[j] => i = j
  /\ open => Listed

-----------------------------------------------------------------------------
(* Sequences                                                               *)

LEMMA RemoveAtElements ==
  ASSUME NEW S, NEW s \in Seq(S), NEW n \in Nat, n = Len(s), NEW i \in 1..n
  PROVE  /\ RemoveAt(s, i) \in Seq(S) /\ Len(RemoveAt(s, i)) = n - 1
         /\ \A j \in 1..(n - 1) : RemoveAt(s, i)[j] = s[IF j < i THEN j ELSE j + 1]
<1> DEFINE a == SubSeq(s, 1, i - 1)
           b == SubSeq(s, i + 1, n)
<1>1. a \in Seq(S) /\ Len(a) = i - 1 /\ \A j \in 1..(i - 1) : a[j] = s[j]
  <2>1. 1 \in Int /\ i - 1 \in Int /\ \A j \in 1..(i - 1) : s[j] \in S
    BY ElementOfSeq
  <2>2. /\ a \in Seq(S) /\ Len(a) = (IF 1 <= i - 1 THEN (i - 1) - 1 + 1 ELSE 0)
        /\ \A j \in 1..((i - 1) - 1 + 1) : a[j] = s[1 + j - 1]
    BY <2>1, SubSeqProperties
  <2> HIDE DEF a
  <2> QED
    BY <2>2
<1>2. b \in Seq(S) /\ Len(b) = n - i /\ \A j \in 1..(n - i) : b[j] = s[i + j]
  <2>1. i + 1 \in Int /\ n \in Int /\ \A j \in (i + 1)..n : s[j] \in S
    BY ElementOfSeq
  <2>2. /\ b \in Seq(S) /\ Len(b) = (IF i + 1 <= n THEN n - (i + 1) + 1 ELSE 0)
        /\ \A j \in 1..(n - (i + 1) + 1) : b[j] = s[(i + 1) + j - 1]
    BY <2>1, SubSeqProperties
  <2> HIDE DEF b
  <2>3. \A j \in 1..(n - i) : j \in 1..(n - (i + 1) + 1) /\ (i + 1) + j - 1 = i + j
    OBVIOUS
  <2> QED
    BY <2>2, <2>3
<1> HIDE DEF a, b
<1>3. /\ a \o b \in Seq(S) /\ Len(a \o b) = n - 1
      /\ \A j \in 1..(n - 1) : (a \o b)[j] = IF j <= i - 1 THEN a[j] ELSE b[j - (i - 1)]
  <2>1. /\ a \o b \in Seq(S) /\ Len(a \o b) = Len(a) + Len(b)
        /\ \A j \in 1..(Len(a) + Len(b)) : (a \o b)[j] = IF j <= Len(a) THEN a[j] ELSE b[j - Len(a)]
    BY <1>1, <1>2, ConcatProperties
  <2>2. Len(a) + Len(b) = n - 1
    BY <1>1, <1>2
  <2> QED
    BY <1>1, <2>1, <2>2
<1>4. ASSUME NEW j \in 1..(n - 1)
      PROVE  (a \o b)[j] = s[IF j < i THEN j ELSE j + 1]
  <2>1. CASE j < i
    <3>1. j \in 1..(i - 1) /\ j <= i - 1
      BY <2>1
    <3> QED
      BY <1>1, <1>3, <2>1, <3>1
  <2>2. CASE ~(j < i)
    <3>1. PICK k \in 1..(n - i) : k = j - (i - 1) /\ i + k = j + 1
      <4>1. j - (i - 1) \in 1..(n - i) /\ i + (j - (i - 1)) = j + 1
        BY <2>2
      <4> QED
        BY <4>1
    <3>2. ~(j <= i - 1)
      BY <2>2
    <3>3. (a \o b)[j] = b[k]
      BY <1>3, <3>1, <3>2
    <3>4. b[k] = s[j + 1]
      BY <1>2, <3>1
    <3> QED
      BY <2>2, <3>3, <3>4
  <2> QED
    BY <2>1, <2>2
<1> QED
  BY <1>3, <1>4 DEF RemoveAt, a, b

LEMMA Elements ==
  ASSUME NEW S, NEW s \in Seq(S)
  PROVE  /\ ToSet(s) \subseteq S
         /\ \A k \in 1..Len(s) : s[k] \in ToSet(s)
         /\ \A x \in ToSet(s) : \E k \in 1..Len(s) : s[k] = x
         /\ s = <<>> <=> ToSet(s) = {}
         /\ s # <<>> => Head(s) = s[1] /\ Head(s) \in ToSet(s) /\ 1 \in 1..Len(s)
<1>1. PICK n \in Nat : n = Len(s) /\ DOMAIN s = 1..n /\ \A k \in 1..n : s[k] \in S
  BY LenProperties
<1>2. s # <<>> => Head(s) = s[1] /\ 1 \in 1..n
  BY <1>1, EmptySeq, HeadTailProperties
<1>3. s = <<>> => n = 0
  BY <1>1
<1> QED
  BY <1>1, <1>2, <1>3 DEF ToSet

LEMMA Joined ==
  ASSUME NEW S, NEW p \in Seq(S), NEW r \in Seq(S)
  PROVE  /\ p \o r \in Seq(S)
         /\ ToSet(p \o r) = ToSet(p) \union ToSet(r)
         /\ p # <<>> => p \o r # <<>> /\ Head(p \o r) = p[1]
         /\ Len(p \o r) = Len(p) + Len(r)
         /\ \A k \in 1..Len(p) : (p \o r)[k] = p[k]
         /\ \A k \in 1..Len(r) : (p \o r)[Len(p) + k] = r[k]
<1>1. PICK m \in Nat : m = Len(p)
  BY LenProperties
<1>2. PICK n \in Nat : n = Len(r)
  BY LenProperties
<1> DEFINE t == p \o r
<1>3. /\ t \in Seq(S) /\ Len(t) = m + n
      /\ \A k \in 1..(m + n) : t[k] = IF k <= m THEN p[k] ELSE r[k - m]
  BY <1>1, <1>2, ConcatProperties
<1> HIDE DEF t
<1>4. DOMAIN t = 1..(m + n) /\ DOMAIN p = 1..m /\ DOMAIN r = 1..n
  BY <1>1, <1>2, <1>3, LenProperties
<1>5. \A k \in 1..m : k \in 1..(m + n) /\ t[k] = p[k]
  BY <1>3
<1>6. ASSUME NEW k \in 1..n PROVE m + k \in 1..(m + n) /\ t[m + k] = r[k]
  <2>1. m + k \in 1..(m + n) /\ ~(m + k <= m) /\ (m + k) - m = k
    OBVIOUS
  <2> QED
    BY <1>3, <2>1
<1>7. ASSUME NEW k \in 1..(m + n)
      PROVE  k \in 1..m \/ \E j \in 1..n : k = m + j
  <2>1. k \in 1..m \/ (k - m \in 1..n /\ k = m + (k - m))
    OBVIOUS
  <2> QED
    BY <2>1
<1>8. ToSet(t) = ToSet(p) \union ToSet(r)
  <2>1. ASSUME NEW k \in 1..(m + n) PROVE t[k] \in ToSet(p) \union ToSet(r)
    <3>1. CASE k \in 1..m
      BY <1>4, <1>5, <3>1 DEF ToSet
    <3>2. ASSUME NEW j \in 1..n, k = m + j PROVE t[k] \in ToSet(r)
      BY <1>4, <1>6, <3>2 DEF ToSet
    <3> QED
      BY <1>7, <3>1, <3>2
  <2>2. ToSet(p) \subseteq ToSet(t)
    BY <1>4, <1>5 DEF ToSet
  <2>3. ToSet(r) \subseteq ToSet(t)
    BY <1>4, <1>6 DEF ToSet
  <2>4. ToSet(t) = {t[k] : k \in 1..(m + n)}
    BY <1>4 DEF ToSet
  <2> QED
    BY <2>1, <2>2, <2>3, <2>4
<1>9. ASSUME p # <<>> PROVE t # <<>> /\ Head(t) = p[1]
  <2>1. 1 \in 1..m
    BY <1>1, <1>9, EmptySeq
  <2>2. t # <<>>
    BY <1>3, <2>1
  <2> QED
    BY <1>3, <1>5, <2>1, <2>2, HeadTailProperties
<1> QED
  BY <1>1, <1>2, <1>3, <1>5, <1>6, <1>8, <1>9 DEF t

LEMMA Behind ==
  ASSUME NEW S, NEW s \in Seq(S), s # <<>>
  PROVE  /\ Tail(s) \in Seq(S)
         /\ ToSet(s) = {Head(s)} \union ToSet(Tail(s))
         /\ \A x \in ToSet(Tail(s)) : \E k \in 2..Len(s) : s[k] = x
         /\ Len(Tail(s)) = Len(s) - 1
         /\ \A k \in 1..Len(Tail(s)) : Tail(s)[k] = s[k + 1]
<1>1. PICK n \in Nat : n = Len(s) /\ DOMAIN s = 1..n
  BY LenProperties
<1>2. n # 0
  BY <1>1, EmptySeq
<1> DEFINE t == Tail(s)
<1>3. t \in Seq(S) /\ Len(t) = n - 1 /\ \A k \in 1..(n - 1) : t[k] = s[k + 1]
  BY <1>1, HeadTailProperties
<1> HIDE DEF t
<1>4. DOMAIN t = 1..(n - 1)
  BY <1>2, <1>3, LenProperties
<1>5. Head(s) = s[1]
  BY <1>1, <1>2, HeadTailProperties
<1>6. \A k \in 1..(n - 1) : k + 1 \in 2..n /\ k + 1 \in 1..n
  OBVIOUS
<1>7. ASSUME NEW k \in 1..n PROVE k = 1 \/ \E j \in 1..(n - 1) : k = j + 1
  <2>1. k = 1 \/ (k - 1 \in 1..(n - 1) /\ k = (k - 1) + 1)
    OBVIOUS
  <2> QED
    BY <2>1
<1>8. ToSet(s) \subseteq {Head(s)} \union ToSet(t)
  <2>1. ASSUME NEW k \in 1..n PROVE s[k] \in {Head(s)} \union ToSet(t)
    <3>1. ASSUME NEW j \in 1..(n - 1), k = j + 1 PROVE s[k] \in ToSet(t)
      BY <1>3, <1>4, <3>1 DEF ToSet
    <3> QED
      BY <1>5, <1>7, <3>1
  <2>2. ToSet(s) = {s[k] : k \in 1..n}
    BY <1>1 DEF ToSet
  <2> QED
    BY <2>1, <2>2
<1>9. {Head(s)} \union ToSet(t) \subseteq ToSet(s)
  <2>1. Head(s) \in ToSet(s)
    BY <1>1, <1>2, <1>5 DEF ToSet
  <2>2. ToSet(t) \subseteq ToSet(s)
    BY <1>1, <1>3, <1>4, <1>6 DEF ToSet
  <2> QED
    BY <2>1, <2>2
<1>10. \A x \in ToSet(t) : \E k \in 2..n : s[k] = x
  BY <1>3, <1>4, <1>6 DEF ToSet
<1> QED
  BY <1>1, <1>3, <1>8, <1>9, <1>10 DEF t

LEMMA Singles ==
  ASSUME NEW a, NEW b
  PROVE  /\ ToSet(<<>>) = {} /\ ToSet(<<a>>) = {a} /\ ToSet(<<a, b>>) = {a, b}
         /\ \A S : /\ a \in S => <<a>> \in Seq(S)
                   /\ a \in S /\ b \in S => <<a, b>> \in Seq(S)
<1>1. ToSet(<<>>) = {} /\ ToSet(<<a>>) = {a}
  BY DEF ToSet
<1>2. ToSet(<<a, b>>) = {a, b}
  <2>1. DOMAIN <<a, b>> = {1, 2} /\ <<a, b>>[1] = a /\ <<a, b>>[2] = b
    OBVIOUS
  <2> QED
    BY <2>1 DEF ToSet
<1> QED
  BY <1>1, <1>2

-----------------------------------------------------------------------------
(* What is left of a command                                               *)

LEMMA Steps2 ==
  ASSUME NEW do, NEW i, NEW x
  PROVE  Step(do, i, x).do = do /\ Step(do, i, x).i = i /\ Step(do, i, x).x = x
BY DEF Step

LEMMA Works ==
  ASSUME NEW n \in Nat, NEW i \in 1..n
  PROVE  /\ \A do \in Verbs : Step(do, i, None) \in Work(n)
         /\ \A x \in 1..n : Step("apply", i, x) \in Work(n)
         /\ \A x \in Obj : Step("clear", i, x) \in Work(n)
BY DEF Step, Work

LEMMA Unsets ==
  ASSUME NEW n \in Nat, NEW x \in Obj
  PROVE  Step("unset", 0, x) \in Work(n)
BY DEF Step, Work

LEMMA WorkFields ==
  ASSUME NEW n \in Nat, NEW s \in Work(n)
  PROVE  /\ s = Step(s.do, s.i, s.x)
         /\ s.do \in Verbs \union {"apply", "clear", "unset"}
         /\ s.do # "unset" => s.i \in 1..n
         /\ s.do = "apply" => s.x \in 1..n
         /\ s.do \in {"clear", "unset"} => s.x \in Obj
         /\ s.do \in Verbs => s.x = None
<1>1. CASE s \in [do : Verbs, i : 1..n, x : {None}]
  BY <1>1 DEF Verbs, Step
<1>2. CASE s \in [do : {"apply"}, i : 1..n, x : 1..n]
  BY <1>2 DEF Verbs, Step
<1>3. CASE s \in [do : {"clear"}, i : 1..n, x : Obj]
  BY <1>3 DEF Verbs, Step
<1>4. CASE s \in [do : {"unset"}, i : {0}, x : Obj]
  BY <1>4 DEF Verbs, Step
<1> QED
  BY <1>1, <1>2, <1>3, <1>4 DEF Work

(* Of a shaped sequence the tail is one, too.                              *)
LEMMA ShapedTail ==
  ASSUME NEW S, NEW t \in Seq(S), t # <<>>, Shaped(t)
  PROVE  /\ Shaped(Tail(t))
         /\ \A s \in ToSet(Tail(t)) : /\ s.do \notin Openers
                                      /\ s.do = "save" => Head(t).do = "key"
                                      /\ s.do = "remove" => Head(t).do = "rmdir"
         /\ Head(t).do \in Closers => Tail(t) = <<>>
         /\ \A v, w : Leads(t, v, w) /\ Head(t).do = v =>
              /\ Tail(t) # <<>> /\ Head(Tail(t)) = Step(w, Head(t).i, None)
              /\ Step(w, Head(t).i, None) \in ToSet(Tail(t))
<1>1. PICK n \in Nat : n = Len(t)
  BY LenProperties
<1>2. n # 0 /\ Head(t) = t[1]
  BY <1>1, EmptySeq, HeadTailProperties
<1> DEFINE r == Tail(t)
<1>3. /\ r \in Seq(S) /\ Len(r) = n - 1 /\ \A k \in 1..(n - 1) : r[k] = t[k + 1]
      /\ \A x \in ToSet(r) : \E k \in 2..n : t[k] = x
  BY <1>1, Behind
<1>4. r # <<>> => Head(r) = r[1] /\ Head(r) \in ToSet(r) /\ 1 \in 1..(n - 1)
  BY <1>3, Elements
<1>5. n - 1 # 0 => r # <<>>
  BY <1>3, EmptySeq
<1>6. n - 1 = 0 => r = <<>>
  BY <1>3, EmptySeq
<1> HIDE DEF r
<1>7. /\ \A k \in 1..n : t[k].do \in Closers => k = n
      /\ \A k \in 2..n : /\ t[k].do \notin Openers
                         /\ t[k].do = "save" => k = 2 /\ t[1].do = "key"
                         /\ t[k].do = "remove" => t[1].do = "rmdir"
      /\ Leads(t, "mkdir", "load") /\ Leads(t, "key", "save") /\ Leads(t, "rmdir", "remove")
  BY <1>1 DEF Shaped
<1>8. Shaped(r)
  <2>1. ASSUME NEW k \in 1..(n - 1), r[k].do \in Closers PROVE k = n - 1
    <3>1. k + 1 \in 1..n
      OBVIOUS
    <3>2. k + 1 = n
      BY <1>3, <1>7, <2>1, <3>1
    <3> QED
      BY <3>2
  <2>2. ASSUME NEW k \in 2..(n - 1)
        PROVE  r[k].do \notin Openers /\ r[k].do # "save" /\ r[k].do # "remove"
    <3>1. k + 1 \in 2..n /\ k + 1 # 2 /\ k \in 1..(n - 1) /\ k + 1 \in 1..n /\ 2 \in 1..n /\ 2 # n
      OBVIOUS
    <3>2. r[k] = t[k + 1]
      BY <1>3, <3>1
    <3>3. t[k + 1].do # "remove"
      <4>1. SUFFICES ASSUME t[k + 1].do = "remove" PROVE FALSE
        OBVIOUS
      <4>2. t[1].do = "rmdir"
        BY <1>7, <3>1, <4>1
      <4>3. t[2].do = "remove"
        BY <1>7, <4>2, Steps2 DEF Leads
      <4> QED
        BY <1>7, <3>1, <4>3 DEF Closers
    <3> QED
      BY <1>7, <3>1, <3>2, <3>3
  <2>3. ASSUME r # <<>> PROVE r[1].do \notin Openers
    <3>1. 1 \in 1..(n - 1) /\ 2 \in 2..n
      BY <1>4, <2>3
    <3> QED
      BY <1>3, <1>7, <3>1
  <2>4. r # <<>> => Leads(r, "mkdir", "load") /\ Leads(r, "key", "save") /\ Leads(r, "rmdir", "remove")
    BY <2>3 DEF Leads, Openers
  <2> QED
    BY <1>3, <2>1, <2>2, <2>4 DEF Shaped
<1>9. ASSUME Head(t).do \in Closers PROVE r = <<>>
  <2>1. 1 \in 1..n
    BY <1>2
  <2> QED
    BY <1>2, <1>6, <1>7, <1>9, <2>1
<1>10. ASSUME NEW v, NEW w, Leads(t, v, w), Head(t).do = v
       PROVE  /\ r # <<>> /\ Head(r) = Step(w, Head(t).i, None)
              /\ Step(w, Head(t).i, None) \in ToSet(r)
  <2>1. 2 \in 1..n /\ t[2] = Step(w, t[1].i, None)
    BY <1>1, <1>2, <1>10 DEF Leads
  <2>2. r # <<>> /\ r[1] = t[2]
    BY <1>3, <1>5, <2>1
  <2> QED
    BY <1>2, <1>4, <2>1, <2>2
<1> QED
  BY <1>2, <1>3, <1>7, <1>8, <1>9, <1>10 DEF r

(* What may be put before the rest of a command.                           *)
Fits(p, r) ==
  /\ Shaped(p) /\ Shaped(r)
  /\ \A s \in ToSet(p) : s.do \notin Closers
  /\ \A s \in ToSet(r) : s.do \notin Openers \union {"save", "remove"}

LEMMA ShapedPush ==
  ASSUME NEW S, NEW p \in Seq(S), NEW r \in Seq(S), p # <<>>, Fits(p, r)
  PROVE  Shaped(p \o r)
<1>1. PICK m \in Nat : m = Len(p)
  BY LenProperties
<1>2. PICK n \in Nat : n = Len(r)
  BY LenProperties
<1> DEFINE t == p \o r
<1>3. /\ t # <<>> /\ Len(t) = m + n
      /\ \A k \in 1..m : t[k] = p[k]
      /\ \A k \in 1..n : t[m + k] = r[k]
  BY <1>1, <1>2, Joined
<1>4. 1 \in 1..m /\ m # 0
  BY <1>1, EmptySeq
<1> HIDE DEF t
<1>5. /\ \A k \in 1..m : p[k].do \notin Closers
      /\ \A k \in 1..n : r[k].do \notin Openers \union {"save", "remove"}
  BY <1>1, <1>2, Elements DEF Fits
<1>6. ASSUME NEW k \in 1..(m + n)
      PROVE  k \in 1..m \/ (k - m \in 1..n /\ k = m + (k - m))
  OBVIOUS
<1>7. ASSUME NEW k \in 1..(m + n), t[k].do \in Closers PROVE k = m + n
  <2>1. k - m \in 1..n /\ k = m + (k - m)
    BY <1>3, <1>5, <1>6, <1>7
  <2>2. t[k] = r[k - m]
    BY <1>3, <2>1
  <2>3. k - m = n
    BY <1>2, <1>7, <2>1, <2>2 DEF Fits, Shaped
  <2> QED
    BY <2>1, <2>3
<1>8. ASSUME NEW k \in 2..(m + n)
      PROVE  /\ t[k].do \notin Openers
             /\ t[k].do = "save" => k = 2 /\ t[1].do = "key"
             /\ t[k].do = "remove" => t[1].do = "rmdir"
  <2>1. CASE k \in 1..m
    <3>1. k \in 2..m /\ t[k] = p[k] /\ t[1] = p[1]
      BY <1>3, <1>4, <2>1
    <3> QED
      BY <1>1, <3>1 DEF Fits, Shaped
  <2>2. CASE k - m \in 1..n /\ k = m + (k - m)
    <3>1. t[k] = r[k - m]
      BY <1>3, <2>2
    <3> QED
      BY <1>5, <2>2, <3>1
  <2> QED
    BY <1>6, <2>1, <2>2
<1>9. \A v, w : Leads(p, v, w) => Leads(t, v, w)
  BY <1>1, <1>3, <1>4 DEF Leads
<1>10. Leads(p, "mkdir", "load") /\ Leads(p, "key", "save") /\ Leads(p, "rmdir", "remove")
  BY DEF Fits, Shaped
<1> QED
  BY <1>3, <1>7, <1>8, <1>9, <1>10 DEF Shaped, t

(* The shapes of what commands and steps put there.                        *)
LEMMA ShapedLoop ==
  ASSUME NEW S, NEW p \in Seq(S), NEW do, \A s \in ToSet(p) : s.do = do,
         do \notin Openers \union Closers \union {"save"}
  PROVE  Shaped(p)
<1>1. \A k \in 1..Len(p) : p[k].do = do
  BY Elements
<1>2. \A k \in 2..Len(p) : k \in 1..Len(p)
  BY LenProperties
<1>3. p # <<>> => 1 \in 1..Len(p)
  BY Elements
<1> QED
  BY <1>1, <1>2, <1>3 DEF Shaped, Leads, Openers, Closers

LEMMA ShapedOne ==
  ASSUME NEW s
  PROVE  Shaped(<<>>) /\ (s.do \notin {"mkdir", "key", "rmdir"} => Shaped(<<s>>))
<1>1. Len(<<>>) = 0 /\ Len(<<s>>) = 1 /\ <<s>>[1] = s
  OBVIOUS
<1>2. Shaped(<<>>)
  BY <1>1 DEF Shaped
<1>3. \A k \in 1..1 : k = 1
  OBVIOUS
<1>4. \A k \in 2..1 : FALSE
  OBVIOUS
<1> QED
  BY <1>1, <1>2, <1>3, <1>4 DEF Shaped, Leads

LEMMA ShapedPair ==
  ASSUME NEW i, NEW do, NEW next,
         <<do, next>> \in {<<"mkdir", "load">>, <<"key", "save">>, <<"rmdir", "remove">>}
  PROVE  Shaped(Pair(do, next, i))
<1> DEFINE a == Step(do, i, None)
           b == Step(next, i, None)
<1>1. a.do = do /\ a.i = i /\ b.do = next
  BY DEF Step
<1>2. Pair(do, next, i) = <<a, b>>
  BY DEF Pair
<1>3. b = Step(next, i, None)
  OBVIOUS
<1> HIDE DEF a, b
<1>4. Len(<<a, b>>) = 2 /\ <<a, b>>[1] = a /\ <<a, b>>[2] = b
  OBVIOUS
<1>5. \A k \in 1..2 : k = 1 \/ k = 2
  OBVIOUS
<1>6. \A k \in 2..2 : k = 2
  OBVIOUS
<1>7. do \notin Closers /\ next \notin Openers
  BY DEF Openers, Closers
<1>8. Leads(<<a, b>>, "mkdir", "load") /\ Leads(<<a, b>>, "key", "save") /\ Leads(<<a, b>>, "rmdir", "remove")
  <2>1. 2 \in 1..2
    OBVIOUS
  <2> QED
    BY <1>1, <1>3, <1>4, <2>1 DEF Leads
<1>9. /\ next = "save" => do = "key"
      /\ next = "remove" => do = "rmdir"
  OBVIOUS
<1> QED
  BY <1>1, <1>2, <1>4, <1>5, <1>6, <1>7, <1>8, <1>9 DEF Shaped


-----------------------------------------------------------------------------
(* The state a step starts from                                            *)

LEMMA Counts ==
  ASSUME Typed
  PROVE  Len(nodes) \in Nat /\ Ids = 1..Len(nodes) /\ \A i \in Ids : nodes[i] \in Obj /\ nodes[i].name \in Names
<1>1. PICK n \in Nat : n = Len(nodes) /\ Ids = 1..n /\ \A i \in 1..n : nodes[i] \in Obj
  BY LenProperties DEF Typed, Ids
<1> QED
  BY <1>1 DEF Obj

(* No two nodes of the list have the same name.                            *)
LEMMA Distinct ==
  ASSUME TypeInv, open, NEW i \in Ids, NEW j \in Ids, nodes[i].name = nodes[j].name
  PROVE  i = j
<1>1. PICK n \in Nat : n = Len(nodes)
  BY LenProperties DEF TypeInv, Typed
<1>2. PICK m \in Nat : m = Len(net.names)
  BY LenProperties DEF TypeInv, Typed
<1>3. i \in 1..n /\ j \in 1..n
  BY <1>1, Counts DEF TypeInv
<1>4. /\ \A k \in 1..m : nodes[k].name = net.names[k]
      /\ \A k, l \in 1..m : net.names[k] = net.names[l] => k = l
  BY <1>2 DEF TypeInv, Listed
<1>5. CASE Adding
  <2>1. n = m + 1 /\ \A k \in 1..m : net.names[k] # nodes[n].name
    BY <1>1, <1>2, <1>5 DEF TypeInv, Listed
  <2>2. \A k \in 1..n : k = n \/ k \in 1..m
    BY <2>1
  <2> QED
    BY <1>3, <1>4, <2>1, <2>2
<1>6. CASE ~Adding
  BY <1>1, <1>2, <1>3, <1>4, <1>6 DEF TypeInv, Listed
<1> QED
  BY <1>5, <1>6

(* The step that comes next, and those after it.                           *)
LEMMA Ahead ==
  ASSUME TypeInv, todo # <<>>
  PROVE  /\ open /\ It \in Left /\ Left = {It} \union Rest
         /\ It \in Work(Len(nodes)) /\ Tail(todo) \in Seq(Work(Len(nodes))) /\ Rest \subseteq Work(Len(nodes))
         /\ It.do \in Verbs \union {"apply", "clear", "unset"}
         /\ It.do # "unset" => It.i \in Ids /\ Me \in Obj /\ Me.name \in Names
         /\ It.do \in {"clear", "unset"} => It.x \in Obj
         /\ It.do = "apply" => It.x \in Ids
         /\ Shaped(Tail(todo))
         /\ \A s \in Rest : /\ s.do \notin Openers
                            /\ s.do = "save" => It.do = "key"
                            /\ s.do = "remove" => It.do = "rmdir"
         /\ It.do \in Closers => Rest = {} /\ Tail(todo) = <<>>
         /\ \A v, w : <<v, w>> \in {<<"mkdir", "load">>, <<"key", "save">>, <<"rmdir", "remove">>} /\ It.do = v =>
              /\ Tail(todo) # <<>> /\ Head(Tail(todo)) = Step(w, It.i, None)
              /\ Step(w, It.i, None) \in Rest
         /\ Tail(todo) # <<>> => Head(Tail(todo)) \in Rest
<1> DEFINE W == Work(Len(nodes))
<1>1. todo \in Seq(W) /\ Shaped(todo) /\ open /\ Typed
  BY DEF TypeInv, Typed
<1>2. Len(nodes) \in Nat /\ Ids = 1..Len(nodes) /\ \A i \in Ids : nodes[i] \in Obj /\ nodes[i].name \in Names
  BY <1>1, Counts
<1>3. Tail(todo) \in Seq(W) /\ ToSet(todo) = {Head(todo)} \union ToSet(Tail(todo))
  BY <1>1, Behind
<1>4. Head(todo) \in ToSet(todo) /\ ToSet(todo) \subseteq W /\ ToSet(Tail(todo)) \subseteq W
  BY <1>1, <1>3, Elements
<1>5. Tail(todo) # <<>> => Head(Tail(todo)) \in ToSet(Tail(todo))
  BY <1>3, Elements
<1>6. Leads(todo, "mkdir", "load") /\ Leads(todo, "key", "save") /\ Leads(todo, "rmdir", "remove")
  BY <1>1 DEF Shaped
<1> HIDE DEF W
<1>7. /\ Shaped(Tail(todo))
      /\ \A s \in ToSet(Tail(todo)) : /\ s.do \notin Openers
                                      /\ s.do = "save" => It.do = "key"
                                      /\ s.do = "remove" => It.do = "rmdir"
      /\ It.do \in Closers => Tail(todo) = <<>>
      /\ \A v, w : Leads(todo, v, w) /\ It.do = v =>
           /\ Tail(todo) # <<>> /\ Head(Tail(todo)) = Step(w, It.i, None)
           /\ Step(w, It.i, None) \in ToSet(Tail(todo))
  BY <1>1, ShapedTail DEF It
<1>8. It \in W
  BY <1>4 DEF It
<1>9. /\ It.do \in Verbs \union {"apply", "clear", "unset"}
      /\ It.do # "unset" => It.i \in Ids
      /\ It.do = "apply" => It.x \in Ids
      /\ It.do \in {"clear", "unset"} => It.x \in Obj
  BY <1>2, <1>8, WorkFields DEF W
<1>10. It.do # "unset" => Me \in Obj /\ Me.name \in Names
  BY <1>2, <1>9 DEF Me
<1>11. Tail(todo) = <<>> => Rest = {}
  BY Singles DEF Rest
<1>12. \A v, w : <<v, w>> \in {<<"mkdir", "load">>, <<"key", "save">>, <<"rmdir", "remove">>} => Leads(todo, v, w)
  BY <1>6
<1> QED
  BY <1>1, <1>3, <1>4, <1>5, <1>7, <1>8, <1>9, <1>10, <1>11, <1>12 DEF Left, Rest, W, It

-----------------------------------------------------------------------------
(* Most steps put one node, its directory and what comes next in the place *)
(* of what was there.                                                      *)

Moves(o, d, p) ==
  /\ open /\ todo # <<>> /\ It.do \notin {"unset", "add", "set", "remove"}
  /\ o \in Obj /\ o.name = Me.name /\ d \in Dir \union {None}
  /\ p \in Seq(Work(Len(nodes)))
  /\ nodes' = [nodes EXCEPT ![It.i] = o]
  /\ disk' = [disk EXCEPT ![Me.name] = d]
  /\ todo' = p \o Tail(todo)
  /\ UNCHANGED <<open, net, synced, cut>>

LEMMA Moved ==
  ASSUME TypeInv, NEW o, NEW d, NEW p, Moves(o, d, p)
  PROVE  /\ Len(nodes') = Len(nodes) /\ Ids' = Ids /\ nodes' \in Seq(Obj)
         /\ It.i \in Ids /\ Me \in Obj
         /\ nodes'[It.i] = o
         /\ \A i \in Ids : i # It.i => nodes'[i] = nodes[i]
         /\ \A i \in Ids : nodes'[i].name = nodes[i].name
         /\ disk' \in [Names -> Dir \union {None}]
         /\ disk'[Me.name] = d /\ Me.name \in Names
         /\ \A n \in Names : n # Me.name => disk'[n] = disk[n]
         /\ todo' \in Seq(Work(Len(nodes)))
         /\ Left' = ToSet(p) \union Rest /\ ToSet(p) \subseteq Work(Len(nodes))
         /\ p # <<>> => todo' # <<>> /\ It' = p[1] /\ It' \in ToSet(p)
         /\ p = <<>> => todo' = Tail(todo) /\ (todo' # <<>> => It' \in Rest)
<1>1. /\ It.i \in Ids /\ Me \in Obj /\ Me.name \in Names /\ Tail(todo) \in Seq(Work(Len(nodes)))
      /\ Tail(todo) # <<>> => Head(Tail(todo)) \in Rest
  BY Ahead DEF Moves
<1>2. Typed
  BY DEF TypeInv
<1>3. Ids = 1..Len(nodes) /\ Len(nodes) \in Nat
  BY <1>2, Counts
<1>4. nodes \in Seq(Obj) /\ disk \in [Names -> Dir \union {None}]
  BY <1>2 DEF Typed
<1>5. o \in Obj /\ nodes' = [nodes EXCEPT ![It.i] = o] /\ o.name = Me.name
  BY DEF Moves
<1>6. nodes' \in Seq(Obj) /\ Len(nodes') = Len(nodes)
  BY <1>1, <1>3, <1>4, <1>5, ExceptSeq
<1>7. Ids' = 1..Len(nodes')
  BY <1>6, LenProperties DEF Ids
<1>8. nodes'[It.i] = o /\ \A i \in Ids : i # It.i => nodes'[i] = nodes[i]
  BY <1>1, <1>5 DEF Ids
<1>9. \A i \in Ids : nodes'[i].name = nodes[i].name
  BY <1>5, <1>8 DEF Me
<1>10. disk' \in [Names -> Dir \union {None}] /\ disk'[Me.name] = d /\ \A n \in Names : n # Me.name => disk'[n] = disk[n]
  BY <1>1, <1>4 DEF Moves
<1>11. p \in Seq(Work(Len(nodes))) /\ todo' = p \o Tail(todo)
  BY DEF Moves
<1>12. todo' \in Seq(Work(Len(nodes))) /\ ToSet(todo') = ToSet(p) \union ToSet(Tail(todo))
  <2>1. PICK W : W = Work(Len(nodes))
    OBVIOUS
  <2>2. p \in Seq(W) /\ Tail(todo) \in Seq(W)
    BY <1>1, <1>11, <2>1
  <2>3. p \o Tail(todo) \in Seq(W)
    BY <2>2, Joined
  <2> DEFINE t == Tail(todo)
  <2>4. t \in Seq(W)
    BY <2>2
  <2> HIDE DEF t
  <2>5. ToSet(p \o t) = ToSet(p) \union ToSet(t)
    BY <2>2, <2>4, Joined
  <2> QED
    BY <1>11, <2>1, <2>3, <2>5 DEF t
<1>13. p # <<>> => todo' # <<>> /\ Head(todo') = p[1] /\ p[1] \in ToSet(p)
  BY <1>1, <1>11, Joined, Elements
<1>14. ToSet(p) \subseteq Work(Len(nodes))
  BY <1>11, Elements
<1>15. p = <<>> => todo' = Tail(todo)
  BY <1>1, <1>11, ConcatEmptySeq
<1> QED
  BY <1>1, <1>3, <1>6, <1>7, <1>8, <1>9, <1>10, <1>12, <1>13, <1>14, <1>15 DEF Left, Rest, It

(* What such a step must be for the shape of the state to last.            *)
Keeps(d, o, p) ==
  /\ p = <<>> \/ Fits(p, Tail(todo))
  /\ \A s \in ToSet(p) : s.do # "add"
  /\ o.up => d # None \/ It.do = "rmdir"
  /\ It.do = "rmdir" => p = <<>>
  /\ It.do = "key" => d # None
  /\ p # <<>> /\ p[1].do \in {"key", "save", "wipekey"} => p[1].i = It.i /\ d # None

LEMMA TypeMoves ==
  ASSUME TypeInv, NEW o, NEW d, NEW p, Moves(o, d, p), Keeps(d, o, p),
         spoilt' \in BOOLEAN, keys' \in 0..MaxKeys, faults' \in Nat
  PROVE  TypeInv'
<1>1. /\ Len(nodes') = Len(nodes) /\ Ids' = Ids /\ nodes' \in Seq(Obj)
      /\ It.i \in Ids /\ nodes'[It.i] = o
      /\ \A i \in Ids : i # It.i => nodes'[i] = nodes[i]
      /\ \A i \in Ids : nodes'[i].name = nodes[i].name
      /\ disk' \in [Names -> Dir \union {None}]
      /\ disk'[Me.name] = d /\ Me.name \in Names
      /\ \A n \in Names : n # Me.name => disk'[n] = disk[n]
      /\ todo' \in Seq(Work(Len(nodes)))
      /\ Left' = ToSet(p) \union Rest
      /\ p # <<>> => todo' # <<>> /\ It' = p[1]
      /\ p = <<>> => todo' = Tail(todo) /\ (todo' # <<>> => It' \in Rest)
  BY Moved
<1>2. /\ open /\ Left = {It} \union Rest /\ Shaped(Tail(todo)) /\ Tail(todo) \in Seq(Work(Len(nodes)))
      /\ \A s \in Rest : s.do \notin Openers /\ (s.do = "save" => It.do = "key")
      /\ It.do = "key" => Head(Tail(todo)) = Step("save", It.i, None)
      /\ It.do = "rmdir" => Tail(todo) # <<>> /\ Head(Tail(todo)) = Step("remove", It.i, None)
  BY Ahead DEF Moves
<1>3. /\ open' = open /\ net' = net /\ synced' = synced /\ cut' = cut /\ todo' = p \o Tail(todo)
      /\ It.do \notin {"unset", "add", "set", "remove"} /\ todo # <<>> /\ o.name = Me.name
      /\ p \in Seq(Work(Len(nodes)))
  BY DEF Moves
<1>4. \A i \in Ids : nodes[i].name \in Names
  BY Counts DEF TypeInv
<1>11. p = <<>> /\ It.do = "key" => It'.i = It.i
  <2>1. p = <<>> /\ It.do = "key" => It' = Step("save", It.i, None)
    BY <1>1, <1>2 DEF It
  <2> QED
    BY <2>1, Steps2
<1>12. It.do = "rmdir" => todo' # <<>> /\ It'.do = "remove" /\ It'.i = It.i
  <2>1. It.do = "rmdir" => todo' # <<>> /\ It' = Step("remove", It.i, None)
    BY <1>1, <1>2 DEF Keeps, It
  <2> QED
    BY <2>1, Steps2
<1>5. Typed'
  BY <1>1, <1>2, <1>3 DEF TypeInv, Typed
<1>6. Shaped(todo)'
  <2>1. CASE p = <<>>
    BY <1>1, <1>2, <2>1
  <2>2. CASE p # <<>>
    BY <1>2, <1>3, <2>2, ShapedPush DEF Keeps
  <2> QED
    BY <2>1, <2>2
<1>7. ASSUME NEW i \in Ids', nodes'[i].up
      PROVE  Exists(i)' \/ (At("remove")' /\ It'.i = i)
  <2>1. CASE i = It.i
    <3>1. Exists(i)' <=> d # None
      BY <1>1, <1>3, <2>1 DEF Exists
    <3>2. CASE It.do = "rmdir"
      BY <1>2, <1>3, <1>12, <2>1, <3>2 DEF At, It
    <3> QED
      BY <1>1, <1>7, <2>1, <3>1, <3>2 DEF Keeps
  <2>2. CASE i # It.i
    <3>1. i \in Ids /\ nodes'[i] = nodes[i] /\ Exists(i)
      BY <1>1, <1>3, <1>7, <2>2 DEF TypeInv, HasHome, At, It
    <3>2. nodes[i].name # Me.name
      BY <1>1, <1>2, <2>2, <3>1, Distinct DEF Me
    <3> QED
      BY <1>1, <1>4, <3>1, <3>2 DEF Exists
  <2> QED
    BY <2>1, <2>2
<1>8. ASSUME At("key")' \/ At("save")' \/ At("wipekey")'
      PROVE  Exists(It.i)'
  <2>1. todo' # <<>> /\ It'.do \in {"key", "save", "wipekey"}
    BY <1>8 DEF At, It
  <2>2. It'.i = It.i /\ d # None
    <3>1. CASE p = <<>>
      <4>1. It.do = "key"
        BY <1>1, <1>2, <2>1, <3>1 DEF Openers
      <4> QED
        BY <1>11, <3>1, <4>1 DEF Keeps
    <3>2. CASE p # <<>>
      BY <1>1, <2>1, <3>2 DEF Keeps
    <3> QED
      BY <3>1, <3>2
  <2> QED
    BY <1>1, <1>3, <2>2 DEF Exists, Me
<1>9. HasHome'
  BY <1>7, <1>8 DEF HasHome
<1>10. Listed'
  <2>1. Adding' <=> Adding
    BY <1>1, <1>2, <1>3 DEF Adding, Keeps
  <2>2. \A s \in Left' : s.do = "add" => s \in Left
    BY <1>1, <1>2 DEF Keeps
  <2>3. Listed
    BY <1>2 DEF TypeInv
  <2>4. PICK m \in Nat : m = Len(net.names)
    BY LenProperties DEF TypeInv, Typed
  <2>5. PICK n \in Nat : n = Len(nodes)
    BY LenProperties DEF TypeInv, Typed
  <2>6. Ids = 1..n
    BY <2>5, Counts DEF TypeInv
  <2>7. /\ \A i \in 1..m : nodes[i].name = net.names[i]
        /\ IF Adding THEN n = m + 1 /\ \A i \in 1..m : net.names[i] # nodes[n].name
           ELSE n = m
        /\ \A s \in Left : s.do = "add" => s.i = n
    BY <2>3, <2>4, <2>5 DEF Listed
  <2>8. \A i \in 1..m : i \in Ids
    BY <2>6, <2>7
  <2>9. Adding => n \in Ids
    BY <2>6, <2>7
  <2>10. /\ \A i \in 1..m : nodes'[i].name = net.names[i]
         /\ IF Adding' THEN n = m + 1 /\ \A i \in 1..m : net.names[i] # nodes'[n].name
            ELSE n = m
         /\ \A s \in Left' : s.do = "add" => s.i = n
    BY <1>1, <2>1, <2>2, <2>7, <2>8, <2>9
  <2> QED
    BY <1>1, <1>3, <2>4, <2>5, <2>10 DEF Listed
<1> QED
  BY <1>3, <1>5, <1>6, <1>9, <1>10 DEF TypeInv

-----------------------------------------------------------------------------
(* The steps                                                               *)

LEMMA Resolved ==
  ASSUME TypeInv
  PROVE  /\ \A n : \/ Resolve(n) = 0 /\ \A i \in Ids : nodes[i].name # n
                   \/ Resolve(n) \in Ids /\ nodes[Resolve(n)].name = n
         /\ \A i \in Ids : Resolve(nodes[i].name) = i
         /\ Contact # 0 => Contact \in Ids /\ nodes[Contact].name = net.fc /\ net.fc # None
         /\ 0 \notin Ids
<1>1. PICK m \in Nat : Ids = 1..m
  BY Counts DEF TypeInv
<1>2. CASE ~open
  <2>1. Ids = {}
    BY <1>2 DEF TypeInv, Typed, Ids
  <2> QED
    BY <2>1 DEF Resolve, Contact
<1>3. CASE open
  <2>1. ASSUME NEW i \in Ids PROVE Resolve(nodes[i].name) = i
    <3>1. \A j \in 1..(i - 1) : j \in Ids /\ j # i
      BY <1>1
    <3>2. \A j \in 1..(i - 1) : nodes[j].name # nodes[i].name
      BY <1>3, <3>1, Distinct
    <3>3. \A k \in Ids : nodes[k].name = nodes[i].name => k = i
      BY <1>3, Distinct
    <3> QED
      BY <3>2, <3>3 DEF Resolve
  <2>2. ASSUME NEW n
        PROVE  \/ Resolve(n) = 0 /\ \A i \in Ids : nodes[i].name # n
               \/ Resolve(n) \in Ids /\ nodes[Resolve(n)].name = n
    <3>1. CASE \E i \in Ids : nodes[i].name = n
      BY <2>1, <3>1
    <3>2. CASE ~\E i \in Ids : nodes[i].name = n
      BY <3>2 DEF Resolve
    <3> QED
      BY <3>1, <3>2
  <2>3. 0 \notin Ids
    BY <1>1
  <2> QED
    BY <2>1, <2>2, <2>3 DEF Contact
<1> QED
  BY <1>2, <1>3

LEMMA Parts ==
  ASSUME NEW o \in Obj, NEW k \in Key, NEW l \in Key
  PROVE  /\ {o.rid, o.fc, o.key} \subseteq Key /\ o.up \in BOOLEAN /\ o.name \in Names
         /\ Config(o) \in Cfg /\ Config(o).rid = o.rid /\ Config(o).fc = o.fc
         /\ \A b \in BOOLEAN : [o EXCEPT !.run = b] \in Obj /\ [o EXCEPT !.up = b] \in Obj
         /\ [o EXCEPT !.fc = k] \in Obj
         /\ [o EXCEPT !.key = k, !.rid = l] \in Obj
         /\ \A f \in Key, b \in BOOLEAN : [o EXCEPT !.rid = l, !.fc = f, !.key = k, !.up = b] \in Obj
BY DEF Obj, Config, Cfg

LEMMA DirParts ==
  ASSUME NEW d \in Dir
  PROVE  /\ d.cfg \in Cfg \union {None, Torn} /\ d.key \in Key \union {Torn}
         /\ \A c \in Cfg \union {None, Torn} : [d EXCEPT !.cfg = c] \in Dir
         /\ \A k \in Key \union {Torn} : [d EXCEPT !.key = k] \in Dir
         /\ d # None
BY LocalNetworkAssumption DEF Dir

LEMMA Blank ==
  ASSUME NEW n \in Names
  PROVE  /\ Node(n) \in Obj /\ Node(n).name = n /\ ~Node(n).up /\ Empty \in Dir /\ Empty # None
         /\ Config(Node(n)) \in Cfg /\ Config(Node(n)).rid = None /\ Config(Node(n)).fc = None
         /\ None \in Key /\ Empty.key = None /\ Empty.cfg = None /\ Node(n).fc = None
BY LocalNetworkAssumption DEF Node, Obj, Empty, Dir, Config, Cfg, Key

(* What a node reads from its directory d.                                 *)
Loaded(d) ==
  LET c == IF d.cfg = None THEN Config(Node(Me.name)) ELSE d.cfg
  IN  [Me EXCEPT !.rid = c.rid, !.fc = c.fc, !.key = d.key, !.up = d.key # None]

Gets(f) ==
  \/ It.do = "apply" /\ nodes[It.x].up /\ f = nodes[It.x].rid
  \/ It.do = "clear" /\ It.x.up /\ f = IF Me.fc = It.x.rid THEN None ELSE Me.fc

Sends ==
  (IF Exists(It.i) THEN <<>> ELSE Create(It.i))
    \o (IF Contact \in {0, It.i} THEN <<>> ELSE <<Step("apply", It.i, Contact)>>)

(* What each of these steps puts: the node, its directory, what comes next.*)
Turn(o, d, p) ==
  LET D == disk[Me.name] IN
  \/ It.do = "start" /\ Me.up /\ D \in Dir /\ o = [Me EXCEPT !.run = TRUE] /\ p = <<>>
       /\ d = IF Me.run THEN D ELSE [D EXCEPT !.cfg = Config(Me)]
  \/ It.do = "stop" /\ Me.up /\ o = [Me EXCEPT !.run = FALSE] /\ d = D /\ p = <<>>
  \/ It.do \in {"load", "wipeall"} /\ D = None /\ o = Me /\ d = D /\ p = <<>>
  \/ It.do = "mkdir" /\ o = Me /\ d = Empty /\ p = <<>>
  \/ It.do = "load" /\ D \in Dir /\ (Me.up \/ Torn \in {D.cfg, D.key}) /\ o = Me /\ d = D /\ p = <<>>
  \/ It.do = "load" /\ D \in Dir /\ ~Me.up /\ D.cfg # Torn /\ D.key # Torn /\ o = Loaded(D) /\ d = D
       /\ p = IF D.key # None THEN <<>> ELSE Pair("key", "save", It.i)
  \/ It.do = "key" /\ D \in Dir /\ keys < MaxKeys /\ o = [Me EXCEPT !.key = keys + 1, !.rid = keys + 1]
       /\ d = [D EXCEPT !.key = keys + 1] /\ p = <<>>
  \/ It.do = "save" /\ D \in Dir /\ o = [Me EXCEPT !.up = TRUE] /\ d = [D EXCEPT !.cfg = Config(Me)] /\ p = <<>>
  \/ \E f \in Key : Gets(f) /\ Me.up /\ D \in Dir /\ o = [Me EXCEPT !.fc = f]
                      /\ d = [D EXCEPT !.cfg = Config([Me EXCEPT !.fc = f])] /\ p = <<>>
  \/ It.do = "rmdir" /\ o = Me /\ d = None /\ p = <<>>
  \/ It.do = "visit" /\ o = Me /\ d = D /\ p = Sends
  \/ It.do = "wipekey" /\ D \in Dir /\ o = Me /\ d = [D EXCEPT !.key = None] /\ p = <<>>
  \/ It.do \in {"wipe", "wipeall"} /\ Me.up /\ D \in Dir /\ o = Me /\ d = [D EXCEPT !.cfg = None]
       /\ p = One("wipekey", It.i) /\ spoilt'

Done(o, d, p) ==
  /\ Moves(o, d, p) /\ Turn(o, d, p)
  /\ spoilt' \in BOOLEAN /\ (~spoilt' => ~spoilt)
  /\ keys' \in 0..MaxKeys /\ faults' = faults

Ends == Dies /\ UNCHANGED <<net, disk, cut, keys>>

(* The state before: what the steps below have in common.                  *)
LEMMA Here ==
  ASSUME TypeInv, todo # <<>>, It.do \notin {"unset", "remove"}
  PROVE  /\ open /\ It.i \in Ids /\ Me \in Obj /\ Me.name \in Names /\ Tail(todo) \in Seq(Work(Len(nodes)))
         /\ nodes = [nodes EXCEPT ![It.i] = Me]
         /\ disk = [disk EXCEPT ![Me.name] = disk[Me.name]]
         /\ <<>> \o Tail(todo) = Tail(todo) /\ <<>> \in Seq(Work(Len(nodes)))
         /\ disk[Me.name] \in Dir \union {None}
         /\ Me.up \/ It.do \in {"key", "save", "wipekey"} => disk[Me.name] \in Dir
         /\ Exists(It.i) <=> disk[Me.name] # None
         /\ keys \in 0..MaxKeys /\ spoilt \in BOOLEAN /\ Len(nodes) \in Nat /\ Ids = 1..Len(nodes)
<1>1. /\ open /\ It.i \in Ids /\ Me \in Obj /\ Me.name \in Names /\ Tail(todo) \in Seq(Work(Len(nodes)))
      /\ Typed /\ HasHome
  BY Ahead DEF TypeInv
<1>2. Len(nodes) \in Nat /\ Ids = 1..Len(nodes)
  BY <1>1, Counts
<1>3. nodes = [nodes EXCEPT ![It.i] = Me]
  BY <1>1 DEF Me, Typed
<1>4. disk \in [Names -> Dir \union {None}] /\ keys \in 0..MaxKeys /\ spoilt \in BOOLEAN
  BY <1>1 DEF Typed
<1>5. disk = [disk EXCEPT ![Me.name] = disk[Me.name]] /\ disk[Me.name] \in Dir \union {None}
  BY <1>1, <1>4
<1>6. <<>> \o Tail(todo) = Tail(todo)
  BY <1>1, ConcatEmptySeq
<1>7. Exists(It.i) <=> disk[Me.name] # None
  BY DEF Exists, Me
<1>8. Me.up => Exists(It.i)
  BY <1>1 DEF HasHome, At, It, Me
<1>9. It.do \in {"key", "save", "wipekey"} => Exists(It.i)
  BY <1>1 DEF HasHome, At, It
<1> QED
  BY <1>1, <1>2, <1>3, <1>4, <1>5, <1>6, <1>7, <1>8, <1>9

LEMMA StartTurn ==
  ASSUME TypeInv, StartNode
  PROVE  Ends \/ \E o, d, p : Done(o, d, p)
<1>1. todo # <<>> /\ It.do = "start"
  BY DEF StartNode, At, It
<1>2. CASE ~Me.up
  BY <1>2 DEF StartNode, Ends
<1>3. CASE Me.up
  <2> DEFINE o == [Me EXCEPT !.run = TRUE]
             d == IF Me.run THEN disk[Me.name] ELSE [disk[Me.name] EXCEPT !.cfg = Config(Me)]
  <2>1. d \in Dir \union {None} /\ disk[Me.name] \in Dir
    BY <1>1, <1>3, Here, Parts, DirParts, Blank
  <2>2. o \in Obj /\ o.name = Me.name
    <3>1. Me \in Obj
      BY <1>1, Here
    <3> QED
      BY <3>1 DEF Obj
  <2>3. disk' = [disk EXCEPT ![Me.name] = d]
    BY <1>1, <1>3, Here DEF StartNode, Saved
  <2>4. Moves(o, d, <<>>)
    BY <1>1, <1>3, <2>1, <2>2, <2>3, Here DEF Moves, StartNode, Put, Then
  <2>5. Turn(o, d, <<>>)
    BY <1>1, <1>3, <2>1 DEF Turn
  <2> QED
    BY <1>1, <1>3, <2>4, <2>5, Here DEF Done, StartNode
<1> QED
  BY <1>2, <1>3

LEMMA StopTurn ==
  ASSUME TypeInv, StopNode
  PROVE  Ends \/ \E o, d, p : Done(o, d, p)
<1>1. todo # <<>> /\ It.do = "stop"
  BY DEF StopNode, At, It
<1>2. CASE ~Me.up
  BY <1>2 DEF StopNode, Ends
<1>3. CASE Me.up
  <2> DEFINE o == [Me EXCEPT !.run = FALSE]
             d == disk[Me.name]
  <2>1. o \in Obj /\ o.name = Me.name
    <3>1. Me \in Obj
      BY <1>1, Here
    <3> QED
      BY <3>1 DEF Obj
  <2>2. Moves(o, d, <<>>)
    BY <1>1, <1>3, <2>1, Here DEF Moves, StopNode, Put, Then
  <2>3. Turn(o, d, <<>>)
    BY <1>1, <1>3 DEF Turn
  <2> QED
    BY <1>1, <1>3, <2>2, <2>3, Here DEF Done, StopNode
<1> QED
  BY <1>2, <1>3

LEMMA PassOverTurn ==
  ASSUME TypeInv, PassOver
  PROVE  \E o, d, p : Done(o, d, p)
<1>1. todo # <<>> /\ It.do \in {"load", "wipeall"} /\ disk[Me.name] = None
  BY DEF PassOver, At, It, Exists, Me
<1> DEFINE d == disk[Me.name]
<1>2. Moves(Me, d, <<>>)
  BY <1>1, Here DEF Moves, PassOver, Then
<1>3. Turn(Me, d, <<>>)
  BY <1>1 DEF Turn
<1> QED
  BY <1>1, <1>2, <1>3, Here DEF Done, PassOver

LEMMA MkDirTurn ==
  ASSUME TypeInv, MkDir
  PROVE  \E o, d, p : Done(o, d, p)
<1>1. todo # <<>> /\ It.do = "mkdir"
  BY DEF MkDir, At, It
<1>2. Empty \in Dir
  BY <1>1, Here, Blank
<1>3. Moves(Me, Empty, <<>>)
  BY <1>1, <1>2, Here DEF Moves, MkDir, Then
<1>4. Turn(Me, Empty, <<>>)
  BY <1>1 DEF Turn
<1> QED
  BY <1>1, <1>3, <1>4, Here DEF Done, MkDir

LEMMA LoadTurn ==
  ASSUME TypeInv, Load
  PROVE  \E o, d, p : Done(o, d, p)
<1> DEFINE D == disk[Me.name]
<1>1. todo # <<>> /\ It.do = "load" /\ D # None
  BY DEF Load, At, It, Exists, Me
<1>2. D \in Dir /\ Me \in Obj /\ It.i \in Ids /\ Me.name \in Names
  BY <1>1, Here
<1>3. CASE Me.up \/ Torn \in {D.cfg, D.key}
  <2>1. Moves(Me, D, <<>>)
    BY <1>1, <1>3, Here DEF Moves, Load, Then
  <2>2. Turn(Me, D, <<>>)
    BY <1>1, <1>2, <1>3 DEF Turn
  <2> QED
    BY <1>1, <2>1, <2>2, Here DEF Done, Load
<1>4. CASE ~(Me.up \/ Torn \in {D.cfg, D.key})
  <2> DEFINE p == IF D.key # None THEN <<>> ELSE Pair("key", "save", It.i)
  <2>1. D.cfg \in Cfg \union {None} /\ D.key \in Key /\ D.cfg # Torn /\ D.key # Torn
    BY <1>2, <1>4, DirParts
  <2>2. Loaded(D) \in Obj /\ Loaded(D).name = Me.name
    <3> DEFINE c == IF D.cfg = None THEN Config(Node(Me.name)) ELSE D.cfg
    <3>1. c \in Cfg
      BY <1>2, <2>1, Blank
    <3>2. c.rid \in Key /\ c.fc \in Key
      BY <3>1 DEF Cfg
    <3> HIDE DEF c
    <3>3. [Me EXCEPT !.rid = c.rid, !.fc = c.fc, !.key = D.key, !.up = D.key # None] \in Obj
      BY <1>2, <2>1, <3>2, Parts
    <3>4. [Me EXCEPT !.rid = c.rid, !.fc = c.fc, !.key = D.key, !.up = D.key # None].name = Me.name
      BY <1>2 DEF Obj
    <3> QED
      BY <3>3, <3>4 DEF Loaded, c
  <2>3. Pair("key", "save", It.i) \in Seq(Work(Len(nodes)))
    BY <1>1, Here, Works, Singles DEF Pair, Verbs
  <2>4. nodes' = [nodes EXCEPT ![It.i] = Loaded(D)] /\ todo' = p \o Tail(todo)
    BY <1>1, <1>4 DEF Load, Put, Then, Loaded
  <2>5. p \in Seq(Work(Len(nodes)))
    BY <1>1, <2>3, Here
  <2>6. Moves(Loaded(D), D, p)
    BY <1>1, <2>2, <2>4, <2>5, Here DEF Moves, Load
  <2>7. Turn(Loaded(D), D, p)
    BY <1>1, <1>2, <1>4, <2>1 DEF Turn
  <2> QED
    BY <1>1, <2>6, <2>7, Here DEF Done, Load
<1> QED
  BY <1>3, <1>4

LEMMA NewKeyTurn ==
  ASSUME TypeInv, NewKey
  PROVE  \E o, d, p : Done(o, d, p)
<1> DEFINE D == disk[Me.name]
           o == [Me EXCEPT !.key = keys + 1, !.rid = keys + 1]
           d == [D EXCEPT !.key = keys + 1]
<1>1. todo # <<>> /\ It.do = "key" /\ keys < MaxKeys
  BY DEF NewKey, At, It
<1>2. keys + 1 \in 1..MaxKeys /\ keys + 1 \in 0..MaxKeys /\ keys + 1 \in Key
  BY <1>1, Here, LocalNetworkAssumption DEF Key
<1>3. o \in Obj /\ o.name = Me.name
  BY <1>1, <1>2, Here, Parts DEF Obj
<1>4. D \in Dir /\ d \in Dir
  BY <1>1, <1>2, Here, DirParts
<1>5. Moves(o, d, <<>>)
  BY <1>1, <1>3, <1>4, Here DEF Moves, NewKey, Put, Then
<1>6. Turn(o, d, <<>>)
  BY <1>1, <1>4 DEF Turn
<1> QED
  BY <1>1, <1>2, <1>5, <1>6, Here DEF Done, NewKey

LEMMA SaveTurn ==
  ASSUME TypeInv, Save
  PROVE  \E o, d, p : Done(o, d, p)
<1> DEFINE D == disk[Me.name]
           o == [Me EXCEPT !.up = TRUE]
           d == [D EXCEPT !.cfg = Config(Me)]
<1>1. todo # <<>> /\ It.do = "save"
  BY DEF Save, At, It
<1>2. o \in Obj /\ o.name = Me.name
  <2>1. Me \in Obj
    BY <1>1, Here
  <2> QED
    BY <2>1 DEF Obj
<1>3. D \in Dir /\ d \in Dir
  BY <1>1, Here, Parts, Blank, DirParts
<1>4. Moves(o, d, <<>>)
  BY <1>1, <1>2, <1>3, Here DEF Moves, Save, Saved, Put, Then
<1>5. Turn(o, d, <<>>)
  BY <1>1, <1>3 DEF Turn
<1> QED
  BY <1>1, <1>4, <1>5, Here DEF Done, Save

LEMMA MutateTurn ==
  ASSUME TypeInv, todo # <<>>, It.do \in {"apply", "clear"}, open, NEW f \in Key, Gets(f), Mutate(f)
  PROVE  Ends \/ \E o, d, p : Done(o, d, p)
<1>1. CASE ~Me.up
  BY <1>1 DEF Mutate, Ends
<1>2. CASE Me.up
  <2> DEFINE D == disk[Me.name]
             o == [Me EXCEPT !.fc = f]
             d == [D EXCEPT !.cfg = Config(o)]
  <2>1. o \in Obj /\ o.name = Me.name
    BY Here, Parts DEF Obj
  <2>2. D \in Dir /\ d \in Dir
    BY <1>2, <2>1, Here, Parts, Blank, DirParts
  <2>3. Moves(o, d, <<>>)
    BY <1>2, <2>1, <2>2, Here DEF Moves, Mutate, Saved, Put, Then
  <2>4. Turn(o, d, <<>>)
    BY <1>2, <2>2 DEF Turn
  <2> QED
    BY <1>2, <2>3, <2>4, Here DEF Done, Mutate
<1> QED
  BY <1>1, <1>2

LEMMA ApplyTurn ==
  ASSUME TypeInv, Apply
  PROVE  Ends \/ \E o, d, p : Done(o, d, p)
<1>1. todo # <<>> /\ It.do = "apply" /\ open
  BY DEF Apply, At, It
<1>2. CASE ~nodes[It.x].up
  BY <1>2 DEF Apply, Ends
<1>3. CASE nodes[It.x].up
  <2> DEFINE f == nodes[It.x].rid
  <2>1. nodes[It.x] \in Obj
    BY <1>1, Ahead, Counts DEF TypeInv
  <2>2. f \in Key /\ Gets(f)
    BY <1>1, <1>3, <2>1, Parts, Blank DEF Gets, Obj
  <2>3. Mutate(f)
    BY <1>3 DEF Apply
  <2> QED
    BY <1>1, <2>2, <2>3, MutateTurn
<1> QED
  BY <1>2, <1>3

LEMMA ClearTurn ==
  ASSUME TypeInv, Clear
  PROVE  Ends \/ \E o, d, p : Done(o, d, p)
<1>1. todo # <<>> /\ It.do = "clear" /\ open
  BY DEF Clear, At, It
<1>2. CASE ~It.x.up
  BY <1>2 DEF Clear, Ends
<1>3. CASE It.x.up
  <2> DEFINE f == IF Me.fc = It.x.rid THEN None ELSE Me.fc
  <2>1. Me \in Obj /\ None \in Key
    BY <1>1, Here, Blank
  <2>2. f \in Key /\ Gets(f)
    BY <1>1, <1>3, <2>1 DEF Gets, Obj
  <2>3. Mutate(f)
    BY <1>3 DEF Clear
  <2> QED
    BY <1>1, <2>2, <2>3, MutateTurn
<1> QED
  BY <1>2, <1>3

LEMMA RmDirTurn ==
  ASSUME TypeInv, RmDir
  PROVE  \E o, d, p : Done(o, d, p)
<1>1. todo # <<>> /\ It.do = "rmdir"
  BY DEF RmDir, At, It
<1>2. Moves(Me, None, <<>>)
  BY <1>1, Here DEF Moves, RmDir, Then
<1>3. Turn(Me, None, <<>>)
  BY <1>1 DEF Turn
<1> QED
  BY <1>1, <1>2, <1>3, Here DEF Done, RmDir

LEMMA VisitTurn ==
  ASSUME TypeInv, Visit
  PROVE  \E o, d, p : Done(o, d, p)
<1> DEFINE d == disk[Me.name]
<1>1. todo # <<>> /\ It.do = "visit"
  BY DEF Visit, At, It
<1>2. Sends \in Seq(Work(Len(nodes)))
  <2> DEFINE a == IF Exists(It.i) THEN <<>> ELSE Create(It.i)
             b == IF Contact \in {0, It.i} THEN <<>> ELSE <<Step("apply", It.i, Contact)>>
             W == Work(Len(nodes))
  <2>1. Create(It.i) \in Seq(W)
    BY <1>1, Here, Works, Singles DEF Create, Pair, Verbs
  <2>2. a \in Seq(W)
    BY <1>1, <2>1, Here
  <2>3. Contact # 0 => Step("apply", It.i, Contact) \in W
    BY <1>1, Here, Resolved, Works
  <2>4. b \in Seq(W)
    BY <1>1, <2>3, Here, Singles
  <2> HIDE DEF a, b, W
  <2>5. a \o b \in Seq(W)
    BY <2>2, <2>4, Joined
  <2> QED
    BY <2>5 DEF Sends, a, b, W
<1>3. todo' = Sends \o Tail(todo)
  BY DEF Visit, Then, Sends
<1>4. Moves(Me, d, Sends)
  BY <1>1, <1>2, <1>3, Here DEF Moves, Visit
<1>5. Turn(Me, d, Sends)
  BY <1>1 DEF Turn
<1> QED
  BY <1>1, <1>4, <1>5, Here DEF Done, Visit

LEMMA WipeKeyTurn ==
  ASSUME TypeInv, WipeKey
  PROVE  \E o, d, p : Done(o, d, p)
<1> DEFINE D == disk[Me.name]
           d == [D EXCEPT !.key = None]
<1>1. todo # <<>> /\ It.do = "wipekey"
  BY DEF WipeKey, At, It
<1>2. D \in Dir /\ d \in Dir
  BY <1>1, Here, Blank, DirParts
<1>3. Moves(Me, d, <<>>)
  BY <1>1, <1>2, Here DEF Moves, WipeKey, Then
<1>4. Turn(Me, d, <<>>)
  BY <1>1, <1>2 DEF Turn
<1> QED
  BY <1>1, <1>3, <1>4, Here DEF Done, WipeKey

LEMMA WipeFileTurn ==
  ASSUME TypeInv, WipeFile
  PROVE  Ends \/ \E o, d, p : Done(o, d, p)
<1>1. todo # <<>> /\ It.do \in {"wipe", "wipeall"}
  BY DEF WipeFile, At, It
<1>2. CASE ~Me.up
  BY <1>2 DEF WipeFile, Ends
<1>3. CASE Me.up
  <2> DEFINE D == disk[Me.name]
             d == [D EXCEPT !.cfg = None]
             p == One("wipekey", It.i)
  <2>1. D \in Dir /\ d \in Dir
    BY <1>1, <1>3, Here, DirParts
  <2>2. p \in Seq(Work(Len(nodes)))
    BY <1>1, Here, Works, Singles DEF One, Verbs
  <2>3. Moves(Me, d, p)
    BY <1>1, <1>3, <2>1, <2>2, Here DEF Moves, WipeFile, Then
  <2>4. Turn(Me, d, p)
    BY <1>1, <1>3, <2>1 DEF Turn, WipeFile
  <2> QED
    BY <1>1, <1>3, <2>3, <2>4, Here DEF Done, WipeFile
<1> QED
  BY <1>2, <1>3

LEMMA PairIs ==
  ASSUME NEW do, NEW next, NEW i
  PROVE  /\ ToSet(Pair(do, next, i)) = {Step(do, i, None), Step(next, i, None)}
         /\ Pair(do, next, i)[1] = Step(do, i, None) /\ Pair(do, next, i) # <<>>
BY Singles DEF Pair

LEMMA OneIs ==
  ASSUME NEW do, NEW i
  PROVE  /\ ToSet(One(do, i)) = {Step(do, i, None)}
         /\ One(do, i)[1] = Step(do, i, None) /\ One(do, i) # <<>>
BY Singles DEF One

(* What a visit leads to.                                                  *)
LEMMA SendsIs ==
  ASSUME TypeInv, todo # <<>>, It.do = "visit"
  PROVE  /\ Shaped(Sends)
         /\ ToSet(Sends) = (IF Exists(It.i) THEN {} ELSE {Step("mkdir", It.i, None), Step("load", It.i, None)})
                             \union (IF Contact \in {0, It.i} THEN {} ELSE {Step("apply", It.i, Contact)})
         /\ Sends # <<>> => Sends[1].do = IF Exists(It.i) THEN "apply" ELSE "mkdir"
<1> DEFINE W == Work(Len(nodes))
           a == IF Exists(It.i) THEN <<>> ELSE Create(It.i)
           b == IF Contact \in {0, It.i} THEN <<>> ELSE <<Step("apply", It.i, Contact)>>
           A == IF Exists(It.i) THEN {} ELSE {Step("mkdir", It.i, None), Step("load", It.i, None)}
           B == IF Contact \in {0, It.i} THEN {} ELSE {Step("apply", It.i, Contact)}
<1>1. Create(It.i) \in Seq(W) /\ <<>> \in Seq(W)
  BY Here, Works, Singles DEF Create, Pair, Verbs
<1>2. a \in Seq(W) /\ ToSet(a) = A /\ Shaped(a) /\ (a # <<>> => a[1].do = "mkdir" /\ ~Exists(It.i))
  <2>1. CASE Exists(It.i)
    BY <1>1, <2>1, Singles, ShapedOne
  <2>2. CASE ~Exists(It.i)
    BY <1>1, <2>2, PairIs, ShapedPair, Steps2 DEF Create
  <2> QED
    BY <2>1, <2>2
<1>3. b \in Seq(W) /\ ToSet(b) = B /\ Shaped(b) /\ (b # <<>> => b[1].do = "apply")
  <2>1. CASE Contact \in {0, It.i}
    BY <1>1, <2>1, Singles, ShapedOne
  <2>2. CASE Contact \notin {0, It.i}
    <3>1. Step("apply", It.i, Contact) \in W
      BY <2>2, Here, Resolved, Works
    <3>2. Step("apply", It.i, Contact).do = "apply" /\ <<Step("apply", It.i, Contact)>>[1] = Step("apply", It.i, Contact)
      BY Steps2
    <3> QED
      BY <2>2, <3>1, <3>2, Singles, ShapedOne
  <2> QED
    BY <2>1, <2>2
<1>4. \A s \in A : s.do \notin Closers
  BY Steps2 DEF Closers
<1>5. \A s \in B : s.do \notin Openers \union {"save", "remove"}
  BY Steps2 DEF Openers
<1>6. Sends = a \o b /\ (a = <<>> <=> Exists(It.i))
  BY PairIs DEF Sends, Create
<1> HIDE DEF a, b, A, B, W
<1>7. ToSet(a \o b) = A \union B
  BY <1>2, <1>3, Joined
<1>8. Shaped(a \o b) /\ (a \o b # <<>> => (a \o b)[1].do = IF Exists(It.i) THEN "apply" ELSE "mkdir")
  <2>1. CASE a = <<>>
    <3>1. a \o b = b
      BY <1>3, <2>1, ConcatEmptySeq
    <3> QED
      BY <1>3, <1>6, <2>1, <3>1
  <2>2. CASE a # <<>>
    <3>1. Fits(a, b)
      BY <1>2, <1>3, <1>4, <1>5 DEF Fits
    <3>2. Shaped(a \o b)
      BY <1>2, <1>3, <2>2, <3>1, ShapedPush
    <3>3. 1 \in 1..Len(a) /\ (a \o b)[1] = a[1]
      BY <1>2, <1>3, <2>2, Joined, Elements
    <3> QED
      BY <1>2, <1>6, <2>2, <3>2, <3>3
  <2> QED
    BY <2>1, <2>2
<1> QED
  BY <1>6, <1>7, <1>8 DEF A, B

LEMMA DoneKeeps ==
  ASSUME TypeInv, NEW o, NEW d, NEW p, Done(o, d, p)
  PROVE  Keeps(d, o, p)
<1> DEFINE D == disk[Me.name]
<1>1. todo # <<>> /\ It.do \notin {"unset", "add", "set", "remove"}
  BY DEF Done, Moves
<1>2. /\ Me \in Obj /\ (Me.up => D \in Dir) /\ Shaped(Tail(todo))
      /\ Exists(It.i) <=> D # None
  BY <1>1, Here, Ahead
<1>3. It.do \notin {"key", "rmdir"} => \A s \in Rest : s.do \notin Openers \union {"save", "remove"}
  BY <1>1, Ahead
<1>4. \A x \in Dir : /\ x # None
                     /\ \A c \in Cfg \union {None, Torn} : [x EXCEPT !.cfg = c] # None
                     /\ \A k \in Key \union {Torn} : [x EXCEPT !.key = k] # None
  BY DirParts
<1>5. \A s \in ToSet(<<>>) : FALSE
  BY Singles
<1>6. Turn(o, d, p)
  BY DEF Done
<1>7. CASE It.do \notin {"load", "visit", "wipe", "wipeall"}
  <2>1. p = <<>>
    BY <1>6, <1>7 DEF Turn
  <2>2. o.up => d # None \/ It.do = "rmdir"
    <3>4. \A x \in Obj : Config(x) \in Cfg
      BY DEF Obj, Config, Cfg
    <3>1. CASE It.do \in {"start", "stop", "mkdir", "rmdir", "wipekey"}
      <4>1. Empty # None /\ None \in Key /\ Config(Me) \in Cfg
        BY <1>1, <1>2, <3>4, Here, Blank
      <4>2. [Me EXCEPT !.run = FALSE].up = Me.up
        BY <1>2 DEF Obj
      <4> QED
        BY <1>2, <1>4, <1>6, <3>1, <4>1, <4>2 DEF Turn, Gets
    <3>2. CASE It.do \in {"save", "apply", "clear"}
      <4>1. Config(Me) \in Cfg /\ \A f \in Key : Config([Me EXCEPT !.fc = f]) \in Cfg
        <5>1. \A f \in Key : [Me EXCEPT !.fc = f] \in Obj
          BY <1>2 DEF Obj
        <5> QED
          BY <1>2, <3>4, <5>1
      <4> QED
        BY <1>4, <1>6, <3>2, <4>1 DEF Turn
    <3>3. CASE It.do = "key"
      <4>1. keys < MaxKeys => keys + 1 \in Key
        BY <1>1, Here, LocalNetworkAssumption DEF Key
      <4> QED
        BY <1>4, <1>6, <3>3, <4>1 DEF Turn, Gets
    <3> QED
      BY <1>1, <1>7, <3>1, <3>2, <3>3, Ahead DEF Verbs
  <2>3. It.do = "key" => d # None
    <3>1. keys < MaxKeys => keys + 1 \in Key
      BY <1>1, Here, LocalNetworkAssumption DEF Key
    <3> QED
      BY <1>4, <1>6, <3>1 DEF Turn, Gets
  <2> QED
    BY <1>5, <2>1, <2>2, <2>3 DEF Keeps
<1>8. CASE It.do = "load"
  <2>1. CASE o = Me /\ p = <<>> /\ d = D
    BY <1>2, <1>4, <1>5, <1>8, <2>1 DEF Keeps
  <2>2. CASE D \in Dir /\ d = D /\ p = <<>>
    BY <1>4, <1>5, <1>8, <2>2 DEF Keeps
  <2>3. CASE D \in Dir /\ d = D /\ p = Pair("key", "save", It.i)
    <3>1. /\ ToSet(p) = {Step("key", It.i, None), Step("save", It.i, None)}
          /\ p[1].i = It.i /\ Shaped(p)
      BY <2>3, PairIs, ShapedPair, Steps2
    <3>2. \A s \in ToSet(p) : s.do \notin Closers
      BY <3>1, Steps2 DEF Closers
    <3>3. Fits(p, Tail(todo))
      BY <1>2, <1>3, <1>8, <3>1, <3>2 DEF Fits, Rest
    <3> QED
      BY <1>4, <1>8, <2>3, <3>1, <3>2, <3>3 DEF Keeps, Closers
  <2> QED
    BY <1>6, <1>8, <2>1, <2>2, <2>3 DEF Turn, Gets
<1>9. CASE It.do = "visit"
  <2>1. o = Me /\ d = D /\ p = Sends
    BY <1>6, <1>9 DEF Turn, Gets
  <2>2. \A s \in ToSet(p) : s.do \in {"mkdir", "load", "apply"}
    BY <1>1, <1>9, <2>1, SendsIs, Steps2
  <2>3. Fits(p, Tail(todo))
    BY <1>1, <1>2, <1>3, <1>9, <2>1, <2>2, SendsIs DEF Fits, Rest, Closers
  <2>4. p # <<>> => p[1].do \in {"mkdir", "apply"}
    BY <1>1, <1>9, <2>1, SendsIs
  <2> QED
    BY <1>2, <1>4, <1>9, <2>1, <2>2, <2>3, <2>4 DEF Keeps
<1>10. CASE It.do \in {"wipe", "wipeall"}
  <2>1. CASE o = Me /\ p = <<>> /\ d = D
    BY <1>2, <1>4, <1>5, <1>10, <2>1 DEF Keeps
  <2>2. CASE D \in Dir /\ d = [D EXCEPT !.cfg = None] /\ p = One("wipekey", It.i)
    <3>1. ToSet(p) = {Step("wipekey", It.i, None)} /\ p[1].i = It.i /\ Shaped(p)
      <4>1. Step("wipekey", It.i, None).do = "wipekey" /\ Step("wipekey", It.i, None).i = It.i
        BY Steps2
      <4> QED
        BY <2>2, <4>1, OneIs, ShapedOne DEF One
    <3>2. \A s \in ToSet(p) : s.do = "wipekey"
      BY <3>1, Steps2
    <3>3. Fits(p, Tail(todo))
      BY <1>2, <1>3, <1>10, <3>1, <3>2 DEF Fits, Rest, Closers
    <3> QED
      BY <1>4, <1>10, <2>2, <3>1, <3>2, <3>3 DEF Keeps
  <2> QED
    BY <1>6, <1>10, <2>1, <2>2 DEF Turn, Gets
<1> QED
  BY <1>7, <1>8, <1>9, <1>10

LEMMA TypeTurn ==
  ASSUME TypeInv, NEW o, NEW d, NEW p, Done(o, d, p)
  PROVE  TypeInv'
<1>1. Typed /\ faults' = faults
  BY DEF TypeInv, Done
<1>2. Moves(o, d, p) /\ spoilt' \in BOOLEAN /\ keys' \in 0..MaxKeys /\ faults' \in Nat
  BY <1>1 DEF Done, Typed
<1> QED
  BY <1>2, DoneKeeps, TypeMoves

Moving == \/ StartNode \/ StopNode \/ PassOver \/ MkDir \/ Load \/ NewKey \/ Save \/ Apply \/ Clear
          \/ RmDir \/ Visit \/ WipeKey \/ WipeFile

Fails == Ends /\ ~At("save") /\ ~At("wipekey")

LEMMA MovingCases ==
  ASSUME TypeInv, Moving
  PROVE  Fails \/ \E o, d, p : Done(o, d, p)
<1>1. CASE StartNode \/ StopNode \/ Apply \/ Clear \/ WipeFile
  <2>1. ~At("save") /\ ~At("wipekey")
    BY <1>1 DEF StartNode, StopNode, Apply, Clear, WipeFile, At
  <2> QED
    BY <1>1, <2>1, StartTurn, StopTurn, ApplyTurn, ClearTurn, WipeFileTurn DEF Fails
<1>2. CASE PassOver \/ MkDir \/ Load \/ NewKey \/ Save \/ RmDir \/ Visit \/ WipeKey
  BY <1>2, PassOverTurn, MkDirTurn, LoadTurn, NewKeyTurn, SaveTurn, RmDirTurn, VisitTurn, WipeKeyTurn
<1> QED
  BY <1>1, <1>2 DEF Moving

-----------------------------------------------------------------------------
(* Loops, and the steps of the first contact and of the list               *)

LEMMA EachIs ==
  ASSUME TypeInv, NEW do, NEW x, \A i \in Ids : Step(do, i, x) \in Work(Len(nodes)),
         do \notin Openers \union Closers \union {"save"}
  PROVE  /\ Each(do, x) \in Seq(Work(Len(nodes))) /\ Shaped(Each(do, x)) /\ Len(Each(do, x)) = Len(nodes)
         /\ ToSet(Each(do, x)) = {Step(do, i, x) : i \in Ids}
         /\ \A i \in Ids : Each(do, x)[i] = Step(do, i, x)
<1>1. PICK n \in Nat : n = Len(nodes) /\ Ids = 1..n
  BY Counts DEF TypeInv
<1>2. PICK W : W = Work(Len(nodes)) /\ \A i \in 1..n : Step(do, i, x) \in W
  BY <1>1
<1>3. PICK p : p = [i \in 1..n |-> Step(do, i, x)]
  OBVIOUS
<1>4. Each(do, x) = p
  BY <1>1, <1>3 DEF Each
<1>5. p \in Seq(W)
  BY <1>2, <1>3, IsASeq
<1>6. DOMAIN p = 1..n /\ \A i \in 1..n : p[i] = Step(do, i, x)
  BY <1>3
<1>7. Len(p) = n
  BY <1>5, <1>6, LenProperties
<1>8. ToSet(p) = {Step(do, i, x) : i \in 1..n}
  BY <1>6 DEF ToSet
<1>9. \A s \in ToSet(p) : s.do = do
  BY <1>8, Steps2
<1>10. Shaped(p)
  BY <1>5, <1>9, ShapedLoop
<1> QED
  BY <1>1, <1>2, <1>4, <1>5, <1>6, <1>7, <1>8, <1>10

LEMMA Reversed ==
  ASSUME NEW S, NEW s \in Seq(S)
  PROVE  /\ Reverse(s) \in Seq(S) /\ ToSet(Reverse(s)) \subseteq ToSet(s)
<1>1. PICK n \in Nat : n = Len(s) /\ DOMAIN s = 1..n /\ \A i \in 1..n : s[i] \in S
  BY LenProperties, ElementOfSeq
<1>2. \A i \in 1..n : (n - i) + 1 \in 1..n
  OBVIOUS
<1>3. Reverse(s) = [i \in 1..n |-> s[(n - i) + 1]]
  BY <1>1 DEF Reverse
<1>4. Reverse(s) \in Seq(S)
  BY <1>1, <1>2, <1>3, IsASeq
<1>5. \A i \in 1..n : s[(n - i) + 1] \in ToSet(s)
  BY <1>1, <1>2 DEF ToSet
<1>6. ToSet(Reverse(s)) \subseteq ToSet(s)
  BY <1>3, <1>5 DEF ToSet
<1> QED
  BY <1>4, <1>6

(* A step that puts others in its place, and no more.                      *)
LEMMA TypePuts ==
  ASSUME TypeInv, open, ~At("remove"), UNCHANGED <<open, nodes, disk>>,
         net' \in [fc : Names \union {None}, names : Seq(Names)], net'.names = net.names,
         todo' \in Seq(Work(Len(nodes))), Shaped(todo'),
         \A s : s.do = "add" => (s \in Left' <=> s \in Left),
         todo' # <<>> => It'.do \notin {"key", "save", "wipekey"},
         synced' \in BOOLEAN, spoilt' \in BOOLEAN, cut' \subseteq Names,
         keys' \in 0..MaxKeys, faults' \in Nat
  PROVE  TypeInv'
<1>1. Typed'
  BY DEF TypeInv, Typed
<1>2. Ids' = Ids /\ \A i \in Ids : Exists(i)' <=> Exists(i)
  BY DEF Ids, Exists
<1>3. \A i \in Ids : nodes[i].up => Exists(i)
  BY DEF TypeInv, HasHome
<1>4. ~(At("key") \/ At("save") \/ At("wipekey"))'
  BY DEF At, It
<1>5. HasHome'
  BY <1>2, <1>3, <1>4 DEF HasHome
<1>6. Adding' <=> Adding
  BY DEF Adding
<1>7. Listed'
  BY <1>6 DEF TypeInv, Listed
<1> QED
  BY <1>1, <1>5, <1>7 DEF TypeInv

(* The end of the shell.                                                   *)
LEMMA TypeOver ==
  ASSUME TypeInv, open' = FALSE, nodes' = <<>>, todo' = <<>>, net' = net,
         disk' \in [Names -> Dir \union {None}],
         synced' \in BOOLEAN, spoilt' \in BOOLEAN, cut' \subseteq Names,
         keys' \in 0..MaxKeys, faults' \in Nat
  PROVE  TypeInv'
<1>1. Ids' = {}
  BY DEF Ids
<1>2. Typed'
  <2>1. <<>> \in Seq(Obj) /\ <<>> \in Seq(Work(Len(nodes')))
    BY EmptySeq
  <2>2. nodes' \in Seq(Obj) /\ todo' \in Seq(Work(Len(nodes')))
    BY <2>1
  <2>3. net' \in [fc : Names \union {None}, names : Seq(Names)] /\ open' \in BOOLEAN
    BY DEF TypeInv, Typed
  <2> QED
    BY <2>2, <2>3 DEF Typed
<1>3. HasHome'
  BY <1>1 DEF HasHome, At
<1>4. Shaped(todo)'
  BY ShapedOne
<1> QED
  BY <1>2, <1>3, <1>4 DEF TypeInv

LEMMA TypeEnds ==
  ASSUME TypeInv, Ends
  PROVE  TypeInv'
<1>1. Typed
  BY DEF TypeInv
<1>2. faults \in Nat /\ faults + 1 \in Nat /\ MaxFaults \in Nat
  BY <1>1, LocalNetworkAssumption DEF Typed
<1> QED
  BY <1>1, <1>2, TypeOver DEF Typed, Ends, Dies

LEMMA TypeQuit ==
  ASSUME TypeInv, Quit
  PROVE  TypeInv'
<1>1. Typed
  BY DEF TypeInv
<1> QED
  BY <1>1, TypeOver DEF Typed, Quit, Idle

LEMMA TypeCrash ==
  ASSUME TypeInv, Crash
  PROVE  TypeInv'
<1>1. Typed /\ todo # <<>> /\ open
  BY DEF TypeInv, Crash
<1>2. disk \in [Names -> Dir \union {None}] /\ faults' \in Nat
  BY <1>1 DEF Crash, Dies, Typed
<1>3. It.do \in {"key", "save", "wipekey", "apply", "clear", "start"} => Me.name \in Names
  BY <1>1, Ahead
<1>4. (At("key") \/ At("save") \/ Me.up) /\ It.do \notin {"unset", "remove"} => disk[Me.name] \in Dir
  BY <1>1, Here DEF At, It
<1>5. \A x \in Dir : [x EXCEPT !.key = Torn] \in Dir /\ [x EXCEPT !.cfg = Torn] \in Dir
  BY DirParts
<1>6. disk' \in [Names -> Dir \union {None}]
  <2>1. CASE UNCHANGED disk
    BY <1>2, <2>1
  <2>2. CASE At("key") /\ disk' = [disk EXCEPT ![Me.name].key = Torn]
    <3>1. Me.name \in Names /\ disk[Me.name] \in Dir
      BY <1>3, <1>4, <2>2 DEF At, It
    <3>2. disk' = [disk EXCEPT ![Me.name] = [disk[Me.name] EXCEPT !.key = Torn]]
      BY <2>2
    <3> QED
      BY <1>2, <1>5, <3>1, <3>2
  <2>3. CASE /\ At("save") \/ (At("apply") /\ Me.up) \/ (At("clear") /\ Me.up)
                  \/ (At("start") /\ Me.up /\ ~Me.run)
             /\ disk' = [disk EXCEPT ![Me.name].cfg = Torn]
    <3>1. Me.name \in Names /\ disk[Me.name] \in Dir
      BY <1>3, <1>4, <2>3 DEF At, It
    <3>2. disk' = [disk EXCEPT ![Me.name] = [disk[Me.name] EXCEPT !.cfg = Torn]]
      BY <2>3
    <3> QED
      BY <1>2, <1>5, <3>1, <3>2
  <2> QED
    BY <2>1, <2>2, <2>3 DEF Crash
<1>7. cut' \subseteq Names
  BY <1>1, <1>3 DEF Crash, Typed, At, It
<1> QED
  BY <1>1, <1>2, <1>6, <1>7, TypeOver DEF Crash, Dies, Typed

LEMMA TypeUnset ==
  ASSUME TypeInv, UnsetContact
  PROVE  TypeInv' /\ Left' = {Step("clear", i, It.x) : i \in Ids} \union Rest
<1> DEFINE W == Work(Len(nodes))
           p == Each("clear", It.x)
<1>1. todo # <<>> /\ It.do = "unset" /\ open
  BY DEF UnsetContact, At, It
<1>2. /\ It.x \in Obj /\ Left = {It} \union Rest /\ Shaped(Tail(todo)) /\ Tail(todo) \in Seq(W)
      /\ \A s \in Rest : s.do \notin Openers \union {"save", "remove"}
      /\ Tail(todo) # <<>> => Head(Tail(todo)) \in Rest
  BY <1>1, Ahead
<1>3. \A i \in Ids : Step("clear", i, It.x) \in W
  BY <1>2, Counts, Works DEF TypeInv
<1>4. p \in Seq(W) /\ Shaped(p) /\ ToSet(p) = {Step("clear", i, It.x) : i \in Ids}
  BY <1>3, EachIs DEF Openers, Closers
<1>5. \A s \in ToSet(p) : s.do = "clear"
  BY <1>4, Steps2
<1>6. todo' = p \o Tail(todo)
  BY DEF UnsetContact, Then
<1> HIDE DEF p, W
<1>7. todo' \in Seq(W) /\ Left' = ToSet(p) \union Rest /\ (p # <<>> => todo' # <<>> /\ It' \in ToSet(p))
  <2> DEFINE t == Tail(todo)
  <2>1. t \in Seq(W) /\ ToSet(t) = Rest
    BY <1>2 DEF Rest
  <2> HIDE DEF t
  <2>2. p \o t \in Seq(W) /\ ToSet(p \o t) = ToSet(p) \union ToSet(t) /\ (p # <<>> => p \o t # <<>> /\ Head(p \o t) = p[1])
    BY <1>4, <2>1, Joined
  <2>3. p # <<>> => p[1] \in ToSet(p)
    BY <1>4, Elements
  <2>4. todo' = p \o t
    BY <1>6 DEF t
  <2> QED
    BY <2>1, <2>2, <2>3, <2>4 DEF Left, It
<1>8. p = <<>> => todo' = Tail(todo) /\ (todo' # <<>> => It' \in Rest)
  BY <1>2, <1>6, ConcatEmptySeq DEF It
<1>9. Shaped(todo')
  <2>1. Fits(p, Tail(todo))
    BY <1>2, <1>4, <1>5 DEF Fits, Rest, Closers
  <2> QED
    BY <1>2, <1>4, <1>6, <1>8, <2>1, ShapedPush
<1>10. todo' # <<>> => It'.do \notin {"key", "save", "wipekey"}
  BY <1>2, <1>5, <1>7, <1>8 DEF Openers
<1>11. \A s : s.do = "add" => (s \in Left' <=> s \in Left)
  BY <1>1, <1>2, <1>5, <1>7
<1>12. ~At("remove")
  BY <1>1 DEF At, It
<1>13. Typed /\ net' \in [fc : Names \union {None}, names : Seq(Names)] /\ net'.names = net.names
  BY DEF UnsetContact, TypeInv, Typed
<1>14. TypeInv'
  BY <1>1, <1>7, <1>9, <1>10, <1>11, <1>12, <1>13, TypePuts DEF UnsetContact, Typed, W
<1> QED
  BY <1>4, <1>7, <1>14

LEMMA TypeSet ==
  ASSUME TypeInv, SetContact
  PROVE  /\ TypeInv'
         /\ ToSet(todo') = {Step("apply", i, It.i) : i \in Ids \ {It.i}}
<1> DEFINE W == Work(Len(nodes))
           e == Each("apply", It.i)
<1>1. todo # <<>> /\ It.do = "set" /\ open
  BY DEF SetContact, At, It
<1>2. /\ It.i \in Ids /\ Me.name \in Names /\ Left = {It} \union Rest /\ Rest = {} /\ Tail(todo) = <<>>
  BY <1>1, Ahead DEF Closers
<1>3. PICK n \in Nat : n = Len(nodes) /\ Ids = 1..n
  BY Counts DEF TypeInv
<1>4. \A i \in Ids : Step("apply", i, It.i) \in W
  BY <1>2, <1>3, Works
<1>5. e \in Seq(W) /\ Len(e) = n /\ \A i \in 1..n : e[i] = Step("apply", i, It.i)
  BY <1>3, <1>4, EachIs DEF Openers, Closers
<1>6. todo' = RemoveAt(e, It.i) \o Tail(todo)
  BY DEF SetContact, Then
<1> HIDE DEF e, W
<1> DEFINE r == RemoveAt(e, It.i)
<1>7. /\ r \in Seq(W) /\ Len(r) = n - 1
      /\ \A j \in 1..(n - 1) : r[j] = e[IF j < It.i THEN j ELSE j + 1]
  BY <1>2, <1>3, <1>5, RemoveAtElements
<1> HIDE DEF r
<1>8. todo' = r
  BY <1>2, <1>6, <1>7, ConcatEmptySeq DEF r
<1>9. It.i \in 1..n
  BY <1>2, <1>3
<1>10. ASSUME NEW j \in 1..(n - 1)
       PROVE  r[j] \in {Step("apply", i, It.i) : i \in Ids \ {It.i}}
  <2> DEFINE k == IF j < It.i THEN j ELSE j + 1
  <2>1. k \in 1..n /\ k # It.i
    BY <1>9
  <2>2. r[j] = Step("apply", k, It.i)
    BY <1>5, <1>7, <2>1
  <2> QED
    BY <1>3, <2>1, <2>2
<1>11. ASSUME NEW i \in Ids \ {It.i}
       PROVE  \E j \in 1..(n - 1) : r[j] = Step("apply", i, It.i)
  <2>1. i \in 1..n /\ i # It.i
    BY <1>3
  <2>2. CASE i < It.i
    <3>1. i \in 1..(n - 1)
      BY <1>9, <2>1, <2>2
    <3> QED
      BY <1>5, <1>7, <2>1, <2>2, <3>1
  <2>3. CASE ~(i < It.i)
    <3>1. i - 1 \in 1..(n - 1) /\ ~(i - 1 < It.i) /\ (i - 1) + 1 = i
      BY <1>9, <2>1, <2>3
    <3> QED
      BY <1>5, <1>7, <2>1, <3>1
  <2> QED
    BY <2>2, <2>3
<1>12. DOMAIN r = 1..(n - 1)
  BY <1>7, LenProperties
<1>13. ToSet(r) = {Step("apply", i, It.i) : i \in Ids \ {It.i}}
  BY <1>10, <1>11, <1>12 DEF ToSet
<1>14. \A s \in ToSet(r) : s.do = "apply"
  BY <1>13, Steps2
<1>15. Shaped(todo')
  BY <1>7, <1>8, <1>14, ShapedLoop DEF Openers, Closers
<1>16. todo' # <<>> => It'.do = "apply"
  BY <1>7, <1>8, <1>14, Elements DEF It
<1>17. \A s : s.do = "add" => (s \in Left' <=> s \in Left)
  BY <1>1, <1>2, <1>8, <1>14 DEF Left
<1>18. ~At("remove")
  BY <1>1 DEF At, It
<1>19. Typed /\ net' \in [fc : Names \union {None}, names : Seq(Names)] /\ net'.names = net.names
  BY <1>2 DEF SetContact, TypeInv, Typed
<1>20. todo' \in Seq(Work(Len(nodes)))
  BY <1>7, <1>8 DEF W
<1>21. TypeInv'
  BY <1>1, <1>15, <1>16, <1>17, <1>18, <1>19, <1>20, TypePuts DEF SetContact, Typed
<1> QED
  BY <1>8, <1>13, <1>21

LEMMA TypeAddNode ==
  ASSUME TypeInv, AddNode
  PROVE  /\ TypeInv' /\ It.i = Len(nodes) /\ Me.name \notin ToSet(net.names)
         /\ net' = [net EXCEPT !.names = Append(@, Me.name)]
         /\ todo' = IF Contact = 0 THEN <<>> ELSE <<Step("apply", It.i, Contact)>>
         /\ Left' = IF Contact = 0 THEN {} ELSE {Step("apply", It.i, Contact)}
         /\ net' \in [fc : Names \union {None}, names : Seq(Names)]
<1> DEFINE W == Work(Len(nodes))
<1>1. todo # <<>> /\ It.do = "add" /\ open /\ Adding
  <2>1. todo # <<>> /\ It.do = "add" /\ open
    BY DEF AddNode, At, It
  <2> QED
    BY <2>1, Ahead DEF Adding
<1>2. It.i \in Ids /\ Me.name \in Names /\ Left = {It} \union Rest /\ Rest = {} /\ Tail(todo) = <<>>
  BY <1>1, Ahead DEF Closers
<1>3. PICK n \in Nat : n = Len(nodes) /\ Ids = 1..n
  BY Counts DEF TypeInv
<1>4. PICK m \in Nat : m = Len(net.names) /\ DOMAIN net.names = 1..m
  BY LenProperties DEF TypeInv, Typed
<1>5. /\ It.i = n /\ n = m + 1 /\ \A i \in 1..m : net.names[i] # Me.name
      /\ \A i \in 1..m : nodes[i].name = net.names[i]
      /\ \A i, j \in 1..m : net.names[i] = net.names[j] => i = j
  BY <1>1, <1>2, <1>3, <1>4 DEF TypeInv, Listed, Me
<1>6. Me.name \notin ToSet(net.names)
  BY <1>4, <1>5 DEF ToSet
<1>7. net' = [net EXCEPT !.names = Append(@, Me.name)]
  BY <1>6 DEF AddNode
<1>8. net \in [fc : Names \union {None}, names : Seq(Names)]
  BY DEF TypeInv, Typed
<1> DEFINE q == Append(net.names, Me.name)
<1>9. /\ q \in Seq(Names) /\ Len(q) = m + 1 /\ \A i \in 1..m : q[i] = net.names[i]
      /\ q[m + 1] = Me.name
  BY <1>2, <1>4, <1>8, AppendProperties
<1> HIDE DEF q
<1>10. net' \in [fc : Names \union {None}, names : Seq(Names)] /\ net'.names = q
  BY <1>7, <1>8, <1>9 DEF q
<1>11. todo' = IF Contact = 0 THEN <<>> ELSE <<Step("apply", It.i, Contact)>>
  <2>1. <<>> \o <<>> = <<>> /\ <<Step("apply", It.i, Contact)>> \o <<>> = <<Step("apply", It.i, Contact)>>
    BY Singles, ConcatEmptySeq
  <2> QED
    BY <1>2, <2>1 DEF AddNode, Then
<1>12. Contact # 0 => Step("apply", It.i, Contact) \in W
  BY <1>2, <1>3, Resolved, Works
<1>13. Step("apply", It.i, Contact).do = "apply"
  BY Steps2
<1>14. todo' \in Seq(W) /\ Shaped(todo') /\ Left' = IF Contact = 0 THEN {} ELSE {Step("apply", It.i, Contact)}
  <2>1. <<>> \in Seq(W)
    BY EmptySeq
  <2> QED
    BY <1>11, <1>12, <1>13, <2>1, Singles, ShapedOne DEF Left
<1>15. Typed'
  <2>1. Typed /\ open /\ nodes' = nodes /\ disk' = disk
    BY <1>1 DEF AddNode, TypeInv
  <2>2. todo' \in Seq(Work(Len(nodes')))
    BY <1>14, <2>1
  <2> HIDE DEF W, q
  <2> QED
    BY <1>10, <2>1, <2>2 DEF AddNode, Typed
<1>16. /\ \A i \in 1..(m + 1) : nodes[i].name = q[i]
       /\ \A i, j \in 1..(m + 1) : q[i] = q[j] => i = j
  <2>1. \A i \in 1..(m + 1) : i \in 1..m \/ i = m + 1
    OBVIOUS
  <2>2. nodes[m + 1].name = Me.name
    BY <1>5 DEF Me
  <2>3. \A i \in 1..(m + 1) : nodes[i].name = q[i]
    BY <1>5, <1>9, <2>1, <2>2
  <2> QED
    BY <1>5, <1>9, <2>1, <2>3
<1>17. ~Adding' /\ \A s \in Left' : s.do # "add"
  BY <1>13, <1>14 DEF Adding
<1>18. nodes' = nodes /\ open' = open /\ disk' = disk
  BY DEF AddNode
<1>19. Listed'
  BY <1>3, <1>5, <1>9, <1>10, <1>16, <1>17, <1>18 DEF Listed
<1>20. HasHome'
  <2>1. \A i \in Ids : nodes[i].up => Exists(i)
    BY <1>1 DEF TypeInv, HasHome, At, It
  <2>2. todo' # <<>> => Head(todo') = Step("apply", It.i, Contact)
    BY <1>11
  <2>3. ~(At("key") \/ At("save") \/ At("wipekey"))'
    BY <1>13, <2>2 DEF At
  <2> QED
    BY <1>18, <2>1, <2>3 DEF HasHome, Exists, Ids
<1>21. TypeInv'
  BY <1>9, <1>10, <1>14, <1>15, <1>16, <1>19, <1>20 DEF TypeInv
<1> QED
  BY <1>3, <1>5, <1>6, <1>7, <1>10, <1>11, <1>14, <1>21

LEMMA TypeRemove ==
  ASSUME TypeInv, RemoveNode
  PROVE  /\ TypeInv' /\ It.i \in Ids
         /\ Left' = IF net.fc = Me.name THEN {Step("unset", 0, Me)} ELSE {}
         /\ Len(nodes') = Len(nodes) - 1 /\ nodes' \in Seq(Obj)
         /\ \A j \in Ids' : LET k == IF j < It.i THEN j ELSE j + 1
                            IN  k \in Ids \ {It.i} /\ nodes'[j] = nodes[k]
         /\ ToSet(net'.names) \subseteq ToSet(net.names) \ {Me.name}
         /\ todo' = IF net.fc = Me.name THEN <<Step("unset", 0, Me)>> ELSE <<>>
<1> DEFINE W == Work(Len(nodes'))
<1>1. todo # <<>> /\ It.do = "remove" /\ open
  BY DEF RemoveNode, At, It
<1>2. /\ It.i \in Ids /\ Me.name \in Names /\ Me \in Obj /\ Left = {It} \union Rest /\ Rest = {}
      /\ Tail(todo) = <<>> /\ ~Adding
  <2>1. It.i \in Ids /\ Me.name \in Names /\ Me \in Obj /\ Left = {It} \union Rest /\ Rest = {} /\ Tail(todo) = <<>>
    BY <1>1, Ahead DEF Closers
  <2> QED
    BY <1>1, <2>1 DEF Adding
<1>3. PICK n \in Nat : n = Len(nodes) /\ Ids = 1..n
  BY Counts DEF TypeInv
<1>4. PICK m \in Nat : m = Len(net.names) /\ DOMAIN net.names = 1..m
  BY LenProperties DEF TypeInv, Typed
<1>5. /\ n = m /\ It.i \in 1..n
      /\ \A i \in 1..n : nodes[i].name = net.names[i]
      /\ \A i, j \in 1..n : net.names[i] = net.names[j] => i = j
  BY <1>1, <1>2, <1>3, <1>4 DEF TypeInv, Listed
<1>6. nodes \in Seq(Obj) /\ net \in [fc : Names \union {None}, names : Seq(Names)]
  BY DEF TypeInv, Typed
<1>7. Without(net.names, Me.name) = RemoveAt(net.names, It.i)
  <2>1. net.names[It.i] = Me.name
    BY <1>5 DEF Me
  <2>2. Me.name \in ToSet(net.names)
    BY <1>4, <1>5, <2>1 DEF ToSet
  <2>3. (CHOOSE i \in DOMAIN net.names : net.names[i] = Me.name) = It.i
    BY <1>4, <1>5, <2>1
  <2> QED
    BY <2>2, <2>3 DEF Without
<1>8. nodes' = RemoveAt(nodes, It.i) /\ net' = [net EXCEPT !.names = RemoveAt(net.names, It.i)]
  BY <1>7 DEF RemoveNode
<1>9. /\ nodes' \in Seq(Obj) /\ Len(nodes') = n - 1
      /\ \A j \in 1..(n - 1) : nodes'[j] = nodes[IF j < It.i THEN j ELSE j + 1]
  <2> DEFINE r == RemoveAt(nodes, It.i)
  <2>1. It.i \in 1..n /\ nodes \in Seq(Obj) /\ n = Len(nodes)
    BY <1>3, <1>5, <1>6
  <2>2. r \in Seq(Obj)
    BY <2>1, RemoveAtElements
  <2>3. Len(r) = n - 1
    BY <2>1, RemoveAtElements
  <2>4. ASSUME NEW j \in 1..(n - 1) PROVE r[j] = nodes[IF j < It.i THEN j ELSE j + 1]
    BY <2>1, RemoveAtElements
  <2> HIDE DEF r
  <2>5. nodes' = r
    BY <1>8 DEF r
  <2> QED
    BY <2>2, <2>3, <2>4, <2>5
<1> DEFINE q == RemoveAt(net.names, It.i)
<1>10. /\ q \in Seq(Names) /\ Len(q) = n - 1
       /\ \A j \in 1..(n - 1) : q[j] = net.names[IF j < It.i THEN j ELSE j + 1]
  <2>1. It.i \in 1..n /\ net.names \in Seq(Names) /\ n = Len(net.names)
    BY <1>4, <1>5, <1>6
  <2>2. q \in Seq(Names)
    BY <2>1, RemoveAtElements
  <2>3. Len(q) = n - 1
    BY <2>1, RemoveAtElements
  <2>4. ASSUME NEW j \in 1..(n - 1) PROVE q[j] = net.names[IF j < It.i THEN j ELSE j + 1]
    BY <2>1, RemoveAtElements
  <2> QED
    BY <2>2, <2>3, <2>4
<1> HIDE DEF q
<1>11. net' \in [fc : Names \union {None}, names : Seq(Names)] /\ net'.names = q /\ net'.fc = net.fc
  BY <1>6, <1>8, <1>10 DEF q
<1>12. Ids' = 1..(n - 1) /\ DOMAIN q = 1..(n - 1)
  BY <1>9, <1>10, LenProperties DEF Ids
<1>13. ASSUME NEW j \in 1..(n - 1)
       PROVE  LET k == IF j < It.i THEN j ELSE j + 1
              IN  k \in (1..n) \ {It.i} /\ nodes'[j] = nodes[k] /\ q[j] = net.names[k]
  <2>1. (IF j < It.i THEN j ELSE j + 1) \in (1..n) \ {It.i}
    BY <1>5
  <2> QED
    BY <1>9, <1>10, <2>1
<1>14. todo' = IF net.fc = Me.name THEN <<Step("unset", 0, Me)>> ELSE <<>>
  <2>1. <<>> \o <<>> = <<>> /\ <<Step("unset", 0, Me)>> \o <<>> = <<Step("unset", 0, Me)>>
    BY Singles, ConcatEmptySeq
  <2> QED
    BY <1>2, <2>1 DEF RemoveNode, Then
<1>15. Step("unset", 0, Me).do = "unset" /\ Step("unset", 0, Me) \in W
  BY <1>2, <1>9, LenProperties, Steps2, Unsets
<1>16. todo' \in Seq(W) /\ Shaped(todo') /\ Left' = IF net.fc = Me.name THEN {Step("unset", 0, Me)} ELSE {}
  <2>1. <<>> \in Seq(W)
    BY EmptySeq
  <2> QED
    BY <1>14, <1>15, <2>1, Singles, ShapedOne DEF Left
<1>17. Typed'
  <2>1. Typed /\ open /\ disk' = disk
    BY <1>1 DEF RemoveNode, TypeInv
  <2> HIDE DEF q
  <2> QED
    BY <1>9, <1>11, <1>16, <2>1 DEF RemoveNode, Typed
<1>18. /\ \A j \in 1..(n - 1) : nodes'[j].name = q[j]
       /\ \A i, j \in 1..(n - 1) : q[i] = q[j] => i = j
  <2>1. \A j \in 1..(n - 1) : nodes'[j].name = q[j]
    BY <1>5, <1>13
  <2>2. ASSUME NEW i \in 1..(n - 1), NEW j \in 1..(n - 1), q[i] = q[j] PROVE i = j
    <3>1. (IF i < It.i THEN i ELSE i + 1) = (IF j < It.i THEN j ELSE j + 1)
      BY <1>5, <1>13, <2>2
    <3> QED
      BY <1>5, <3>1
  <2> QED
    BY <2>1, <2>2
<1>19. ~Adding' /\ \A s \in Left' : s.do # "add"
  BY <1>15, <1>16 DEF Adding
<1>20. Listed'
  BY <1>9, <1>10, <1>11, <1>18, <1>19 DEF Listed
<1>21. HasHome'
  <2>1. ASSUME NEW i \in Ids, i # It.i, nodes[i].up PROVE Exists(i)
    BY <1>1, <2>1 DEF TypeInv, HasHome, At, It
  <2>2. ~(At("key") \/ At("save") \/ At("wipekey"))'
    <3>1. todo' # <<>> => Head(todo') = Step("unset", 0, Me)
      BY <1>14
    <3> QED
      BY <1>15, <3>1 DEF At
  <2>3. disk' = disk
    BY DEF RemoveNode
  <2>4. ASSUME NEW j \in Ids', nodes'[j].up PROVE Exists(j)'
    <3>1. PICK k \in (1..n) \ {It.i} : nodes'[j] = nodes[k]
      BY <1>12, <1>13
    <3> QED
      BY <1>3, <2>1, <2>3, <2>4, <3>1 DEF Exists
  <2> QED
    BY <2>2, <2>4 DEF HasHome
<1>22. TypeInv'
  BY <1>10, <1>11, <1>16, <1>17, <1>18, <1>20, <1>21 DEF TypeInv
<1>23. ToSet(q) \subseteq ToSet(net.names) \ {Me.name}
  <2>1. ASSUME NEW j \in 1..(n - 1) PROVE q[j] \in ToSet(net.names) \ {Me.name}
    <3>1. PICK k \in (1..n) \ {It.i} : q[j] = net.names[k]
      BY <1>13
    <3>2. net.names[It.i] = Me.name
      BY <1>5 DEF Me
    <3> QED
      BY <1>4, <1>5, <3>1, <3>2 DEF ToSet
  <2> QED
    BY <1>12, <2>1 DEF ToSet
<1> QED
  BY <1>2, <1>3, <1>9, <1>11, <1>12, <1>13, <1>14, <1>16, <1>22, <1>23

-----------------------------------------------------------------------------
(* The commands                                                            *)

(* What a command may begin with.                                          *)
Orders(steps) ==
  /\ steps \in Seq(Work(Len(nodes))) /\ Shaped(steps)
  /\ \A s \in ToSet(steps) : s.do \notin {"add", "key", "save", "wipekey"}

LEMMA TypeDo ==
  ASSUME TypeInv, Idle, NEW sync \in BOOLEAN, NEW steps, Orders(steps), Do(sync, steps)
  PROVE  TypeInv'
<1>1. open /\ todo = <<>> /\ ~At("remove") /\ Left = {}
  BY Singles DEF Idle, At, Left
<1>2. todo' \in Seq(Work(Len(nodes))) /\ Shaped(todo') /\ \A s \in Left' : s.do \notin {"add", "key", "save", "wipekey"}
  BY DEF Do, Orders, Left
<1>3. todo' # <<>> => It' \in Left'
  BY <1>2, Elements DEF Left, It
<1>4. Typed
  BY DEF TypeInv
<1> QED
  BY <1>1, <1>2, <1>3, <1>4, TypePuts DEF Do, Typed

LEMMA OrderOne ==
  ASSUME TypeInv, NEW i \in Ids, NEW do \in Verbs \ {"mkdir", "key", "rmdir", "add", "save", "wipekey"}
  PROVE  Orders(One(do, i)) /\ ToSet(One(do, i)) = {Step(do, i, None)}
<1>1. Step(do, i, None) \in Work(Len(nodes)) /\ Step(do, i, None).do = do
  BY Counts, Works, Steps2 DEF TypeInv
<1> DEFINE s == Step(do, i, None)
<1> HIDE DEF s
<1>2. Shaped(<<s>>) /\ <<s>> \in Seq(Work(Len(nodes))) /\ ToSet(<<s>>) = {s} /\ s.do = do
  BY <1>1, Singles, ShapedOne DEF s
<1>3. One(do, i) = <<s>>
  BY DEF One, s
<1> QED
  BY <1>2, <1>3 DEF Orders, s

LEMMA OrderPair ==
  ASSUME TypeInv, NEW i \in Ids, NEW do, NEW next,
         <<do, next>> \in {<<"mkdir", "load">>, <<"rmdir", "remove">>}
  PROVE  Orders(Pair(do, next, i)) /\ ToSet(Pair(do, next, i)) = {Step(do, i, None), Step(next, i, None)}
<1>1. do \in Verbs /\ next \in Verbs /\ {do, next} \intersect {"add", "key", "save", "wipekey"} = {}
  BY DEF Verbs
<1>2. Step(do, i, None) \in Work(Len(nodes)) /\ Step(next, i, None) \in Work(Len(nodes))
  BY <1>1, Counts, Works DEF TypeInv
<1>3. Pair(do, next, i) \in Seq(Work(Len(nodes)))
  BY <1>2, Singles DEF Pair
<1>4. \A s \in {Step(do, i, None), Step(next, i, None)} : s.do \notin {"add", "key", "save", "wipekey"}
  BY <1>1, Steps2
<1> QED
  BY <1>3, <1>4, PairIs, ShapedPair DEF Orders

LEMMA OrderEach ==
  ASSUME TypeInv, NEW do \in {"visit", "wipeall", "start", "stop"}
  PROVE  Orders(Each(do, None)) /\ ToSet(Each(do, None)) = {Step(do, i, None) : i \in Ids}
<1>1. do \in Verbs /\ do \notin Openers \union Closers \union {"add", "key", "save", "wipekey"}
  BY DEF Verbs, Openers, Closers
<1>2. \A i \in Ids : Step(do, i, None) \in Work(Len(nodes))
  BY <1>1, Counts, Works DEF TypeInv
<1>3. /\ Each(do, None) \in Seq(Work(Len(nodes))) /\ Shaped(Each(do, None))
      /\ ToSet(Each(do, None)) = {Step(do, i, None) : i \in Ids}
  BY <1>1, <1>2, EachIs
<1>4. \A s \in ToSet(Each(do, None)) : s.do = do
  BY <1>3, Steps2
<1> QED
  BY <1>1, <1>3, <1>4 DEF Orders

LEMMA OrderUnset ==
  ASSUME TypeInv, Contact # 0
  PROVE  /\ Orders(<<Step("unset", 0, nodes[Contact])>>)
         /\ ToSet(<<Step("unset", 0, nodes[Contact])>>) = {Step("unset", 0, nodes[Contact])}
<1>1. Contact \in Ids
  BY Resolved
<1>2. Step("unset", 0, nodes[Contact]) \in Work(Len(nodes)) /\ Step("unset", 0, nodes[Contact]).do = "unset"
  BY <1>1, Counts, Unsets, Steps2 DEF TypeInv
<1> DEFINE s == Step("unset", 0, nodes[Contact])
<1> HIDE DEF s
<1>3. Shaped(<<s>>) /\ <<s>> \in Seq(Work(Len(nodes))) /\ ToSet(<<s>>) = {s} /\ s.do = "unset"
  BY <1>2, Singles, ShapedOne DEF s
<1> QED
  BY <1>3 DEF Orders, s

(* One command after another.                                              *)
LEMMA OrderJoin ==
  ASSUME TypeInv, NEW p, NEW r, Orders(p), Orders(r), p = <<>> \/ Fits(p, r)
  PROVE  Orders(p \o r) /\ ToSet(p \o r) = ToSet(p) \union ToSet(r)
<1> DEFINE W == Work(Len(nodes))
<1>1. p \in Seq(W) /\ r \in Seq(W)
  BY DEF Orders
<1> HIDE DEF W
<1>2. p \o r \in Seq(W) /\ ToSet(p \o r) = ToSet(p) \union ToSet(r)
  BY <1>1, Joined
<1>3. Shaped(p \o r)
  <2>1. CASE p = <<>>
    BY <1>1, <2>1, ConcatEmptySeq DEF Orders
  <2>2. CASE p # <<>>
    BY <1>1, <2>2, ShapedPush
  <2> QED
    BY <2>1, <2>2
<1> QED
  BY <1>2, <1>3 DEF Orders, W

LEMMA NoOrders ==
  ASSUME TypeInv
  PROVE  Orders(<<>>) /\ ToSet(<<>>) = {}
BY Singles, ShapedOne, EmptySeq DEF Orders

(* What set_first_contact and sync are made of.                            *)
Resets(i) ==
  (IF Contact = 0 THEN <<>> ELSE <<Step("unset", 0, nodes[Contact])>>) \o One("set", i)

Visits ==
  (IF Contact # 0 /\ ~Exists(Contact) THEN Create(Contact) ELSE <<>>) \o Each("visit", None)

LEMMA OrderSet ==
  ASSUME TypeInv, NEW i \in Ids
  PROVE  /\ Orders(Resets(i))
         /\ ToSet(Resets(i)) = {Step("set", i, None)}
              \union IF Contact = 0 THEN {} ELSE {Step("unset", 0, nodes[Contact])}
<1> DEFINE p == IF Contact = 0 THEN <<>> ELSE <<Step("unset", 0, nodes[Contact])>>
<1>1. Orders(p) /\ ToSet(p) = IF Contact = 0 THEN {} ELSE {Step("unset", 0, nodes[Contact])}
  BY OrderUnset, NoOrders
<1>2. Orders(One("set", i)) /\ ToSet(One("set", i)) = {Step("set", i, None)}
  BY OrderOne DEF Verbs
<1>3. Fits(p, One("set", i))
  BY <1>1, <1>2, Steps2 DEF Fits, Orders, Openers, Closers
<1> HIDE DEF p
<1> QED
  BY <1>1, <1>2, <1>3, OrderJoin DEF Resets, p

LEMMA OrderSync ==
  ASSUME TypeInv
  PROVE  /\ Orders(Visits)
         /\ ToSet(Visits) = {Step("visit", i, None) : i \in Ids}
              \union IF Contact # 0 /\ ~Exists(Contact)
                     THEN {Step("mkdir", Contact, None), Step("load", Contact, None)} ELSE {}
<1> DEFINE p == IF Contact # 0 /\ ~Exists(Contact) THEN Create(Contact) ELSE <<>>
           r == Each("visit", None)
<1>1. /\ Orders(p)
      /\ ToSet(p) = IF Contact # 0 /\ ~Exists(Contact)
                    THEN {Step("mkdir", Contact, None), Step("load", Contact, None)} ELSE {}
  <2>1. CASE Contact # 0 /\ ~Exists(Contact)
    <3>1. Contact \in Ids
      BY <2>1, Resolved
    <3> QED
      BY <2>1, <3>1, OrderPair DEF Create
  <2>2. CASE ~(Contact # 0 /\ ~Exists(Contact))
    BY <2>2, NoOrders
  <2> QED
    BY <2>1, <2>2
<1>2. Orders(r) /\ ToSet(r) = {Step("visit", i, None) : i \in Ids}
  BY OrderEach
<1>3. Fits(p, r)
  <2>1. \A s \in ToSet(p) : s.do \notin Closers
    BY <1>1, Steps2 DEF Closers
  <2>2. \A s \in ToSet(r) : s.do \notin Openers \union {"save", "remove"}
    BY <1>2, Steps2 DEF Openers
  <2> QED
    BY <1>1, <1>2, <2>1, <2>2 DEF Fits, Orders
<1> HIDE DEF p, r
<1> QED
  BY <1>1, <1>2, <1>3, OrderJoin DEF Visits, p, r

LEMMA OrderStop ==
  ASSUME TypeInv, NEW s \in OneOrAll("stop")
  PROVE  Orders(Reverse(s)) /\ \A t \in ToSet(Reverse(s)) : t.do = "stop"
<1>1. Orders(s) /\ \A t \in ToSet(s) : t.do = "stop"
  <2>1. CASE s = Each("stop", None)
    BY <2>1, OrderEach, Steps2
  <2>2. ASSUME NEW i \in Ids, s = One("stop", i)
        PROVE  Orders(s) /\ \A t \in ToSet(s) : t.do = "stop"
    BY <2>2, OrderOne, Steps2 DEF Verbs
  <2> QED
    BY <2>1, <2>2 DEF OneOrAll
<1> DEFINE W == Work(Len(nodes))
<1>2. s \in Seq(W)
  BY <1>1 DEF Orders
<1> HIDE DEF W
<1>3. Reverse(s) \in Seq(W) /\ ToSet(Reverse(s)) \subseteq ToSet(s)
  BY <1>2, Reversed
<1>4. Shaped(Reverse(s))
  BY <1>1, <1>3, ShapedLoop DEF Openers, Closers
<1> QED
  BY <1>1, <1>3, <1>4 DEF Orders, W

Command == \/ Unset \/ Sync \/ Start \/ Stop \/ WipeConfig
           \/ \E i \in Ids : Rm(i) \/ Set(i) \/ InitNode(i)

Given(steps) ==
  \/ Contact # 0 /\ steps = <<Step("unset", 0, nodes[Contact])>>
  \/ \E i \in Ids : Contact # i /\ nodes[i].up /\ steps = Resets(i)
  \/ \E i \in Ids : ~Exists(i) /\ steps = One("remove", i)
  \/ \E i \in Ids : Exists(i) /\ nodes[i].up /\ steps = Pair("rmdir", "remove", i)
  \/ \E i \in Ids : steps = One("load", i)
  \/ \A s \in ToSet(steps) : s.do \in {"wipe", "wipeall", "start", "stop"}

Ordered(steps) ==
  /\ Idle /\ Orders(steps)
  /\ \/ Do(TRUE, steps) /\ steps = Visits
     \/ Do(FALSE, steps) /\ Given(steps)

LEMMA Commands ==
  ASSUME TypeInv, Command
  PROVE  Idle /\ (Ends \/ \E steps : Ordered(steps))
<1>1. CASE Unset
  <2> DEFINE s == <<Step("unset", 0, nodes[Contact])>>
  <2>1. Idle /\ Contact # 0 /\ Do(FALSE, s)
    BY <1>1 DEF Unset
  <2>2. Orders(s)
    BY <2>1, OrderUnset
  <2>3. Given(s)
    BY <2>1 DEF Given
  <2> HIDE DEF s
  <2> QED
    BY <2>1, <2>2, <2>3 DEF Ordered
<1>2. CASE Sync
  <2>1. Idle /\ Do(TRUE, Visits)
    BY <1>2 DEF Sync, Visits
  <2>2. Orders(Visits)
    BY OrderSync
  <2> QED
    BY <2>1, <2>2 DEF Ordered
<1>3. CASE Start
  <2>1. PICK s \in OneOrAll("start") : Do(FALSE, s)
    BY <1>3 DEF Start
  <2>2. Orders(s) /\ \A t \in ToSet(s) : t.do = "start"
    <3>1. CASE s = Each("start", None)
      BY <3>1, OrderEach, Steps2
    <3>2. ASSUME NEW i \in Ids, s = One("start", i)
          PROVE  Orders(s) /\ \A t \in ToSet(s) : t.do = "start"
      BY <3>2, OrderOne, Steps2 DEF Verbs
    <3> QED
      BY <2>1, <3>1, <3>2 DEF OneOrAll
  <2> QED
    BY <1>3, <2>1, <2>2 DEF Start, Ordered, Given
<1>4. CASE Stop
  <2>1. PICK s \in OneOrAll("stop") : Do(FALSE, Reverse(s))
    BY <1>4 DEF Stop
  <2>2. Orders(Reverse(s)) /\ \A t \in ToSet(Reverse(s)) : t.do = "stop"
    BY <2>1, OrderStop
  <2> QED
    BY <1>4, <2>1, <2>2 DEF Stop, Ordered, Given
<1>5. CASE WipeConfig
  <2>1. PICK s : /\ s = Each("wipeall", None) \/ \E i \in Ids : s = One("wipe", i)
                 /\ Do(FALSE, s)
    BY <1>5 DEF WipeConfig
  <2>2. Orders(s) /\ \A t \in ToSet(s) : t.do \in {"wipe", "wipeall"}
    <3>1. CASE s = Each("wipeall", None)
      BY <3>1, OrderEach, Steps2
    <3>2. ASSUME NEW i \in Ids, s = One("wipe", i)
          PROVE  Orders(s) /\ \A t \in ToSet(s) : t.do \in {"wipe", "wipeall"}
      BY <3>2, OrderOne, Steps2 DEF Verbs
    <3> QED
      BY <2>1, <3>1, <3>2
  <2> QED
    BY <1>5, <2>1, <2>2 DEF WipeConfig, Ordered, Given
<1>6. ASSUME NEW i \in Ids, Rm(i)
      PROVE  Idle /\ (Ends \/ \E steps : Ordered(steps))
  <2>1. Orders(One("remove", i)) /\ Orders(Pair("rmdir", "remove", i))
    BY OrderOne, OrderPair DEF Verbs
  <2> QED
    BY <1>6, <2>1 DEF Rm, With, Ends, Ordered, Given
<1>7. ASSUME NEW i \in Ids, Set(i)
      PROVE  Idle /\ (Ends \/ \E steps : Ordered(steps))
  <2>1. Orders(Resets(i))
    BY OrderSet
  <2>2. CASE nodes[i].up
    <3>1. Do(FALSE, Resets(i))
      BY <1>7, <2>2 DEF Set, With, Resets
    <3> QED
      BY <1>7, <2>1, <2>2, <3>1 DEF Set, Ordered, Given
  <2>3. CASE ~nodes[i].up
    BY <1>7, <2>3 DEF Set, With, Ends
  <2> QED
    BY <2>2, <2>3
<1>8. ASSUME NEW i \in Ids, InitNode(i)
      PROVE  Idle /\ (Ends \/ \E steps : Ordered(steps))
  <2>1. Orders(One("load", i))
    BY OrderOne DEF Verbs
  <2> QED
    BY <1>8, <2>1 DEF InitNode, Ordered, Given
<1> QED
  BY <1>1, <1>2, <1>3, <1>4, <1>5, <1>6, <1>7, <1>8 DEF Command

LEMMA TypeOpen ==
  ASSUME TypeInv, Open
  PROVE  /\ TypeInv' /\ Ids' = DOMAIN net.names
         /\ \A i \in Ids' : nodes'[i] = Node(net.names[i]) /\ net.names[i] \in Names
         /\ Left' = {Step("load", i, None) : i \in Ids'}
<1>1. PICK m \in Nat : m = Len(net.names) /\ DOMAIN net.names = 1..m /\ \A i \in 1..m : net.names[i] \in Names
  BY LenProperties, ElementOfSeq DEF TypeInv, Typed
<1>2. nodes' = [i \in 1..m |-> Node(net.names[i])] /\ todo' = [i \in 1..m |-> Step("load", i, None)]
  BY <1>1 DEF Open
<1>3. \A i \in 1..m : Node(net.names[i]) \in Obj
  BY <1>1, Blank
<1>4. nodes' \in Seq(Obj) /\ DOMAIN nodes' = 1..m
  BY <1>2, <1>3, IsASeq
<1>5. Len(nodes') = m
  BY <1>4, LenProperties
<1>6. \A i \in 1..m : Step("load", i, None) \in Work(m)
  BY Works DEF Verbs
<1>7. todo' \in Seq(Work(m)) /\ Shaped(todo') /\ ToSet(todo') = {Step("load", i, None) : i \in 1..m}
  <2>1. "load" \notin Openers \union Closers \union {"save"}
    BY DEF Openers, Closers
  <2>2. PICK p : p = [i \in 1..m |-> Step("load", i, None)]
    OBVIOUS
  <2>3. p \in Seq(Work(m)) /\ Shaped(p)
    <3>1. p \in Seq(Work(m))
      BY <1>6, <2>2, IsASeq
    <3>2. \A s \in ToSet(p) : s.do = "load"
      BY <2>2, Steps2 DEF ToSet
    <3> QED
      BY <2>1, <3>1, <3>2, ShapedLoop
  <2>4. ToSet(p) = {Step("load", i, None) : i \in 1..m}
    BY <2>2 DEF ToSet
  <2> QED
    BY <1>2, <2>2, <2>3, <2>4
<1>8. \A s \in ToSet(todo') : s.do = "load"
  BY <1>7, Steps2
<1>9. Typed'
  <2>1. todo' \in Seq(Work(Len(nodes')))
    BY <1>5, <1>7
  <2> QED
    BY <1>4, <2>1 DEF Open, TypeInv, Typed
<1>10. \A i \in 1..m : nodes'[i].name = net.names[i] /\ ~nodes'[i].up
  BY <1>1, <1>2, Blank
<1>11. Listed'
  BY <1>1, <1>5, <1>8, <1>10 DEF Open, Listed, Adding, Left
<1>12. HasHome'
  <2>1. todo' # <<>> => Head(todo').do = "load"
    BY <1>7, <1>8, Elements
  <2> QED
    BY <1>4, <1>10, <2>1 DEF HasHome, Ids, At
<1>13. TypeInv'
  BY <1>7, <1>9, <1>11, <1>12 DEF TypeInv, Open
<1> QED
  BY <1>1, <1>2, <1>4, <1>7, <1>13 DEF Ids, Left

LEMMA TypeAdd ==
  ASSUME TypeInv, NEW n \in Names, Add(n), ~Reuse
  PROVE  /\ TypeInv' /\ Len(nodes') = Len(nodes) + 1 /\ Ids' = Ids \union {Len(nodes')} /\ Len(nodes') \notin Ids
         /\ nodes'[Len(nodes')] = Node(n) /\ \A i \in Ids : nodes'[i] = nodes[i]
         /\ \A i \in Ids : nodes[i].name # n
         /\ Left' = {Step("mkdir", Len(nodes'), None), Step("load", Len(nodes'), None), Step("add", Len(nodes'), None)}
         /\ todo' # <<>> /\ It' = Step("mkdir", Len(nodes'), None)
<1>1. PICK k \in Nat : k = Len(nodes) /\ Ids = 1..k
  BY Counts DEF TypeInv
<1>2. PICK m \in Nat : m = Len(net.names) /\ DOMAIN net.names = 1..m
  BY LenProperties DEF TypeInv, Typed
<1>3. open /\ todo = <<>> /\ Typed /\ Left = {} /\ ~Adding
  BY Singles DEF Add, Idle, TypeInv, Left, Adding
<1>4. k = m /\ \A i \in 1..k : nodes[i].name = net.names[i]
  BY <1>1, <1>2, <1>3 DEF TypeInv, Listed
<1>5. \A i \in Ids : nodes[i].name # n
  BY Resolved DEF Add
<1>6. /\ nodes' \in Seq(Obj) /\ Len(nodes') = k + 1 /\ nodes'[k + 1] = Node(n)
      /\ \A i \in 1..k : nodes'[i] = nodes[i]
  <2>1. nodes' = Append(nodes, Node(n)) /\ Node(n) \in Obj /\ nodes \in Seq(Obj)
    BY <1>3, Blank DEF Add, Typed
  <2> QED
    BY <1>1, <2>1, AppendProperties
<1>7. Ids' = 1..(k + 1)
  BY <1>6, LenProperties DEF Ids
<1> DEFINE W == Work(k + 1)
           p == Create(k + 1)
           a == Step("add", k + 1, None)
           l == Step("load", k + 1, None)
           b == Step("mkdir", k + 1, None)
<1>8. k + 1 \in Nat /\ k + 1 \in 1..(k + 1)
  OBVIOUS
<1>9. a \in W /\ l \in W /\ b \in W
  BY <1>8, Works DEF Verbs
<1>10. p \in Seq(W) /\ ToSet(p) = {b, l} /\ p # <<>> /\ p[1] = b /\ Shaped(p)
  <2>1. p = <<b, l>> /\ p = Pair("mkdir", "load", k + 1)
    BY DEF Create, Pair
  <2>2. Shaped(p)
    BY <2>1, ShapedPair
  <2> HIDE DEF p, a, l, b, W
  <2>3. <<b, l>> \in Seq(W)
    BY <1>9
  <2>4. ToSet(<<b, l>>) = {b, l}
    BY Singles
  <2>5. <<b, l>> # <<>> /\ <<b, l>>[1] = b
    OBVIOUS
  <2> QED
    BY <2>1, <2>2, <2>3, <2>4, <2>5
<1>11. a.do = "add" /\ a.i = k + 1 /\ l.do = "load" /\ b.do = "mkdir"
  BY Steps2
<1>12. todo' = p \o <<a>>
  BY <1>1 DEF Add, One
<1> HIDE DEF W, p, a, l, b
<1>13. <<a>> \in Seq(W) /\ ToSet(<<a>>) = {a} /\ Shaped(<<a>>)
  BY <1>9, <1>11, Singles, ShapedOne
<1>14. Fits(p, <<a>>)
  BY <1>10, <1>11, <1>13 DEF Fits, Openers, Closers
<1>15. todo' \in Seq(W) /\ ToSet(todo') = {b, l, a} /\ Shaped(todo') /\ todo' # <<>> /\ Head(todo') = b
  <2>1. p \o <<a>> \in Seq(W) /\ ToSet(p \o <<a>>) = ToSet(p) \union {a} /\ p \o <<a>> # <<>> /\ Head(p \o <<a>>) = b
    <3> DEFINE r == <<a>>
    <3>1. r \in Seq(W) /\ ToSet(r) = {a}
      BY <1>13
    <3> HIDE DEF r
    <3>2. p \o r \in Seq(W) /\ ToSet(p \o r) = ToSet(p) \union {a} /\ p \o r # <<>> /\ Head(p \o r) = b
      BY <1>10, <3>1, Joined
    <3> QED
      BY <3>2 DEF r
  <2>2. Shaped(p \o <<a>>)
    BY <1>10, <1>13, <1>14, ShapedPush
  <2> QED
    BY <1>10, <1>12, <2>1, <2>2
<1>16. Typed'
  <2>1. todo' \in Seq(Work(Len(nodes')))
    BY <1>6, <1>15 DEF W
  <2> QED
    BY <1>3, <1>6, <2>1 DEF Add, Typed
<1>17. \A i \in 1..(k + 1) : i \in 1..k \/ i = k + 1
  OBVIOUS
<1>18. Listed'
  <2>1. Adding' /\ \A s \in Left' : s.do = "add" => s.i = k + 1
    BY <1>11, <1>15 DEF Adding, Left
  <2>2. \A i \in 1..m : nodes'[i].name = net.names[i] /\ net.names[i] # n
    BY <1>1, <1>4, <1>5, <1>6
  <2>3. nodes'[k + 1].name = n
    BY <1>6, Blank
  <2> QED
    BY <1>2, <1>4, <1>6, <2>1, <2>2, <2>3 DEF Listed, Add
<1>19. HasHome'
  <2>1. ASSUME NEW i \in Ids', nodes'[i].up PROVE Exists(i)'
    <3>1. i \in 1..k
      BY <1>6, <1>7, <1>17, <2>1, Blank
    <3> QED
      BY <1>1, <1>3, <1>6, <2>1, <3>1 DEF TypeInv, HasHome, At, Exists, Add
  <2> QED
    BY <1>11, <1>15, <2>1 DEF HasHome, At
<1>20. TypeInv'
  BY <1>15, <1>16, <1>18, <1>19 DEF TypeInv, Add
<1>21. Ids' = Ids \union {k + 1} /\ k + 1 \notin Ids
  BY <1>1, <1>7, <1>17
<1> QED
  BY <1>1, <1>5, <1>6, <1>15, <1>20, <1>21 DEF Left, It, b, l, a

(* What can happen, for the invariants below.                              *)
LEMMA Cases ==
  ASSUME TypeInv, [Next]_vars, ~Reuse
  PROVE  /\ TypeInv'
         /\ \/ \E o, d, p : Done(o, d, p)
            \/ UnsetContact \/ SetContact \/ AddNode \/ RemoveNode
            \/ \E steps : Ordered(steps)
            \/ Open \/ Quit \/ Crash \/ Fails
            \/ \E n \in Names : Add(n)
            \/ UNCHANGED vars
<1>1. CASE Moving
  BY <1>1, MovingCases, TypeTurn, TypeEnds DEF Fails
<1>2. CASE UnsetContact \/ SetContact \/ AddNode \/ RemoveNode
  BY <1>2, TypeUnset, TypeSet, TypeAddNode, TypeRemove
<1>3. CASE Command
  <2>1. Idle /\ (Ends \/ \E steps : Ordered(steps))
    BY <1>3, Commands
  <2>2. CASE Ends
    BY <2>1, <2>2, TypeEnds DEF Fails, Idle, At
  <2>3. ASSUME NEW steps, Ordered(steps) PROVE TypeInv'
    <3>1. PICK sync \in BOOLEAN : Do(sync, steps)
      BY <2>3 DEF Ordered
    <3> QED
      BY <2>3, <3>1, TypeDo DEF Ordered
  <2> QED
    BY <2>1, <2>2, <2>3
<1>4. CASE Open \/ Quit \/ Crash
  BY <1>4, TypeOpen, TypeQuit, TypeCrash
<1>5. CASE \E n \in Names : Add(n)
  BY <1>5, TypeAdd
<1>6. CASE UNCHANGED vars
  <2>1. TypeInv'
    BY <1>6 DEF vars, TypeInv, Typed, Shaped, Leads, HasHome, Listed, Adding, Left, Ids, Exists, At, It
  <2> QED
    BY <1>6, <2>1
<1> QED
  BY <1>1, <1>2, <1>3, <1>4, <1>5, <1>6 DEF Next, Steps, Moving, Command

LEMMA TypeInit ==
  ASSUME Init
  PROVE  TypeInv
<1>1. Ids = {} /\ ~open /\ todo = <<>> /\ nodes = <<>>
  BY DEF Init, Ids
<1>2. Typed
  <2>1. <<>> \in Seq(Obj) /\ <<>> \in Seq(Names) /\ <<>> \in Seq(Work(Len(nodes)))
    BY EmptySeq
  <2>2. nodes \in Seq(Obj) /\ todo \in Seq(Work(Len(nodes)))
    BY <1>1, <2>1
  <2>3. net \in [fc : Names \union {None}, names : Seq(Names)]
    BY <2>1 DEF Init
  <2>4. disk \in [Names -> Dir \union {None}] /\ keys \in 0..MaxKeys /\ faults \in Nat
    BY LocalNetworkAssumption DEF Init
  <2> QED
    BY <1>1, <2>2, <2>3, <2>4 DEF Init, Typed
<1>3. Shaped(todo)
  BY <1>1, ShapedOne
<1>4. HasHome
  BY <1>1 DEF HasHome, At
<1>5. Len(net.names) = 0
  BY EmptySeq DEF Init
<1> QED
  BY <1>1, <1>2, <1>3, <1>4, <1>5 DEF TypeInv

LEMMA TypeHolds ==
  ASSUME ~Reuse
  PROVE  Spec => []TypeInv
<1>1. TypeInv /\ [Next]_vars => TypeInv'
  BY Cases
<1> QED
  BY <1>1, TypeInit, PTL DEF Spec

(* Memory, files and what is left of a command fit together in every state *)
(* a shell reaches, whatever is cut off where.                             *)
THEOREM TypeTheorem ==
  ASSUME ~Reuse
  PROVE  Spec => []TypeOK
<1>1. ASSUME TypeInv PROVE TypeOK
  <2>1. Typed
    BY <1>1 DEF TypeInv
  <2>2. PICK n \in Nat : n = Len(nodes) /\ Ids = 1..n
    BY <2>1, Counts
  <2>3. PICK m \in Nat : m = Len(net.names) /\ DOMAIN net.names = 1..m /\ \A i \in 1..m : net.names[i] \in Names
    BY <2>1, LenProperties, ElementOfSeq DEF Typed
  <2>4. ASSUME Idle PROVE net.names = [i \in Ids |-> nodes[i].name]
    <3>1. Left = {} /\ open
      BY <2>4, Singles DEF Idle, Left
    <3>2. m = n /\ \A i \in 1..n : nodes[i].name = net.names[i]
      BY <1>1, <2>2, <2>3, <3>1 DEF TypeInv, Listed, Adding
    <3>3. net.names = [i \in 1..m |-> net.names[i]]
      BY <2>1, <2>3 DEF Typed
    <3>4. [i \in 1..m |-> net.names[i]] = [i \in 1..n |-> nodes[i].name]
      BY <3>2
    <3> QED
      BY <2>2, <3>3, <3>4
  <2>5. ToSet(net.names) \subseteq Names /\ IsInjective(net.names)
    BY <1>1, <2>3 DEF TypeInv, ToSet, IsInjective
  <2>6. ASSUME NEW n1 \in Names, disk[n1] # None
        PROVE  disk[n1].key \in Key \union {Torn} /\ disk[n1].cfg \in Cfg \union {None, Torn}
    BY <2>1, <2>6, DirParts DEF Typed
  <2>7. ASSUME NEW i \in Ids
        PROVE  nodes[i].name \in Names /\ {nodes[i].rid, nodes[i].fc, nodes[i].key} \subseteq Key
    BY <2>1, Counts DEF Obj
  <2> QED
    BY <2>1, <2>4, <2>5, <2>6, <2>7 DEF TypeOK, Typed
<1> QED
  BY <1>1, TypeHolds, PTL

-----------------------------------------------------------------------------
(* Identities and keys                                                     *)

(* A node o that is initialized is the one its directory d has a key of.   *)
Own(o, d) ==
  o.up => o.rid = o.key /\ o.key # None /\ (d # None => d.key \in {None, o.key})

(* The two files of a directory fit together.                              *)
Fit(d) ==
  d # None /\ d.key \notin {None, Torn} => d.cfg = Torn \/ (d.cfg \in Cfg /\ d.cfg.rid = d.key)

(* Between the two files.                                                  *)
Midway(n) == (At("save") \/ At("wipekey")) /\ Me.name = n

KeyInv ==
  /\ \A i \in Ids : nodes[i].name \notin cut => Own(nodes[i], disk[nodes[i].name])
  /\ \A n \in Names \ cut : Fit(disk[n]) \/ Midway(n)
  /\ At("save") => Me.rid = Me.key /\ Me.key # None /\ disk[Me.name].key = Me.key

LEMMA After ==
  ASSUME TypeInv, NEW o, NEW d, NEW p, Done(o, d, p)
  PROVE  /\ At("save")' => It.do = "key" /\ It'.i = It.i
         /\ It.do = "key" => At("save")' /\ It'.i = It.i
         /\ p = One("wipekey", It.i) => At("wipekey")' /\ It'.i = It.i
<1>1. /\ open' = open /\ open /\ todo # <<>>
      /\ p # <<>> => todo' # <<>> /\ It' = p[1]
      /\ p = <<>> => todo' = Tail(todo) /\ (todo' # <<>> => It' \in Rest)
  <2>1. Moves(o, d, p)
    BY DEF Done
  <2>2. open' = open /\ open /\ todo # <<>>
    BY <2>1 DEF Moves
  <2> QED
    BY <2>1, <2>2, Moved
<1>2. /\ \A s \in Rest : s.do = "save" => It.do = "key"
      /\ It.do = "key" => Tail(todo) # <<>> /\ Head(Tail(todo)) = Step("save", It.i, None)
  BY <1>1, Ahead
<1>3. ASSUME It.do = "key" PROVE p = <<>> /\ At("save")' /\ It'.i = It.i
  <2>1. p = <<>>
    BY <1>3 DEF Done, Turn, Gets
  <2>2. todo' # <<>> /\ It' = Step("save", It.i, None)
    BY <1>1, <1>2, <1>3, <2>1 DEF It
  <2>3. It'.do = "save" /\ It'.i = It.i
    BY <2>2, Steps2
  <2> QED
    BY <1>1, <2>1, <2>2, <2>3 DEF At, It
<1>4. ASSUME p # <<>> PROVE It'.do # "save"
  <2>1. CASE It.do = "visit"
    <3>1. p = Sends
      BY <2>1 DEF Done, Turn, Gets
    <3>2. Sends # <<>> => Sends[1].do \in {"apply", "mkdir"}
      BY <1>1, <2>1, SendsIs
    <3> QED
      BY <1>1, <1>4, <3>1, <3>2
  <2>2. CASE p = Pair("key", "save", It.i) \/ p = One("wipekey", It.i)
    <3>1. p[1] \in {Step("key", It.i, None), Step("wipekey", It.i, None)}
      BY <2>2, PairIs, OneIs
    <3>2. It' = p[1]
      BY <1>1, <1>4
    <3> QED
      BY <3>1, <3>2, Steps2
  <2> QED
    BY <1>4, <2>1, <2>2 DEF Done, Turn
<1>5. ASSUME At("save")' PROVE It.do = "key"
  <2>1. todo' # <<>> /\ It'.do = "save"
    BY <1>5 DEF At, It
  <2> QED
    BY <1>1, <1>2, <1>4, <2>1
<1>6. ASSUME p = One("wipekey", It.i) PROVE At("wipekey")' /\ It'.i = It.i
  <2>1. todo' # <<>> /\ It' = Step("wipekey", It.i, None)
    BY <1>1, <1>6, OneIs
  <2>2. It'.do = "wipekey" /\ It'.i = It.i
    BY <2>1, Steps2
  <2> QED
    BY <1>1, <2>1, <2>2 DEF At, It
<1> QED
  BY <1>3, <1>5, <1>6

LEMMA KeyTurn ==
  ASSUME TypeInv, KeyInv, NEW o, NEW d, NEW p, Done(o, d, p), Me.name \notin cut
  PROVE  /\ Own(o, d)
         /\ Fit(d) \/ It.do = "key" \/ p = One("wipekey", It.i)
<1> DEFINE D == disk[Me.name]
<1>1. todo # <<>> /\ It.do \notin {"unset", "add", "set", "remove"} /\ Turn(o, d, p) /\ open
  BY DEF Done, Moves
<1>2. Me \in Obj /\ Me.name \in Names /\ It.i \in Ids /\ D \in Dir \union {None}
  BY <1>1, Here
<1>3. Own(Me, D)
  BY <1>2 DEF KeyInv, Me
<1>4. Fit(D) \/ It.do \in {"save", "wipekey"}
  BY <1>2 DEF KeyInv, Midway, At, It
<1>5. It.do = "save" => Me.rid = Me.key /\ Me.key # None /\ D.key = Me.key
  BY <1>1 DEF KeyInv, At, It
<1>6. \A x \in Obj : Config(x) \in Cfg /\ Config(x).rid = x.rid
  BY DEF Obj, Config, Cfg
<1>7. \A x \in Dir : x # None
  BY LocalNetworkAssumption
<1>8. \A x \in Dir : \A c : [x EXCEPT !.cfg = c].cfg = c /\ [x EXCEPT !.cfg = c].key = x.key
  BY DEF Dir
<1>9. \A x \in Dir : \A k : [x EXCEPT !.key = k].cfg = x.cfg /\ [x EXCEPT !.key = k].key = k
  BY DEF Dir
<1>10. \A c \in Cfg : c # None /\ c # Torn
  BY LocalNetworkAssumption
<1>11. CASE It.do \in {"start", "stop"}
  <2>1. o.up = Me.up /\ o.rid = Me.rid /\ o.key = Me.key /\ Me.up
    BY <1>1, <1>2, <1>11 DEF Turn, Gets, Obj
  <2>2. d = D \/ (D \in Dir /\ d = [D EXCEPT !.cfg = Config(Me)])
    BY <1>1, <1>11 DEF Turn, Gets
  <2>3. CASE d = D
    BY <1>3, <1>4, <1>11, <2>1, <2>3 DEF Own
  <2>4. CASE D \in Dir /\ d = [D EXCEPT !.cfg = Config(Me)]
    BY <1>2, <1>3, <1>6, <1>7, <1>8, <2>1, <2>4 DEF Own, Fit
  <2> QED
    BY <2>2, <2>3, <2>4
<1>12. CASE It.do \in {"apply", "clear"}
  <2>1. PICK f \in Key : Me.up /\ D \in Dir /\ o = [Me EXCEPT !.fc = f] /\ d = [D EXCEPT !.cfg = Config(o)]
    BY <1>1, <1>12 DEF Turn
  <2>2. o \in Obj /\ o.up = Me.up /\ o.rid = Me.rid /\ o.key = Me.key
    BY <1>2, <2>1 DEF Obj
  <2> QED
    BY <1>3, <1>6, <1>7, <1>8, <2>1, <2>2 DEF Own, Fit
<1>13. CASE It.do = "key"
  <2>1. D \in Dir /\ keys < MaxKeys /\ o.rid = keys + 1 /\ o.key = keys + 1 /\ d = [D EXCEPT !.key = keys + 1]
    BY <1>1, <1>2, <1>13 DEF Turn, Gets, Obj
  <2>2. keys + 1 # None
    BY <1>1, Here, LocalNetworkAssumption
  <2> QED
    BY <1>9, <1>13, <2>1, <2>2 DEF Own
<1>14. CASE It.do = "save"
  <2>1. D \in Dir /\ o.rid = Me.rid /\ o.key = Me.key /\ d = [D EXCEPT !.cfg = Config(Me)]
    BY <1>1, <1>2, <1>14 DEF Turn, Gets, Obj
  <2> QED
    BY <1>2, <1>5, <1>6, <1>8, <1>14, <2>1 DEF Own, Fit
<1>15. CASE It.do = "load"
  <2>1. CASE o = Me /\ d = D
    BY <1>3, <1>4, <1>15, <2>1
  <2>2. CASE D \in Dir /\ D.cfg # Torn /\ D.key # Torn /\ o = Loaded(D) /\ d = D
    <3>1. o.up => o.key = D.key /\ D.key # None
      BY <1>2, <2>2 DEF Loaded, Obj
    <3>2. D.key # None => D.cfg \in Cfg /\ D.cfg.rid = D.key
      BY <1>4, <1>7, <1>15, <2>2 DEF Fit
    <3>3. D.key # None => o.rid = D.cfg.rid
      BY <1>2, <1>10, <2>2, <3>2 DEF Loaded, Obj
    <3> QED
      BY <1>4, <1>15, <2>2, <3>1, <3>2, <3>3 DEF Own
  <2> QED
    BY <1>1, <1>15, <2>1, <2>2 DEF Turn, Gets
<1>16. CASE It.do = "mkdir"
  <2>1. o = Me /\ d = Empty /\ Empty.key = None
    BY <1>1, <1>2, <1>16, Blank DEF Turn, Gets
  <2> QED
    BY <1>3, <2>1 DEF Own, Fit
<1>17. CASE It.do \in {"rmdir", "visit"}
  <2>1. o = Me /\ d \in {None, D}
    BY <1>1, <1>17 DEF Turn, Gets
  <2> QED
    BY <1>3, <1>4, <1>17, <2>1 DEF Own, Fit
<1>18. CASE It.do = "wipekey"
  <2>1. o = Me /\ D \in Dir /\ d = [D EXCEPT !.key = None]
    BY <1>1, <1>18 DEF Turn, Gets
  <2> QED
    BY <1>3, <1>7, <1>9, <2>1 DEF Own, Fit
<1>19. CASE It.do \in {"wipe", "wipeall"}
  <2>1. CASE o = Me /\ d = D
    BY <1>3, <1>4, <1>19, <2>1
  <2>2. CASE o = Me /\ D \in Dir /\ d = [D EXCEPT !.cfg = None] /\ p = One("wipekey", It.i)
    BY <1>3, <1>7, <1>8, <2>2 DEF Own
  <2> QED
    BY <1>1, <1>19, <2>1, <2>2 DEF Turn, Gets
<1> QED
  BY <1>1, <1>11, <1>12, <1>13, <1>14, <1>15, <1>16, <1>17, <1>18, <1>19, Ahead DEF Verbs

LEMMA KeyDone ==
  ASSUME TypeInv, KeyInv, NEW o, NEW d, NEW p, Done(o, d, p)
  PROVE  KeyInv'
<1>1. Moves(o, d, p) /\ open /\ todo # <<>> /\ cut' = cut
  BY DEF Done, Moves
<1>2. /\ It.i \in Ids /\ Ids' = Ids /\ nodes'[It.i] = o /\ o.name = Me.name /\ Me.name \in Names
      /\ \A i \in Ids : i # It.i => nodes'[i] = nodes[i]
      /\ \A i \in Ids : nodes'[i].name = nodes[i].name /\ nodes[i].name \in Names
      /\ disk'[Me.name] = d
      /\ \A n \in Names : n # Me.name => disk'[n] = disk[n]
  BY <1>1, Moved, Counts DEF Moves, TypeInv
<1>3. Me.name \notin cut => Own(o, d) /\ (Fit(d) \/ It.do = "key" \/ p = One("wipekey", It.i))
  BY KeyTurn
<1>4. ASSUME NEW i \in Ids', nodes'[i].name \notin cut'
      PROVE  Own(nodes'[i], disk'[nodes'[i].name])
  <2>1. CASE i = It.i
    BY <1>1, <1>2, <1>3, <1>4, <2>1
  <2>2. CASE i # It.i
    <3>1. nodes[i].name # Me.name
      BY <1>1, <1>2, <1>4, <2>2, Distinct DEF Me
    <3> QED
      BY <1>1, <1>2, <1>4, <2>2, <3>1 DEF KeyInv
  <2> QED
    BY <2>1, <2>2
<1>5. ASSUME NEW n \in Names \ cut'
      PROVE  Fit(disk'[n]) \/ Midway(n)'
  <2>1. CASE n = Me.name
    <3>1. Fit(d) \/ ((At("save") \/ At("wipekey"))' /\ It'.i = It.i)
      BY <1>1, <1>3, <1>5, <2>1, After
    <3>2. It'.i = It.i => Me'.name = n
      BY <1>2, <2>1 DEF Me
    <3> QED
      BY <1>2, <2>1, <3>1, <3>2 DEF Midway
  <2>2. CASE n # Me.name
    BY <1>1, <1>2, <1>5, <2>2 DEF KeyInv, Midway
  <2> QED
    BY <2>1, <2>2
<1>6. ASSUME At("save")'
      PROVE  Me'.rid = Me'.key /\ Me'.key # None /\ disk'[Me'.name].key = Me'.key
  <2>1. It.do = "key" /\ Me' = o
    BY <1>2, <1>6, After DEF Me
  <2>2. /\ disk[Me.name] \in Dir /\ keys < MaxKeys /\ o = [Me EXCEPT !.key = keys + 1, !.rid = keys + 1]
        /\ d = [disk[Me.name] EXCEPT !.key = keys + 1]
    BY <2>1 DEF Done, Turn, Gets
  <2>3. Me \in Obj /\ keys \in Nat
    BY <1>1, <2>1, Here
  <2>4. o.rid = keys + 1 /\ o.key = keys + 1 /\ d.key = keys + 1 /\ o.key # None
    BY <2>2, <2>3, LocalNetworkAssumption DEF Obj, Dir
  <2> QED
    BY <1>2, <2>1, <2>4
<1> QED
  BY <1>4, <1>5, <1>6 DEF KeyInv

LEMMA NotNext ==
  ASSUME TypeInv', NEW do, \A s \in Left' : s.do # do
  PROVE  ~At(do)'
<1>1. todo' \in Seq(Work(Len(nodes')))
  BY DEF TypeInv, Typed
<1> QED
  BY <1>1, Elements DEF At, Left

(* Where no file changes, and no node is initialized.                      *)
LEMMA KeyStill ==
  ASSUME KeyInv, ~At("save"), ~At("wipekey"), UNCHANGED <<disk, cut>>,
         \A i \in Ids' : ~nodes'[i].up \/ \E j \in Ids : nodes'[i] = nodes[j],
         ~At("save")'
  PROVE  KeyInv'
<1>1. \A n \in Names \ cut : Fit(disk[n])
  BY DEF KeyInv, Midway
<1>2. \A i \in Ids' : nodes'[i].name \notin cut => Own(nodes'[i], disk[nodes'[i].name])
  BY DEF KeyInv, Own
<1> QED
  BY <1>1, <1>2 DEF KeyInv

LEMMA KeyCrash ==
  ASSUME TypeInv, KeyInv, Crash
  PROVE  KeyInv'
<1>1. todo # <<>> /\ open /\ ~open' /\ Ids' = {} /\ Typed
  BY DEF Crash, Dies, Ids, TypeInv
<1>2. disk \in [Names -> Dir \union {None}]
  BY <1>1 DEF Typed
<1>3. ~At("save")' /\ cut \subseteq cut' /\ (At("save") \/ At("wipekey") => Me.name \in cut')
  BY <1>1 DEF At, Crash
<1>4. /\ It.do \in {"key", "save", "apply", "clear", "start"} => Me.name \in Names
      /\ At("key") \/ At("save") => disk[Me.name] \in Dir
      /\ (At("apply") \/ At("clear") \/ At("start")) /\ Me.up => disk[Me.name] \in Dir
  BY <1>1, Here DEF At, It
<1>5. ASSUME NEW n \in Names \ cut' PROVE Fit(disk'[n])
  <2>1. Fit(disk[n])
    BY <1>3, <1>5 DEF KeyInv, Midway
  <2>2. CASE UNCHANGED disk
    BY <2>1, <2>2
  <2>3. CASE At("key") /\ disk' = [disk EXCEPT ![Me.name].key = Torn]
    <3>1. n # Me.name => disk'[n] = disk[n]
      BY <1>2, <2>3
    <3>2. n = Me.name => disk'[n].key = Torn
      BY <1>2, <1>4, <2>3 DEF Dir
    <3> QED
      BY <2>1, <3>1, <3>2 DEF Fit
  <2>4. CASE /\ At("save") \/ (At("apply") /\ Me.up) \/ (At("clear") /\ Me.up)
                  \/ (At("start") /\ Me.up /\ ~Me.run)
             /\ disk' = [disk EXCEPT ![Me.name].cfg = Torn]
    <3>1. n # Me.name => disk'[n] = disk[n]
      BY <1>2, <2>4
    <3>2. n = Me.name => disk'[n].cfg = Torn
      BY <1>2, <1>4, <2>4 DEF Dir
    <3> QED
      BY <2>1, <3>1, <3>2 DEF Fit
  <2> QED
    BY <2>2, <2>3, <2>4 DEF Crash
<1> QED
  BY <1>1, <1>3, <1>5 DEF KeyInv

LEMMA KeyNext ==
  ASSUME TypeInv, KeyInv, [Next]_vars, ~Reuse
  PROVE  KeyInv'
<1>1. TypeInv'
  BY Cases
<1>2. CASE \E o, d, p : Done(o, d, p)
  BY <1>2, KeyDone
<1>3. CASE UnsetContact
  <2>1. ~At("save") /\ ~At("wipekey") /\ todo # <<>> /\ It.do = "unset"
    BY <1>3 DEF UnsetContact, At, It
  <2>2. \A s \in Left' : s.do # "save"
    BY <1>3, <2>1, TypeUnset, Ahead, Steps2
  <2> QED
    BY <1>1, <1>3, <2>1, <2>2, NotNext, KeyStill DEF UnsetContact, Ids
<1>4. CASE SetContact
  <2>1. ~At("save") /\ ~At("wipekey")
    BY <1>4 DEF SetContact, At
  <2>2. \A s \in Left' : s.do # "save"
    BY <1>4, TypeSet, Steps2 DEF Left
  <2> QED
    BY <1>1, <1>4, <2>1, <2>2, NotNext, KeyStill DEF SetContact, Ids
<1>5. CASE AddNode
  <2>1. ~At("save") /\ ~At("wipekey")
    BY <1>5 DEF AddNode, At
  <2>2. \A s \in Left' : s.do # "save"
    BY <1>5, TypeAddNode, Steps2
  <2> QED
    BY <1>1, <1>5, <2>1, <2>2, NotNext, KeyStill DEF AddNode, Ids
<1>6. CASE RemoveNode
  <2>1. ~At("save") /\ ~At("wipekey")
    BY <1>6 DEF RemoveNode, At
  <2>2. \A s \in Left' : s.do # "save"
    BY <1>6, TypeRemove, Steps2
  <2>3. \A i \in Ids' : \E j \in Ids : nodes'[i] = nodes[j]
    BY <1>6, TypeRemove
  <2> QED
    BY <1>1, <1>6, <2>1, <2>2, <2>3, NotNext, KeyStill DEF RemoveNode
<1>7. ASSUME NEW steps, Ordered(steps) PROVE KeyInv'
  <2>1. ~At("save") /\ ~At("wipekey") /\ UNCHANGED <<nodes, disk, cut>>
    BY <1>7 DEF Ordered, Do, Idle, At
  <2>2. \A s \in Left' : s.do # "save"
    BY <1>7 DEF Ordered, Orders, Do, Left
  <2> QED
    BY <1>1, <2>1, <2>2, NotNext, KeyStill DEF Ids
<1>8. CASE Open
  <2>1. ~At("save") /\ ~At("wipekey")
    BY <1>8 DEF Open, At
  <2>2. \A s \in Left' : s.do # "save"
    BY <1>8, TypeOpen, Steps2
  <2>3. \A i \in Ids' : ~nodes'[i].up
    BY <1>8, TypeOpen, Blank
  <2> QED
    BY <1>1, <1>8, <2>1, <2>2, <2>3, NotNext, KeyStill DEF Open
<1>9. CASE Quit \/ Fails
  <2>1. ~At("save") /\ ~At("wipekey") /\ Ids' = {} /\ ~At("save")' /\ UNCHANGED <<disk, cut>>
    BY <1>9 DEF Quit, Idle, Fails, Ends, Dies, At, Ids
  <2> QED
    BY <2>1, KeyStill
<1>10. CASE Crash
  BY <1>10, KeyCrash
<1>11. ASSUME NEW n \in Names, Add(n) PROVE KeyInv'
  <2>1. ~At("save") /\ ~At("wipekey")
    BY <1>11 DEF Add, Idle, At
  <2>2. \A s \in Left' : s.do # "save"
    BY <1>11, TypeAdd, Steps2
  <2>3. \A i \in Ids' : ~nodes'[i].up \/ \E j \in Ids : nodes'[i] = nodes[j]
    BY <1>11, TypeAdd, Blank
  <2> QED
    BY <1>1, <1>11, <2>1, <2>2, <2>3, NotNext, KeyStill DEF Add
<1>12. CASE UNCHANGED vars
  BY <1>12 DEF vars, KeyInv, Midway, Ids, Me, It, At
<1> QED
  BY <1>2, <1>3, <1>4, <1>5, <1>6, <1>7, <1>8, <1>9, <1>10, <1>11, <1>12, Cases

(* Whatever commands are given, and wherever the shell is killed, the      *)
(* identity of a node that is initialized is that of its key, but for a    *)
(* node whose two files a crash tore apart.                                *)
THEOREM KeyTheorem ==
  ASSUME ~Reuse
  PROVE  Spec => []KeyMatches
<1>1. Init => KeyInv
  <2>1. ASSUME Init PROVE KeyInv
    BY <2>1 DEF Init, KeyInv, Ids, At, Fit
  <2> QED
    BY <2>1
<1>2. TypeInv /\ KeyInv /\ [Next]_vars => KeyInv'
  BY KeyNext
<1>3. KeyInv => KeyMatches
  BY DEF KeyInv, KeyMatches, Own
<1> QED
  BY <1>1, <1>2, <1>3, TypeHolds, PTL DEF Spec

-----------------------------------------------------------------------------
(* Directories and the nodes that read them                                *)

Broken(i) == Torn \in {disk[nodes[i].name].cfg, disk[nodes[i].name].key}

(* A node with a directory is initialized, or will be, unless a file of it *)
(* cannot be read.                                                         *)
ReadInv ==
  /\ \A i \in Ids : Exists(i) => nodes[i].up \/ Broken(i) \/ Has("load", i) \/ Has("save", i)
  /\ At("wipekey") => Me.up

LEMMA WipeKeyAfter ==
  ASSUME TypeInv, NEW o, NEW d, NEW p, Done(o, d, p), At("wipekey")'
  PROVE  o = Me /\ Me.up /\ It'.i = It.i
<1>1. /\ p # <<>> => todo' # <<>> /\ It' = p[1]
      /\ p = <<>> => (todo' # <<>> => It' \in Rest)
      /\ todo # <<>>
  <2>1. Moves(o, d, p)
    BY DEF Done
  <2>2. todo # <<>>
    BY <2>1 DEF Moves
  <2> QED
    BY <2>1, <2>2, Moved
<1>2. \A s \in Rest : s.do # "wipekey"
  BY <1>1, Ahead DEF Openers
<1>3. todo' # <<>> /\ It'.do = "wipekey"
  BY DEF At, It
<1>4. p # <<>>
  BY <1>1, <1>2, <1>3
<1>5. CASE It.do = "visit" /\ p = Sends
  <2>1. Sends # <<>> => Sends[1].do \in {"apply", "mkdir"}
    BY <1>1, <1>5, SendsIs
  <2> QED
    BY <1>1, <1>3, <1>4, <1>5, <2>1
<1>6. CASE p = Pair("key", "save", It.i)
  BY <1>1, <1>3, <1>4, <1>6, PairIs, Steps2
<1>7. CASE o = Me /\ Me.up /\ p = One("wipekey", It.i)
  BY <1>7, After
<1> QED
  BY <1>4, <1>5, <1>6, <1>7 DEF Done, Turn

LEMMA ReadTurn ==
  ASSUME TypeInv, ReadInv, NEW o, NEW d, NEW p, Done(o, d, p), d # None
  PROVE  o.up \/ Torn \in {d.cfg, d.key} \/ \E s \in Left' : s.do \in {"load", "save"} /\ s.i = It.i
<1> DEFINE D == disk[Me.name]
<1>1. /\ todo # <<>> /\ It.do \notin {"unset", "add", "set", "remove"} /\ Turn(o, d, p) /\ open
      /\ Left' = ToSet(p) \union Rest
  BY Moved DEF Done, Moves
<1>2. /\ Me \in Obj /\ It.i \in Ids /\ Left = {It} \union Rest
      /\ It.do = "mkdir" => Step("load", It.i, None) \in Rest
      /\ It.do = "key" => Step("save", It.i, None) \in Rest
  BY <1>1, Ahead
<1>3. \A do \in {"load", "save"} : Step(do, It.i, None) \in Left' =>
         \E s \in Left' : s.do \in {"load", "save"} /\ s.i = It.i
  BY Steps2
<1>4. CASE It.do \in {"start", "stop", "apply", "clear", "save", "wipe"}
  <2>1. \A f, b : [Me EXCEPT !.fc = f].up = Me.up /\ [Me EXCEPT !.run = b].up = Me.up /\ [Me EXCEPT !.up = TRUE].up
    BY <1>2 DEF Obj
  <2>2. CASE It.do \in {"start", "stop", "save", "wipe"}
    BY <1>1, <2>1, <2>2 DEF Turn, Gets
  <2>3. CASE It.do \in {"apply", "clear"}
    BY <1>1, <2>1, <2>3 DEF Turn
  <2> QED
    BY <1>4, <2>2, <2>3
<1>5. CASE It.do \in {"mkdir", "key"}
  BY <1>1, <1>2, <1>3, <1>5
<1>6. CASE It.do \in {"load", "wipeall", "rmdir"}
  <2>1. CASE p = Pair("key", "save", It.i)
    BY <1>1, <1>3, <2>1, PairIs
  <2>2. CASE o = Loaded(D) /\ D.key # None
    BY <1>2, <2>2 DEF Loaded, Obj
  <2> QED
    BY <1>1, <1>6, <2>1, <2>2 DEF Turn, Gets
<1>7. CASE It.do = "visit"
  <2>1. o = Me /\ d = D
    BY <1>1, <1>7 DEF Turn, Gets
  <2>2. Me.up \/ Torn \in {D.cfg, D.key} \/ Has("load", It.i) \/ Has("save", It.i)
    BY <1>2, <2>1 DEF ReadInv, Exists, Broken, Me
  <2>3. \A s \in Left : s.do \in {"load", "save"} => s \in Left'
    BY <1>1, <1>2, <1>7
  <2> QED
    BY <2>1, <2>2, <2>3 DEF Has
<1>8. CASE It.do = "wipekey"
  BY <1>1, <1>8 DEF Turn, Gets, ReadInv, At, It
<1> QED
  BY <1>1, <1>4, <1>5, <1>6, <1>7, <1>8, Ahead DEF Verbs

LEMMA ReadDone ==
  ASSUME TypeInv, ReadInv, NEW o, NEW d, NEW p, Done(o, d, p)
  PROVE  ReadInv'
<1>1. Moves(o, d, p) /\ open /\ todo # <<>>
  BY DEF Done, Moves
<1>2. /\ It.i \in Ids /\ Ids' = Ids /\ nodes'[It.i] = o /\ o.name = Me.name /\ Me.name \in Names
      /\ \A i \in Ids : i # It.i => nodes'[i] = nodes[i]
      /\ \A i \in Ids : nodes'[i].name = nodes[i].name /\ nodes[i].name \in Names
      /\ disk'[Me.name] = d
      /\ \A n \in Names : n # Me.name => disk'[n] = disk[n]
      /\ Left' = ToSet(p) \union Rest
  BY <1>1, Moved, Counts DEF Moves, TypeInv
<1>3. Left = {It} \union Rest
  BY <1>1, Ahead
<1>4. ASSUME NEW i \in Ids', Exists(i)'
      PROVE  nodes'[i].up \/ Broken(i)' \/ Has("load", i)' \/ Has("save", i)'
  <2>1. CASE i = It.i
    <3>1. d # None /\ (Broken(i)' <=> Torn \in {d.cfg, d.key})
      BY <1>2, <1>4, <2>1 DEF Exists, Broken
    <3>2. o.up \/ Torn \in {d.cfg, d.key} \/ \E s \in Left' : s.do \in {"load", "save"} /\ s.i = It.i
      BY <3>1, ReadTurn
    <3>3. (\E s \in Left' : s.do \in {"load", "save"} /\ s.i = It.i) => Has("load", i)' \/ Has("save", i)'
      BY <2>1 DEF Has
    <3> QED
      BY <1>2, <2>1, <3>1, <3>2, <3>3
  <2>2. CASE i # It.i
    <3>1. nodes[i].name # Me.name
      BY <1>1, <1>2, <1>4, <2>2, Distinct DEF Me
    <3>2. Exists(i) /\ (Broken(i)' <=> Broken(i))
      BY <1>2, <1>4, <2>2, <3>1 DEF Exists, Broken
    <3>3. \A do : Has(do, i) => Has(do, i)'
      BY <1>2, <1>3, <2>2 DEF Has
    <3> QED
      BY <1>2, <1>4, <2>2, <3>2, <3>3 DEF ReadInv
  <2> QED
    BY <2>1, <2>2
<1>5. ASSUME At("wipekey")' PROVE Me'.up
  BY <1>2, <1>5, WipeKeyAfter DEF Me
<1> QED
  BY <1>4, <1>5 DEF ReadInv

LEMMA ReadStill ==
  ASSUME ReadInv, disk' = disk, \A s \in Left : s.do \notin {"load", "save"},
         \A i \in Ids' : \/ ~Exists(i)' \/ Has("load", i)'
                         \/ \E j \in Ids : nodes'[i] = nodes[j],
         ~At("wipekey")'
  PROVE  ReadInv'
<1>1. ASSUME NEW i \in Ids', Exists(i)', NEW j \in Ids, nodes'[i] = nodes[j]
      PROVE  nodes'[i].up \/ Broken(i)'
  <2>1. Exists(j) /\ (Broken(j) <=> Broken(i)')
    BY <1>1 DEF Exists, Broken
  <2> QED
    BY <1>1, <2>1 DEF ReadInv, Has
<1> QED
  BY <1>1 DEF ReadInv

LEMMA ReadNext ==
  ASSUME TypeInv, ReadInv, [Next]_vars, ~Reuse
  PROVE  ReadInv'
<1>1. TypeInv'
  BY Cases
<1>2. CASE \E o, d, p : Done(o, d, p)
  BY <1>2, ReadDone
<1>3. CASE UnsetContact
  <2>1. todo # <<>> /\ It.do = "unset" /\ UNCHANGED <<nodes, disk>>
    BY <1>3 DEF UnsetContact, At, It
  <2>2. Left = {It} \union Rest /\ Left' = {Step("clear", i, It.x) : i \in Ids} \union Rest
    BY <1>3, <2>1, TypeUnset, Ahead
  <2>3. \A s \in Left' : s.do # "wipekey"
    BY <2>1, <2>2, Ahead, Steps2 DEF Openers
  <2>4. \A i : \A do \in {"load", "save"} : Has(do, i) => Has(do, i)'
    BY <2>1, <2>2 DEF Has
  <2>5. Ids' = Ids /\ \A i \in Ids : (Exists(i)' <=> Exists(i)) /\ (Broken(i)' <=> Broken(i))
    BY <2>1 DEF Ids, Exists, Broken
  <2> QED
    BY <1>1, <2>1, <2>3, <2>4, <2>5, NotNext DEF ReadInv
<1>4. CASE SetContact
  <2>1. todo # <<>> /\ It.do = "set" /\ UNCHANGED <<nodes, disk>>
    BY <1>4 DEF SetContact, At, It
  <2>2. \A s \in Left : s.do \notin {"load", "save"}
    BY <2>1, Ahead DEF Closers
  <2>3. \A s \in Left' : s.do # "wipekey"
    BY <1>4, TypeSet, Steps2 DEF Left
  <2> QED
    BY <1>1, <2>1, <2>2, <2>3, NotNext, ReadStill DEF Ids
<1>5. CASE AddNode
  <2>1. todo # <<>> /\ It.do = "add" /\ UNCHANGED <<nodes, disk>>
    BY <1>5 DEF AddNode, At, It
  <2>2. \A s \in Left : s.do \notin {"load", "save"}
    BY <2>1, Ahead DEF Closers
  <2>3. \A s \in Left' : s.do # "wipekey"
    BY <1>5, TypeAddNode, Steps2
  <2> QED
    BY <1>1, <2>1, <2>2, <2>3, NotNext, ReadStill DEF Ids
<1>6. CASE RemoveNode
  <2>1. todo # <<>> /\ It.do = "remove" /\ disk' = disk
    BY <1>6 DEF RemoveNode, At, It
  <2>2. \A s \in Left : s.do \notin {"load", "save"}
    BY <2>1, Ahead DEF Closers
  <2>3. \A s \in Left' : s.do # "wipekey"
    BY <1>6, TypeRemove, Steps2
  <2>4. \A i \in Ids' : \E j \in Ids : nodes'[i] = nodes[j]
    BY <1>6, TypeRemove
  <2> QED
    BY <1>1, <2>1, <2>2, <2>3, <2>4, NotNext, ReadStill
<1>7. ASSUME NEW steps, Ordered(steps) PROVE ReadInv'
  <2>1. Left = {} /\ UNCHANGED <<nodes, disk>>
    BY <1>7, Singles DEF Ordered, Do, Idle, Left
  <2>2. \A s \in Left' : s.do # "wipekey"
    BY <1>7 DEF Ordered, Orders, Do, Left
  <2> QED
    BY <1>1, <2>1, <2>2, NotNext, ReadStill DEF Ids
<1>8. CASE Open
  <2>1. todo = <<>> /\ disk' = disk
    BY <1>8 DEF Open, TypeInv, Typed
  <2>2. Left = {}
    BY <2>1, Singles DEF Left
  <2>3. \A s \in Left' : s.do # "wipekey"
    BY <1>8, TypeOpen, Steps2
  <2>4. \A i \in Ids' : Has("load", i)'
    <3>1. ASSUME NEW i \in Ids' PROVE Has("load", i)'
      <4>1. Step("load", i, None) \in Left' /\ Step("load", i, None).do = "load" /\ Step("load", i, None).i = i
        BY <1>8, TypeOpen, Steps2
      <4> QED
        BY <4>1 DEF Has
    <3> QED
      BY <3>1
  <2> QED
    BY <1>1, <2>1, <2>2, <2>3, <2>4, NotNext, ReadStill
<1>9. CASE Quit \/ Crash \/ Fails
  <2>1. Ids' = {} /\ ~At("wipekey")'
    BY <1>9 DEF Quit, Crash, Fails, Ends, Dies, At, Ids
  <2> QED
    BY <2>1 DEF ReadInv
<1>10. ASSUME NEW n \in Names, Add(n) PROVE ReadInv'
  <2>1. Left = {} /\ disk' = disk /\ disk[n] = None
    BY <1>10, Singles DEF Add, Idle, Left
  <2>2. \A s \in Left' : s.do # "wipekey"
    BY <1>10, TypeAdd, Steps2
  <2>3. ASSUME NEW i \in Ids' PROVE ~Exists(i)' \/ \E j \in Ids : nodes'[i] = nodes[j]
    <3>1. i = Len(nodes') => ~Exists(i)'
      BY <1>10, <2>1, TypeAdd, Blank DEF Exists
    <3> QED
      BY <1>10, <3>1, TypeAdd
  <2> QED
    BY <1>1, <2>1, <2>2, <2>3, NotNext, ReadStill
<1>11. CASE UNCHANGED vars
  BY <1>11 DEF vars, ReadInv, Ids, Exists, Broken, Has, Left, At, Me, It
<1> QED
  BY <1>2, <1>3, <1>4, <1>5, <1>6, <1>7, <1>8, <1>9, <1>10, <1>11, Cases

LEMMA ReadHolds ==
  ASSUME ~Reuse
  PROVE  Spec => []ReadInv
<1>1. Init => ReadInv
  BY DEF Init, ReadInv, Ids, At
<1>2. TypeInv /\ ReadInv /\ [Next]_vars => ReadInv'
  BY ReadNext
<1> QED
  BY <1>1, <1>2, TypeHolds, PTL DEF Spec

-----------------------------------------------------------------------------
(* What a sync leaves behind                                               *)

Making == {"mkdir", "load", "key", "save"}

(* A directory that is made is read next, and none is read later.          *)
Ready(t) == \A k \in 2..Len(t) : t[k].do = "load" => k = 2 /\ t[1].do = "mkdir"

Applies(i) == \E s \in Left : s.do = "apply" /\ s.i = i /\ s.x = Contact

(* A node that is being read will be told of the first contact; if it is   *)
(* the first contact, all others will.                                     *)
Told ==
  todo # <<>> /\ It.do \in Making /\ Contact # 0 =>
    IF It.i = Contact THEN \A i \in Ids \ {Contact} : Has("visit", i)
    ELSE Has("visit", It.i) \/ Applies(It.i)

Visited(i) ==
  /\ Exists(i) \/ (At("mkdir") /\ It.i = i)
  /\ Contact \notin {0, i} => Follows(i, nodes[Contact].rid) \/ Applies(i)

SyncInv ==
  synced /\ open =>
    /\ Ready(todo)
    /\ \A s \in Left : /\ s.do \in Making \union {"visit", "apply"}
                       /\ s.do = "apply" => s.x = Contact /\ s.i # Contact
    /\ Told
    /\ Contact # 0 => Exists(Contact) \/ (At("mkdir") /\ It.i = Contact)
    /\ \A i \in Ids : Has("visit", i) \/ Visited(i)

LEMMA ReadyTail ==
  ASSUME NEW S, NEW t \in Seq(S), t # <<>>, Ready(t)
  PROVE  /\ Ready(Tail(t))
         /\ \A s \in ToSet(Tail(t)) : s.do = "load" => Head(t).do = "mkdir"
<1>1. PICK n \in Nat : n = Len(t)
  BY LenProperties
<1>2. Head(t) = t[1]
  BY <1>1, Elements
<1>3. /\ Len(Tail(t)) = n - 1 /\ \A k \in 1..(n - 1) : Tail(t)[k] = t[k + 1]
      /\ \A s \in ToSet(Tail(t)) : \E k \in 2..n : t[k] = s
  BY <1>1, Behind
<1>4. \A k \in 2..n : t[k].do = "load" => k = 2 /\ t[1].do = "mkdir"
  BY <1>1 DEF Ready
<1>5. ASSUME NEW k \in 2..(n - 1) PROVE Tail(t)[k].do # "load"
  <2>1. k + 1 \in 2..n /\ k + 1 # 2 /\ k \in 1..(n - 1)
    OBVIOUS
  <2> QED
    BY <1>3, <1>4, <2>1
<1> QED
  BY <1>2, <1>3, <1>4, <1>5 DEF Ready

LEMMA ReadyPush ==
  ASSUME NEW S, NEW p \in Seq(S), NEW r \in Seq(S), p # <<>>, Ready(p), \A s \in ToSet(r) : s.do # "load"
  PROVE  Ready(p \o r)
<1>1. PICK m \in Nat : m = Len(p)
  BY LenProperties
<1>2. PICK n \in Nat : n = Len(r)
  BY LenProperties
<1> DEFINE t == p \o r
<1>3. Len(t) = m + n /\ \A k \in 1..m : t[k] = p[k]
  BY <1>1, <1>2, Joined
<1>4. \A k \in 1..n : t[m + k] = r[k]
  BY <1>1, <1>2, Joined
<1>5. 1 \in 1..m
  BY <1>1, EmptySeq
<1>6. \A k \in 1..n : r[k].do # "load"
  BY <1>2, Elements
<1> HIDE DEF t
<1>7. ASSUME NEW k \in 2..(m + n), t[k].do = "load" PROVE k = 2 /\ t[1].do = "mkdir"
  <2>1. k \in 1..m \/ (k - m \in 1..n /\ m + (k - m) = k)
    OBVIOUS
  <2>2. CASE k \in 1..m
    <3>1. k \in 2..m /\ t[k] = p[k] /\ t[1] = p[1]
      BY <1>3, <1>5, <2>2
    <3> QED
      BY <1>1, <1>7, <3>1 DEF Ready
  <2>3. CASE k - m \in 1..n /\ m + (k - m) = k
    BY <1>4, <1>6, <1>7, <2>3
  <2> QED
    BY <2>1, <2>2, <2>3
<1> QED
  BY <1>3, <1>7 DEF Ready, t

LEMMA ReadyFirst ==
  ASSUME NEW i
  PROVE  Ready(<<>>) /\ Ready(Pair("mkdir", "load", i)) /\ Ready(Pair("key", "save", i))
<1>1. Ready(<<>>)
  BY DEF Ready
<1>2. ASSUME NEW a, NEW b, b.do = "load" => a.do = "mkdir" PROVE Ready(<<a, b>>)
  <2>1. Len(<<a, b>>) = 2 /\ <<a, b>>[1] = a /\ <<a, b>>[2] = b
    OBVIOUS
  <2>2. \A k \in 2..2 : k = 2
    OBVIOUS
  <2> QED
    BY <1>2, <2>1, <2>2 DEF Ready
<1> QED
  BY <1>1, <1>2, Steps2 DEF Pair

(* Names and the configuration fix the first contact.                      *)
LEMMA ContactKept ==
  ASSUME TypeInv, open, Ids' = Ids, \A i \in Ids : nodes'[i].name = nodes[i].name, net'.fc = net.fc
  PROVE  Contact' = Contact
<1>1. CASE net.fc = None
  BY <1>1 DEF Contact
<1>2. CASE net.fc # None
  <2>1. CASE Resolve(net.fc) = 0 /\ \A i \in Ids : nodes[i].name # net.fc
    BY <1>2, <2>1 DEF Contact, Resolve
  <2>2. ASSUME NEW r \in Ids, r = Resolve(net.fc), nodes[r].name = net.fc
        PROVE  Contact' = Contact
    <3>1. \A k \in Ids : nodes[k].name = net.fc => k = r
      BY <2>2, Distinct
    <3>2. \A j \in 1..(r - 1) : j \in Ids /\ j # r
      BY Counts DEF TypeInv
    <3>3. \A j \in 1..(r - 1) : nodes'[j].name # net.fc
      BY <3>1, <3>2
    <3>4. r \in Ids' /\ nodes'[r].name = net.fc /\ \A k \in Ids' : nodes'[k].name = net.fc => k = r
      BY <2>2, <3>1
    <3>5. (CHOOSE i \in Ids' : nodes'[i].name = net.fc /\ \A j \in 1..(i - 1) : nodes'[j].name # net.fc) = r
      BY <3>3, <3>4
    <3>6. Resolve(net.fc)' = r
      BY <3>4, <3>5 DEF Resolve
    <3> QED
      BY <1>2, <2>2, <3>6 DEF Contact
  <2> QED
    BY <2>1, <2>2, Resolved
<1> QED
  BY <1>1, <1>2

(* What the cases of a sync start from.                                    *)
LEMMA SyncFrom ==
  ASSUME TypeInv, SyncInv, synced, NEW o, NEW d, NEW p, Done(o, d, p)
  PROVE  /\ open /\ todo # <<>> /\ Contact' = Contact /\ Ids' = Ids /\ It.i \in Ids
         /\ nodes'[It.i] = o /\ o.name = Me.name
         /\ \A i \in Ids : i # It.i => nodes'[i] = nodes[i] /\ disk'[nodes'[i].name] = disk[nodes[i].name]
         /\ disk'[nodes'[It.i].name] = d
         /\ \A i \in Ids : i # It.i => (Exists(i)' <=> Exists(i))
         /\ \A i \in Ids : i = It.i => (Exists(i)' <=> d # None) /\ (Exists(i) <=> disk[Me.name] # None)
         /\ Left = {It} \union Rest /\ Left' = ToSet(p) \union Rest
         /\ Contact # 0 => Contact \in Ids
         /\ 0 \notin Ids
<1>1. Moves(o, d, p)
  BY DEF Done
<1>2. open /\ todo # <<>> /\ net' = net /\ o.name = Me.name
  BY <1>1 DEF Moves
<1>3. /\ It.i \in Ids /\ Ids' = Ids /\ nodes'[It.i] = o /\ Me.name \in Names
      /\ \A i \in Ids : i # It.i => nodes'[i] = nodes[i]
      /\ \A i \in Ids : nodes'[i].name = nodes[i].name
      /\ disk'[Me.name] = d
      /\ \A n \in Names : n # Me.name => disk'[n] = disk[n]
      /\ Left' = ToSet(p) \union Rest
  BY <1>1, Moved
<1>4. Left = {It} \union Rest
  BY <1>2, Ahead
<1>5. Contact' = Contact
  BY <1>2, <1>3, ContactKept
<1>6. ASSUME NEW i \in Ids, i # It.i
      PROVE  disk'[nodes'[i].name] = disk[nodes[i].name] /\ nodes'[i] = nodes[i]
  <2>1. nodes[i].name # Me.name /\ nodes[i].name \in Names
    BY <1>2, <1>3, <1>6, Distinct, Counts DEF Me, TypeInv
  <2> QED
    BY <1>3, <1>6, <2>1
<1>7. \A i \in Ids : i # It.i => (Exists(i)' <=> Exists(i))
  BY <1>6 DEF Exists
<1>8. \A i \in Ids : i = It.i => (Exists(i)' <=> d # None) /\ (Exists(i) <=> disk[Me.name] # None)
  BY <1>2, <1>3 DEF Exists, Me
<1> QED
  BY <1>2, <1>3, <1>4, <1>5, <1>6, <1>7, <1>8, Resolved

LEMMA SyncMaking ==
  ASSUME TypeInv, SyncInv, synced, NEW o, NEW d, NEW p, Done(o, d, p), It.do \in Making
  PROVE  SyncInv'
<1> DEFINE D == disk[Me.name]
<1>1. /\ open /\ todo # <<>> /\ Contact' = Contact /\ Ids' = Ids /\ It.i \in Ids
      /\ \A i \in Ids : i # It.i => nodes'[i] = nodes[i] /\ disk'[nodes'[i].name] = disk[nodes[i].name]
      /\ \A i \in Ids : i # It.i => (Exists(i)' <=> Exists(i))
      /\ \A i \in Ids : i = It.i => (Exists(i)' <=> d # None) /\ (Exists(i) <=> D # None)
      /\ Left = {It} \union Rest /\ Left' = ToSet(p) \union Rest
      /\ Contact # 0 => Contact \in Ids
      /\ 0 \notin Ids
  BY SyncFrom
<1>2. /\ Ready(todo) /\ Told
      /\ \A s \in Left : /\ s.do \in Making \union {"visit", "apply"}
                         /\ s.do = "apply" => s.x = Contact /\ s.i # Contact
      /\ Contact # 0 => Exists(Contact) \/ (At("mkdir") /\ It.i = Contact)
      /\ \A i \in Ids : Has("visit", i) \/ Visited(i)
  BY <1>1 DEF SyncInv
<1>3. p = <<>> \/ p = Pair("key", "save", It.i)
  BY DEF Done, Turn, Gets, Making
<1>4. \A s \in ToSet(p) : s.do \in {"key", "save"}
  <2>1. CASE p = <<>>
    BY <2>1, Singles
  <2>2. CASE p = Pair("key", "save", It.i)
    BY <2>2, PairIs, Steps2
  <2> QED
    BY <1>3, <2>1, <2>2
<1>5. (D # None \/ It.do = "mkdir") => d # None
  <2>1. Keeps(d, o, p)
    BY DoneKeeps
  <2>2. \A x \in Dir : x # None /\ \A c \in Cfg : [x EXCEPT !.cfg = c] # None
    BY DirParts
  <2>3. Config(Me) \in Cfg /\ Empty # None
    BY <1>1, Here, Parts, Blank DEF Making
  <2>4. CASE It.do \in {"mkdir", "load", "save"}
    BY <2>2, <2>3, <2>4 DEF Done, Turn, Gets
  <2>5. CASE It.do = "key"
    BY <2>1, <2>5 DEF Keeps
  <2> QED
    BY <2>4, <2>5 DEF Making
<1>6. /\ todo \in Seq(Work(Len(nodes))) /\ Tail(todo) \in Seq(Work(Len(nodes)))
      /\ \A s \in Rest : s.do \notin Openers /\ (s.do = "save" => It.do = "key")
      /\ It.do = "mkdir" => Head(Tail(todo)) = Step("load", It.i, None)
      /\ It.do = "key" => Head(Tail(todo)) = Step("save", It.i, None)
  BY <1>1, Ahead DEF TypeInv, Typed
<1>7. Ready(Tail(todo)) /\ \A s \in Rest : s.do = "load" => It.do = "mkdir"
  BY <1>1, <1>2, <1>6, ReadyTail DEF Rest, It
<1>8. /\ p # <<>> => todo' # <<>> /\ It' = p[1]
      /\ p = <<>> => todo' = Tail(todo) /\ (todo' # <<>> => It' \in Rest)
      /\ todo' = p \o Tail(todo) /\ synced' = synced /\ p \in Seq(Work(Len(nodes)))
  <2>1. Moves(o, d, p)
    BY DEF Done
  <2>2. todo' = p \o Tail(todo) /\ synced' = synced /\ p \in Seq(Work(Len(nodes)))
    BY <2>1 DEF Moves
  <2> QED
    BY <2>1, <2>2, Moved
<1>9. /\ \A i \in Ids : Has("visit", i) => Has("visit", i)'
      /\ \A i \in Ids : Applies(i) => Applies(i)'
  BY <1>1 DEF Has, Applies, Making
<1>10. Ready(todo)'
  <2>1. CASE p = <<>>
    BY <1>7, <1>8, <2>1
  <2>2. CASE p # <<>>
    <3>1. It.do = "load" /\ p = Pair("key", "save", It.i)
      <4>1. p = <<>> \/ It.do = "load"
        BY DEF Done, Turn, Gets, Making
      <4> QED
        BY <1>3, <2>2, <4>1
    <3>2. \A s \in ToSet(Tail(todo)) : s.do # "load"
      BY <1>7, <3>1 DEF Rest
    <3>3. Ready(p)
      BY <3>1, ReadyFirst
    <3>4. Ready(p \o Tail(todo))
      BY <1>6, <1>8, <2>2, <3>2, <3>3, ReadyPush
    <3> QED
      BY <1>8, <3>4
  <2> QED
    BY <2>1, <2>2
<1>11. \A s \in Left' : /\ s.do \in Making \union {"visit", "apply"}
                        /\ s.do = "apply" => s.x = Contact' /\ s.i # Contact'
  BY <1>1, <1>2, <1>4 DEF Making
<1>12. todo' # <<>> /\ It'.do \in Making => It'.i = It.i
  <2>1. CASE p = <<>>
    <3>1. todo' # <<>> /\ It'.do \in Making => (It'.do = "load" /\ It.do = "mkdir") \/ (It'.do = "save" /\ It.do = "key")
      BY <1>6, <1>7, <1>8, <2>1 DEF Making, Openers
    <3>2. It' = Head(Tail(todo))
      BY <1>8, <2>1 DEF It
    <3>3. Step("load", It.i, None).i = It.i /\ Step("save", It.i, None).i = It.i
      BY Steps2
    <3> QED
      BY <1>6, <3>1, <3>2, <3>3
  <2>2. CASE p = Pair("key", "save", It.i)
    <3>1. It' = Step("key", It.i, None)
      BY <1>8, <2>2, PairIs
    <3> QED
      BY <3>1, Steps2
  <2> QED
    BY <1>3, <2>1, <2>2
<1>13. Contact # 0 => IF It.i = Contact THEN \A i \in Ids \ {Contact} : Has("visit", i)'
                      ELSE \E s \in Left' : s.i = It.i /\ (s.do = "visit" \/ (s.do = "apply" /\ s.x = Contact))
  <2>1. CASE It.i = Contact
    BY <1>1, <1>2, <1>9, <2>1 DEF Told
  <2>2. CASE It.i # Contact
    <3>1. Contact # 0 => \E s \in Left : s.i = It.i /\ (s.do = "visit" \/ (s.do = "apply" /\ s.x = Contact))
      BY <1>1, <1>2, <2>2 DEF Told, Has, Applies
    <3> QED
      BY <1>1, <2>2, <3>1 DEF Making
  <2> QED
    BY <2>1, <2>2
<1>14. Told'
  BY <1>1, <1>12, <1>13 DEF Told, Has, Applies
<1>15. Contact' # 0 => Exists(Contact)'
  <2>1. CASE Contact # 0 /\ Contact = It.i
    BY <1>1, <1>2, <1>5, <2>1 DEF At, It, Exists
  <2>2. CASE Contact # 0 /\ Contact # It.i
    BY <1>1, <1>2, <2>2 DEF Exists
  <2> QED
    BY <1>1, <2>1, <2>2
<1>16. ASSUME NEW i \in Ids' PROVE Has("visit", i)' \/ Visited(i)'
  <2>1. CASE Has("visit", i)
    BY <1>1, <1>9, <2>1
  <2>2. CASE ~Has("visit", i) /\ i = It.i
    <3>1. Exists(i)'
      BY <1>1, <1>2, <1>5, <2>2 DEF Visited, At, It
    <3>2. Contact' \notin {0, i} => Has("visit", i)' \/ Applies(i)'
      BY <1>1, <1>13, <2>2 DEF Has, Applies
    <3> QED
      BY <3>1, <3>2 DEF Visited
  <2>3. CASE ~Has("visit", i) /\ i # It.i
    <3>1. Exists(i)' /\ Visited(i)
      BY <1>1, <1>2, <2>3 DEF Visited
    <3>2. CASE Contact = It.i
      BY <1>1, <1>13, <2>3, <3>2
    <3>3. CASE Contact # It.i
      <4>1. Contact \notin {0, i} /\ Follows(i, nodes[Contact].rid) => Follows(i, nodes[Contact].rid)'
        BY <1>1, <2>3, <3>1, <3>3 DEF Follows, Config
      <4> QED
        BY <1>1, <1>9, <3>1, <4>1 DEF Visited
    <3> QED
      BY <3>2, <3>3
  <2> QED
    BY <2>1, <2>2, <2>3
<1> QED
  BY <1>10, <1>11, <1>14, <1>15, <1>16 DEF SyncInv

(* What is left of a sync: a directory is made and read in one go.         *)
LEMMA RestQuiet ==
  ASSUME TypeInv, todo # <<>>, Ready(todo), It.do \notin Making
  PROVE  Ready(Tail(todo)) /\ \A s \in Rest : s.do \notin Making
<1>1. \A s \in Rest : s.do \notin Openers /\ (s.do = "save" => It.do = "key")
  BY Ahead
<1>2. todo \in Seq(Work(Len(nodes)))
  BY DEF TypeInv, Typed
<1>3. Ready(Tail(todo)) /\ \A s \in Rest : s.do = "load" => It.do = "mkdir"
  BY <1>2, ReadyTail DEF Rest, It
<1> QED
  BY <1>1, <1>3 DEF Making, Openers

LEMMA SyncApply ==
  ASSUME TypeInv, SyncInv, synced, NEW o, NEW d, NEW p, Done(o, d, p), It.do = "apply"
  PROVE  SyncInv'
<1>1. /\ open /\ todo # <<>> /\ Contact' = Contact /\ Ids' = Ids /\ It.i \in Ids
      /\ nodes'[It.i] = o /\ o.name = Me.name
      /\ \A i \in Ids : i # It.i => nodes'[i] = nodes[i] /\ disk'[nodes'[i].name] = disk[nodes[i].name]
      /\ disk'[nodes'[It.i].name] = d
      /\ \A i \in Ids : i # It.i => (Exists(i)' <=> Exists(i))
      /\ \A i \in Ids : i = It.i => (Exists(i)' <=> d # None)
      /\ Left = {It} \union Rest /\ Left' = ToSet(p) \union Rest
      /\ 0 \notin Ids
  BY SyncFrom
<1>2. /\ Ready(todo)
      /\ \A s \in Left : /\ s.do \in Making \union {"visit", "apply"}
                         /\ s.do = "apply" => s.x = Contact /\ s.i # Contact
      /\ Contact # 0 => Exists(Contact) \/ (At("mkdir") /\ It.i = Contact)
      /\ \A i \in Ids : Has("visit", i) \/ Visited(i)
  BY <1>1 DEF SyncInv
<1>3. It.x = Contact /\ It.i # Contact /\ Contact \in Ids /\ ~At("mkdir") /\ Me \in Obj
  BY <1>1, <1>2, Ahead DEF At, It
<1>4. PICK f \in Key : /\ Gets(f) /\ Me.up /\ disk[Me.name] \in Dir /\ o = [Me EXCEPT !.fc = f]
                       /\ d = [disk[Me.name] EXCEPT !.cfg = Config([Me EXCEPT !.fc = f])] /\ p = <<>>
  BY DEF Done, Turn
<1>5. f = nodes[Contact].rid
  BY <1>3, <1>4 DEF Gets
<1>6. o.up /\ o.fc = f /\ d # None /\ d.cfg = Config(o)
  <2>1. o.up /\ o.fc = f /\ o \in Obj
    BY <1>3, <1>4 DEF Obj
  <2>2. Config(o) \in Cfg \union {None, Torn}
    BY <1>4, <2>1, Parts
  <2>3. PICK D \in Dir : d = [D EXCEPT !.cfg = Config(o)]
    BY <1>4
  <2>4. d \in Dir
    BY <2>2, <2>3, DirParts
  <2>5. d # None
    BY <2>4, DirParts
  <2>6. d.cfg = Config(o)
    BY <2>3 DEF Dir
  <2> QED
    BY <2>1, <2>5, <2>6
<1>7. Left' = Rest /\ Rest \subseteq Left
  BY <1>1, <1>4, Singles
<1>8. todo' = Tail(todo) /\ (todo' # <<>> => It' \in Rest) /\ synced' = synced
  <2>1. Moves(o, d, p)
    BY DEF Done
  <2>2. synced' = synced
    BY <2>1 DEF Moves
  <2> QED
    BY <1>4, <2>1, <2>2, Moved
<1>9. Ready(Tail(todo)) /\ \A s \in Rest : s.do \notin Making
  BY <1>1, <1>2, RestQuiet DEF Making
<1>10. Told'
  BY <1>8, <1>9 DEF Told, It
<1>11. Exists(Contact) /\ (Contact' # 0 => Exists(Contact)')
  <2>1. Exists(Contact)
    BY <1>1, <1>2, <1>3
  <2> QED
    BY <1>1, <1>3, <2>1 DEF Exists
<1>12. ASSUME NEW i \in Ids' PROVE Has("visit", i)' \/ Visited(i)'
  <2>1. CASE i = It.i
    <3>1. Exists(i)' /\ Contact' \notin {0, i}
      BY <1>1, <1>3, <1>6, <2>1
    <3>2. Follows(i, nodes[Contact].rid)'
      <4>1. nodes'[Contact'] = nodes[Contact] /\ nodes'[i] = o /\ disk'[nodes'[i].name] = d
        BY <1>1, <1>3, <2>1
      <4> QED
        BY <1>5, <1>6, <3>1, <4>1 DEF Follows, Config
    <3> QED
      BY <3>1, <3>2 DEF Visited
  <2>2. CASE i # It.i
    <3>1. Has("visit", i) => Has("visit", i)'
      BY <1>1, <1>7 DEF Has
    <3>2. CASE Visited(i)
      <4>1. Exists(i)'
        BY <1>1, <1>3, <2>2, <3>2 DEF Visited
      <4>2. Applies(i) => Applies(i)'
        BY <1>1, <1>7, <2>2 DEF Applies
      <4>3. nodes'[Contact'] = nodes[Contact] /\ nodes'[i] = nodes[i] /\ disk'[nodes'[i].name] = disk[nodes[i].name]
        BY <1>1, <1>3, <2>2
      <4>4. Follows(i, nodes[Contact].rid) => Follows(i, nodes[Contact].rid)'
        BY <4>1, <4>3 DEF Follows, Config
      <4> QED
        BY <1>1, <3>2, <4>1, <4>2, <4>4 DEF Visited
    <3> QED
      BY <1>1, <1>2, <3>1, <3>2
  <2> QED
    BY <2>1, <2>2
<1> QED
  BY <1>1, <1>2, <1>7, <1>8, <1>9, <1>10, <1>11, <1>12 DEF SyncInv

LEMMA SyncVisit ==
  ASSUME TypeInv, SyncInv, synced, NEW o, NEW d, NEW p, Done(o, d, p), It.do = "visit"
  PROVE  SyncInv'
<1>1. /\ open /\ todo # <<>> /\ Contact' = Contact /\ Ids' = Ids /\ It.i \in Ids
      /\ nodes'[It.i] = o /\ o.name = Me.name
      /\ \A i \in Ids : i # It.i => nodes'[i] = nodes[i] /\ disk'[nodes'[i].name] = disk[nodes[i].name]
      /\ disk'[nodes'[It.i].name] = d
      /\ \A i \in Ids : i # It.i => (Exists(i)' <=> Exists(i))
      /\ \A i \in Ids : i = It.i => (Exists(i)' <=> d # None) /\ (Exists(i) <=> disk[Me.name] # None)
      /\ Left = {It} \union Rest /\ Left' = ToSet(p) \union Rest
      /\ Contact # 0 => Contact \in Ids
      /\ 0 \notin Ids
  BY SyncFrom
<1>2. /\ Ready(todo)
      /\ \A s \in Left : /\ s.do \in Making \union {"visit", "apply"}
                         /\ s.do = "apply" => s.x = Contact /\ s.i # Contact
      /\ Contact # 0 => Exists(Contact) \/ (At("mkdir") /\ It.i = Contact)
      /\ \A i \in Ids : Has("visit", i) \/ Visited(i)
  BY <1>1 DEF SyncInv
<1>3. o = Me /\ d = disk[Me.name] /\ p = Sends
  BY DEF Done, Turn, Gets
<1>4. \A i \in Ids : nodes'[i] = nodes[i] /\ disk'[nodes'[i].name] = disk[nodes[i].name] /\ (Exists(i)' <=> Exists(i))
  BY <1>1, <1>3 DEF Me
<1>5. ~At("mkdir") /\ (Contact # 0 => Exists(Contact))
  BY <1>2 DEF At, It
<1>6. Ready(Tail(todo)) /\ \A s \in Rest : s.do \notin Making
  BY <1>1, <1>2, RestQuiet DEF Making
<1>7. /\ ToSet(p) = (IF Exists(It.i) THEN {} ELSE {Step("mkdir", It.i, None), Step("load", It.i, None)})
                       \union (IF Contact \in {0, It.i} THEN {} ELSE {Step("apply", It.i, Contact)})
      /\ p # <<>> => p[1].do = IF Exists(It.i) THEN "apply" ELSE "mkdir"
  BY <1>1, <1>3, SendsIs
<1>8. /\ p # <<>> => todo' # <<>> /\ It' = p[1] /\ It' \in ToSet(p)
      /\ p = <<>> => (todo' # <<>> => It' \in Rest)
      /\ todo' = p \o Tail(todo) /\ synced' = synced /\ p \in Seq(Work(Len(nodes)))
      /\ Tail(todo) \in Seq(Work(Len(nodes)))
  <2>1. Moves(o, d, p)
    BY DEF Done
  <2>2. todo' = p \o Tail(todo) /\ synced' = synced /\ p \in Seq(Work(Len(nodes)))
    BY <2>1 DEF Moves
  <2> QED
    BY <1>1, <2>1, <2>2, Moved, Ahead
<1>9. todo' # <<>> /\ It'.do \in Making => ~Exists(It.i) /\ It' = Step("mkdir", It.i, None)
  <2>1. CASE p = <<>>
    BY <1>6, <1>8, <2>1
  <2>2. CASE p # <<>>
    BY <1>7, <1>8, <2>2, Steps2 DEF Making
  <2> QED
    BY <2>1, <2>2
<1>10. ~Exists(It.i) => todo' # <<>> /\ It' = Step("mkdir", It.i, None)
  <2>1. ASSUME ~Exists(It.i) PROVE p # <<>>
    <3>1. Step("mkdir", It.i, None) \in ToSet(p)
      BY <1>7, <2>1
    <3> QED
      BY <3>1, Singles
  <2> QED
    BY <1>7, <1>8, <2>1, <1>9 DEF Making
<1>11. Contact \notin {0, It.i} => \E s \in Left' : s.do = "apply" /\ s.i = It.i /\ s.x = Contact'
  <2>1. CASE Contact \in {0, It.i}
    BY <2>1
  <2>2. CASE Contact \notin {0, It.i}
    <3>1. Step("apply", It.i, Contact) \in Left'
      BY <1>1, <1>7, <2>2
    <3> QED
      BY <1>1, <3>1, Steps2
  <2> QED
    BY <2>1, <2>2
<1>12. Ready(todo)'
  <2> DEFINE a == IF Exists(It.i) THEN <<>> ELSE Create(It.i)
             b == IF Contact \in {0, It.i} THEN <<>> ELSE <<Step("apply", It.i, Contact)>>
             W == Work(Len(nodes))
  <2>1. It.i \in 1..Len(nodes) /\ Len(nodes) \in Nat
    BY <1>1, Counts DEF TypeInv
  <2>2. a \in Seq(W) /\ Ready(a)
    <3>1. Create(It.i) \in Seq(W) /\ <<>> \in Seq(W)
      BY <2>1, Works, Singles DEF Create, Pair, Verbs
    <3> QED
      BY <3>1, ReadyFirst DEF Create
  <2>3. b \in Seq(W) /\ Ready(b) /\ \A s \in ToSet(b) : s.do # "load"
    <3>1. CASE Contact \in {0, It.i}
      BY <3>1, EmptySeq, ReadyFirst, Singles
    <3>2. CASE Contact \notin {0, It.i}
      <4> DEFINE s == Step("apply", It.i, Contact)
      <4>1. s \in W /\ s.do # "load"
        BY <1>1, <2>1, <3>2, Counts, Works, Steps2 DEF TypeInv
      <4> HIDE DEF s
      <4>2. <<s>> \in Seq(W) /\ ToSet(<<s>>) = {s} /\ Len(<<s>>) = 1
        BY <4>1, Singles
      <4>3. \A k \in 2..1 : FALSE
        OBVIOUS
      <4> QED
        BY <3>2, <4>1, <4>2, <4>3 DEF Ready, s
    <3> QED
      BY <3>1, <3>2
  <2>4. p = a \o b
    BY <1>3 DEF Sends
  <2> HIDE DEF a, b, W
  <2>5. Ready(a \o b)
    <3>1. CASE a = <<>>
      BY <2>3, <3>1, ConcatEmptySeq
    <3>2. CASE a # <<>>
      BY <2>2, <2>3, <3>2, ReadyPush
    <3> QED
      BY <3>1, <3>2
  <2>6. \A s \in ToSet(Tail(todo)) : s.do # "load"
    BY <1>6 DEF Rest, Making
  <2>7. Tail(todo) \in Seq(W) /\ p \in Seq(W)
    BY <1>8 DEF W
  <2>8. Ready(p \o Tail(todo))
    <3>1. CASE p = <<>>
      BY <1>6, <2>7, <3>1, ConcatEmptySeq
    <3>2. CASE p # <<>>
      BY <2>4, <2>5, <2>6, <2>7, <3>2, ReadyPush
    <3> QED
      BY <3>1, <3>2
  <2> QED
    BY <1>8, <2>8
<1>13. \A s \in Left' : /\ s.do \in Making \union {"visit", "apply"}
                        /\ s.do = "apply" => s.x = Contact' /\ s.i # Contact'
  <2>1. \A s \in Rest : /\ s.do \in Making \union {"visit", "apply"}
                        /\ s.do = "apply" => s.x = Contact /\ s.i # Contact
    BY <1>1, <1>2
  <2>2. \A s \in ToSet(p) : /\ s.do \in Making \union {"visit", "apply"}
                            /\ s.do = "apply" => s.x = Contact /\ s.i # Contact
    BY <1>7, Steps2 DEF Making
  <2> QED
    BY <1>1, <2>1, <2>2
<1>14. Told'
  <2>1. ASSUME todo' # <<>>, It'.do \in Making, Contact' # 0
        PROVE  It'.i = It.i /\ It.i # Contact' /\ \E s \in Left' : s.do = "apply" /\ s.i = It.i /\ s.x = Contact'
    BY <1>1, <1>5, <1>9, <1>11, <2>1, Steps2
  <2> QED
    BY <2>1 DEF Told, Applies
<1>15. Contact' # 0 => Exists(Contact)'
  BY <1>1, <1>4, <1>5 DEF Exists
<1>16. ASSUME NEW i \in Ids' PROVE Has("visit", i)' \/ Visited(i)'
  <2>1. CASE i = It.i
    <3>1. Exists(i)' \/ (At("mkdir")' /\ It'.i = i)
      <4>1. CASE Exists(i)
        BY <1>1, <1>4, <2>1, <4>1
      <4>2. CASE ~Exists(i)
        <5>1. open' /\ todo' # <<>> /\ It' = Step("mkdir", It.i, None)
          <6>1. Moves(o, d, p)
            BY DEF Done
          <6> QED
            BY <1>10, <2>1, <4>2, <6>1 DEF Moves
        <5>2. It'.do = "mkdir" /\ It'.i = i
          BY <2>1, <5>1, Steps2
        <5> QED
          BY <5>1, <5>2 DEF At, It
      <4> QED
        BY <4>1, <4>2
    <3>2. Contact' \notin {0, i} => Applies(i)'
      BY <1>1, <1>11, <2>1 DEF Applies
    <3> QED
      BY <3>1, <3>2 DEF Visited
  <2>2. CASE i # It.i
    <3>1. Has("visit", i) => Has("visit", i)'
      BY <1>1, <2>2 DEF Has
    <3>2. CASE Visited(i)
      <4>1. Exists(i)'
        BY <1>1, <1>5, <2>2, <3>2 DEF Visited
      <4>2. Applies(i) => Applies(i)'
        BY <1>1, <2>2 DEF Applies
      <4>3. Contact # 0 => nodes'[Contact'] = nodes[Contact]
        BY <1>1, <1>4
      <4>4. Contact # 0 /\ Follows(i, nodes[Contact].rid) => Follows(i, nodes[Contact].rid)'
        BY <1>1, <1>4, <4>1, <4>3 DEF Follows, Config
      <4> QED
        BY <1>1, <3>2, <4>1, <4>2, <4>4 DEF Visited
    <3> QED
      BY <1>1, <1>2, <3>1, <3>2
  <2> QED
    BY <2>1, <2>2
<1> QED
  BY <1>12, <1>13, <1>14, <1>15, <1>16 DEF SyncInv

(* A sync begins: a visit for each node, after the first contact's own     *)
(* directory is made.                                                      *)
LEMMA SyncBegins ==
  ASSUME TypeInv, Idle, Do(TRUE, Visits)
  PROVE  SyncInv'
<1> DEFINE p == IF Contact # 0 /\ ~Exists(Contact) THEN Create(Contact) ELSE <<>>
           r == Each("visit", None)
           W == Work(Len(nodes))
<1>1. /\ ToSet(Visits) = {Step("visit", i, None) : i \in Ids}
           \union IF Contact # 0 /\ ~Exists(Contact)
                  THEN {Step("mkdir", Contact, None), Step("load", Contact, None)} ELSE {}
      /\ Contact # 0 => Contact \in Ids
      /\ open
  BY OrderSync, Resolved DEF Idle
<1>2. todo' = Visits /\ Left' = ToSet(Visits) /\ UNCHANGED <<open, nodes, net, disk>>
  BY DEF Do, Left
<1>3. Ids' = Ids /\ Contact' = Contact
  BY <1>2 DEF Ids, Contact, Resolve
<1>4. r \in Seq(W) /\ \A s \in ToSet(r) : s.do = "visit"
  <2>1. Orders(r) /\ ToSet(r) = {Step("visit", i, None) : i \in Ids}
    BY OrderEach
  <2> QED
    BY <2>1, Steps2 DEF Orders
<1>5. p \in Seq(W) /\ Ready(p) /\ (p # <<>> => p[1] = Step("mkdir", Contact, None))
      /\ (Contact # 0 /\ ~Exists(Contact) => p # <<>>)
  <2>1. CASE Contact # 0 /\ ~Exists(Contact)
    <3>1. Create(Contact) \in Seq(W)
      BY <1>1, <2>1, OrderPair DEF Create, Orders
    <3> QED
      BY <2>1, <3>1, ReadyFirst, PairIs DEF Create
  <2>2. CASE ~(Contact # 0 /\ ~Exists(Contact))
    BY <2>2, EmptySeq, ReadyFirst
  <2> QED
    BY <2>1, <2>2
<1>6. Visits = p \o r
  BY DEF Visits
<1> HIDE DEF p, r, W
<1>7. Ready(r)
  <2>1. PICK n \in Nat : n = Len(r)
    BY <1>4, LenProperties
  <2>2. \A k \in 1..n : r[k].do = "visit"
    BY <1>4, <2>1, Elements
  <2> QED
    BY <2>1, <2>2 DEF Ready
<1>8. Ready(p \o r)
  <2>1. CASE p = <<>>
    BY <1>4, <1>7, <2>1, ConcatEmptySeq
  <2>2. CASE p # <<>>
    BY <1>4, <1>5, <2>2, ReadyPush
  <2> QED
    BY <2>1, <2>2
<1>9. Contact # 0 /\ ~Exists(Contact) => todo' # <<>> /\ It' = Step("mkdir", Contact, None)
  <2>1. p # <<>> => p \o r # <<>> /\ Head(p \o r) = p[1]
    BY <1>4, <1>5, Joined
  <2> QED
    BY <1>2, <1>5, <1>6, <2>1 DEF It
<1>10. \A s \in Left' : s.do \in {"visit", "mkdir", "load"}
  BY <1>1, <1>2, Steps2
<1>11. \A i \in Ids' : Has("visit", i)'
  <2>1. ASSUME NEW i \in Ids PROVE \E s \in Left' : s.do = "visit" /\ s.i = i
    <3>1. Step("visit", i, None) \in Left'
      BY <1>1, <1>2
    <3> QED
      BY <3>1, Steps2
  <2> QED
    BY <1>3, <2>1 DEF Has
<1>12. Contact' # 0 => Exists(Contact)' \/ (At("mkdir")' /\ It'.i = Contact')
  <2>1. CASE Exists(Contact)
    BY <1>2, <1>3, <2>1 DEF Exists
  <2>2. CASE Contact # 0 /\ ~Exists(Contact)
    <3>1. It'.do = "mkdir" /\ It'.i = Contact
      BY <1>9, <2>2, Steps2
    <3> QED
      BY <1>1, <1>2, <1>3, <1>9, <2>2, <3>1 DEF At, It
  <2> QED
    BY <1>3, <2>1, <2>2
<1>13. Told'
  <2>1. ASSUME todo' # <<>>, It'.do \in Making, Contact' # 0
        PROVE  It'.i \in Ids'
    <3>1. It' \in Left'
      <4>1. todo' \in Seq(W)
        BY <1>2, OrderSync DEF Orders, W
      <4> QED
        BY <2>1, <4>1, Elements DEF It, Left
    <3>2. \A s \in Left' : s.i \in Ids
      BY <1>1, <1>2, <1>3, <2>1, Steps2
    <3> QED
      BY <1>3, <3>1, <3>2
  <2> QED
    BY <1>3, <1>11, <2>1 DEF Told, Has
<1> QED
  BY <1>2, <1>6, <1>8, <1>10, <1>11, <1>12, <1>13 DEF SyncInv, Making

LEMMA SyncNext ==
  ASSUME TypeInv, SyncInv, [Next]_vars, ~Reuse
  PROVE  SyncInv'
<1>1. ASSUME synced, open, todo # <<>>
      PROVE  It.do \in Making \union {"visit", "apply"}
  BY <1>1, Ahead DEF SyncInv
<1>2. ASSUME NEW o, NEW d, NEW p, Done(o, d, p) PROVE SyncInv'
  <2>1. Moves(o, d, p)
    BY <1>2 DEF Done
  <2>2. open /\ todo # <<>> /\ synced' = synced
    BY <2>1 DEF Moves
  <2>3. CASE ~synced
    BY <2>2, <2>3 DEF SyncInv
  <2>4. CASE synced
    BY <1>1, <1>2, <2>2, <2>4, SyncMaking, SyncApply, SyncVisit
  <2> QED
    BY <2>3, <2>4
<1>3. CASE UnsetContact \/ SetContact \/ AddNode \/ RemoveNode
  <2>1. /\ open /\ todo # <<>> /\ It.do \in {"unset", "set", "add", "remove"} /\ synced' = synced
    BY <1>3 DEF UnsetContact, SetContact, AddNode, RemoveNode, At, It
  <2>2. ~synced
    BY <1>1, <2>1 DEF Making
  <2> QED
    BY <2>1, <2>2 DEF SyncInv
<1>4. ASSUME NEW steps, Ordered(steps) PROVE SyncInv'
  <2>1. CASE Do(TRUE, steps) /\ steps = Visits
    BY <1>4, <2>1, SyncBegins DEF Ordered
  <2>2. CASE Do(FALSE, steps)
    BY <2>2 DEF Do, SyncInv
  <2> QED
    BY <1>4, <2>1, <2>2 DEF Ordered
<1>5. CASE Open \/ Quit \/ Crash \/ Fails \/ \E n \in Names : Add(n)
  <2>1. ~synced'
    BY <1>5 DEF Open, Quit, Crash, Fails, Ends, Dies, Add
  <2> QED
    BY <2>1 DEF SyncInv
<1>6. CASE UNCHANGED vars
  <2>1. /\ UNCHANGED <<open, nodes, net, disk, todo, synced>>
        /\ Ids' = Ids /\ Contact' = Contact /\ Left' = Left
        /\ \A do : At(do)' <=> At(do)
    BY <1>6 DEF vars, Ids, Contact, Resolve, Left, At
  <2>2. It' = It /\ \A i : (Exists(i)' <=> Exists(i)) /\ (Has("visit", i)' <=> Has("visit", i)) /\ (Applies(i)' <=> Applies(i))
    BY <2>1 DEF It, Exists, Has, Applies
  <2>3. Told' <=> Told
    BY <2>1, <2>2 DEF Told
  <2>4. \A i : Visited(i)' <=> Visited(i)
    BY <2>1, <2>2 DEF Visited, Follows
  <2>5. Ready(todo)' <=> Ready(todo)
    BY <2>1
  <2> QED
    BY <2>1, <2>2, <2>3, <2>4, <2>5 DEF SyncInv
<1> QED
  BY <1>2, <1>3, <1>4, <1>5, <1>6, Cases

(* Whatever crashed, failed or was wiped before it: a sync that ends       *)
(* leaves every node with a directory that can be read or that holds a     *)
(* file cut off, and with the identity the first contact has now.          *)
THEOREM SyncTheorem ==
  ASSUME ~Reuse
  PROVE  Spec => []SyncRepairs
<1>1. ASSUME TypeInv, ReadInv, SyncInv PROVE SyncRepairs
  <2>1. SUFFICES ASSUME Idle, synced, NEW i \in Ids
                 PROVE  /\ Exists(i)
                        /\ nodes[i].up \/ Torn \in {disk[nodes[i].name].cfg, disk[nodes[i].name].key}
                        /\ Contact \notin {0, i} => Follows(i, nodes[Contact].rid)
    BY DEF SyncRepairs
  <2>2. open /\ Left = {} /\ \A do : ~At(do)
    BY <2>1, Singles DEF Idle, Left, At
  <2>3. Visited(i) /\ ~Applies(i) /\ ~Has("load", i) /\ ~Has("save", i)
    BY <1>1, <2>1, <2>2 DEF SyncInv, Has, Applies
  <2>4. Exists(i) /\ (Contact \notin {0, i} => Follows(i, nodes[Contact].rid))
    BY <2>2, <2>3 DEF Visited
  <2>5. nodes[i].up \/ Broken(i)
    BY <1>1, <2>1, <2>3, <2>4 DEF ReadInv
  <2> QED
    BY <2>4, <2>5 DEF Broken
<1>2. Init => SyncInv
  BY DEF Init, SyncInv
<1>3. TypeInv /\ SyncInv /\ [Next]_vars => SyncInv'
  BY SyncNext
<1> QED
  BY <1>1, <1>2, <1>3, TypeHolds, ReadHolds, PTL DEF Spec
-----------------------------------------------------------------------------
(* The agreement on the first contact                                      *)

Whole(n) == disk[n] # None /\ disk[n].cfg \in Cfg /\ disk[n].key \in Key \ {None}

Kept(i) == disk[nodes[i].name].cfg = Config(nodes[i])

(* A node that is being removed has no directory any more.                 *)
Leaving(n) == At("remove") /\ Me.name = n
RidOf(n) == IF Leaving(n) THEN Me.rid ELSE disk[n].cfg.rid

(* What is left of a command will take the first contact f from n, or give *)
(* it the one that is set.                                                 *)
Cleared(n, f) == \E s \in Left : s.do = "clear" /\ nodes[s.i].name = n /\ s.x.rid = f
Pending(n) == \E s \in Left : s.do = "apply" /\ nodes[s.i].name = n

InStep(n) ==
  LET f == disk[n].cfg.fc
  IN  IF At("unset") THEN f \in {None, It.x.rid}
      ELSE IF net.fc = None THEN f = None \/ Cleared(n, f)
      ELSE f = (IF net.fc = n THEN None ELSE RidOf(net.fc)) \/ Pending(n)

(* What is left to do for a step to make sense.                            *)
Timely(s) ==
  /\ s.do = "apply" => ~At("unset") /\ net.fc = nodes[s.x].name /\ s.i # s.x
  /\ s.do = "set" => At("unset") \/ net.fc = None
  /\ s.do = "clear" => net.fc = None
  /\ s.do \in {"mkdir", "key", "save", "wipekey"} => Adding

(* A node that is being added: the directory, what it holds, and what is   *)
(* left to do.                                                             *)
Joining ==
  LET i == Len(nodes)
      o == nodes[i]
      d == disk[o.name]
      a == Step("add", i, None)
  IN  /\ o.fc = None
      /\ \/ todo = <<Step("mkdir", i, None), Step("load", i, None), a>> /\ ~o.up
         \/ todo = <<Step("load", i, None), a>> /\ ~o.up /\ d = Empty
         \/ todo = <<Step("key", i, None), Step("save", i, None), a>> /\ ~o.up /\ d # None
         \/ todo = <<Step("save", i, None), a>> /\ ~o.up /\ d # None /\ d.key \in Key \ {None}
         \/ todo = <<a>> /\ o.up /\ Whole(o.name)

AgreeInv ==
  ~spoilt =>
    /\ \A n \in ToSet(net.names) : Leaving(n) \/ (Whole(n) /\ InStep(n))
    /\ \A i \in Ids : nodes[i].up => Leaving(nodes[i].name) \/ Kept(i)
    /\ net.fc # None => net.fc \in ToSet(net.names) \/ At("unset")
    /\ \A s \in Left : Timely(s)
    /\ Adding => Joining

(* The names of the network configuration and those of the list.           *)
LEMMA Members ==
  ASSUME TypeInv, open
  PROVE  /\ \A n \in ToSet(net.names) : n \in Names /\ n # None /\ \E i \in Ids : nodes[i].name = n
         /\ ~Adding => \A i \in Ids : nodes[i].name \in ToSet(net.names)
         /\ Adding => /\ Len(nodes) \in Ids /\ nodes[Len(nodes)].name \notin ToSet(net.names)
                      /\ \A i \in Ids : i # Len(nodes) => nodes[i].name \in ToSet(net.names)
<1>1. PICK k \in Nat : k = Len(nodes) /\ Ids = 1..k
  BY Counts DEF TypeInv
<1>2. PICK m \in Nat : m = Len(net.names) /\ DOMAIN net.names = 1..m /\ \A i \in 1..m : net.names[i] \in Names
  BY LenProperties, ElementOfSeq DEF TypeInv, Typed
<1>3. \A i \in 1..m : nodes[i].name = net.names[i]
  BY <1>2 DEF TypeInv, Listed
<1>4. ToSet(net.names) = {net.names[i] : i \in 1..m}
  BY <1>2 DEF ToSet
<1>5. k = m \/ k = m + 1
  BY <1>1, <1>2 DEF TypeInv, Listed
<1>6. \A i \in 1..m : i \in 1..k
  BY <1>5
<1>7. \A n \in ToSet(net.names) : n \in Names /\ n # None /\ \E i \in Ids : nodes[i].name = n
  BY <1>1, <1>2, <1>3, <1>4, <1>6, LocalNetworkAssumption
<1>8. ASSUME ~Adding PROVE \A i \in Ids : nodes[i].name \in ToSet(net.names)
  <2>1. k = m
    BY <1>1, <1>2, <1>8 DEF TypeInv, Listed
  <2> QED
    BY <1>1, <1>3, <1>4, <2>1
<1>9. ASSUME Adding
      PROVE  /\ k \in Ids /\ nodes[k].name \notin ToSet(net.names)
             /\ \A i \in Ids : i # k => nodes[i].name \in ToSet(net.names)
  <2>1. k = m + 1 /\ \A i \in 1..m : net.names[i] # nodes[k].name
    BY <1>1, <1>2, <1>9 DEF TypeInv, Listed
  <2>2. \A i \in 1..k : i # k => i \in 1..m
    BY <2>1
  <2>3. k \in 1..k
    BY <2>1
  <2> QED
    BY <1>1, <1>3, <1>4, <2>1, <2>2, <2>3
<1> QED
  BY <1>1, <1>7, <1>8, <1>9

LEMMA TwoAndOne ==
  ASSUME NEW a, NEW b, NEW c
  PROVE  <<a, b>> \o <<c>> = <<a, b, c>>
<1> DEFINE p == <<a, b>>
           r == <<c>>
           t == <<a, b, c>>
           q == p \o r
           S == {a, b, c}
<1>1. p \in Seq(S) /\ Len(p) = 2 /\ p[1] = a /\ p[2] = b
  OBVIOUS
<1>2. r \in Seq(S) /\ Len(r) = 1 /\ r[1] = c
  OBVIOUS
<1>3. t \in Seq(S) /\ Len(t) = 3 /\ t[1] = a /\ t[2] = b /\ t[3] = c
  OBVIOUS
<1> HIDE DEF p, r, t, S
<1>4. /\ q \in Seq(S) /\ Len(q) = Len(p) + Len(r)
      /\ \A i \in 1..(Len(p) + Len(r)) : q[i] = IF i <= Len(p) THEN p[i] ELSE r[i - Len(p)]
  BY <1>1, <1>2, ConcatProperties
<1> HIDE DEF q
<1>5. Len(p) + Len(r) = 3
  BY <1>1, <1>2
<1>6. Len(q) = 3 /\ \A i \in 1..3 : q[i] = IF i <= 2 THEN p[i] ELSE r[i - 2]
  BY <1>1, <1>4, <1>5
<1>7. q[1] = a /\ q[2] = b /\ q[3] = c
  BY <1>1, <1>2, <1>6
<1>8. \A i \in 1..Len(q) : q[i] = t[i]
  BY <1>3, <1>6, <1>7
<1>9. q = t
  BY <1>3, <1>4, <1>6, <1>8, SeqEqual
<1> QED
  BY <1>9 DEF p, r, t, q

(* Where no command runs, and whatever the next step of one is, but for a  *)
(* node that leaves or joins.                                              *)
LEMMA AgreeHere ==
  ASSUME TypeInv, AgreeInv, open, ~spoilt, ~Adding, ~At("remove")
  PROVE  /\ \A n \in ToSet(net.names) : Whole(n) /\ InStep(n) /\ RidOf(n) = disk[n].cfg.rid
         /\ \A i \in Ids : nodes[i].name \in ToSet(net.names) /\ (nodes[i].up => Kept(i))
         /\ \A i \in Ids : /\ disk[nodes[i].name] \in Dir
                           /\ nodes[i].up => /\ disk[nodes[i].name].cfg.rid = nodes[i].rid
                                             /\ disk[nodes[i].name].cfg.fc = nodes[i].fc
         /\ \A s \in Left : s.do \notin {"mkdir", "key", "save", "wipekey"}
<1>1. \A n \in ToSet(net.names) : Whole(n) /\ InStep(n) /\ RidOf(n) = disk[n].cfg.rid
  BY DEF AgreeInv, Leaving, RidOf
<1>2. \A i \in Ids : nodes[i].name \in ToSet(net.names) /\ (nodes[i].up => Kept(i))
  BY Members DEF AgreeInv, Leaving
<1>3. \A i \in Ids : nodes[i] \in Obj /\ nodes[i].name \in Names /\ Config(nodes[i]).rid = nodes[i].rid /\ Config(nodes[i]).fc = nodes[i].fc
  BY Counts DEF TypeInv, Config
<1>4. \A n \in Names : disk[n] # None => disk[n] \in Dir
  BY DEF TypeInv, Typed
<1>5. \A s \in Left : s.do \notin {"mkdir", "key", "save", "wipekey"}
  BY DEF AgreeInv, Timely
<1> QED
  BY <1>1, <1>2, <1>3, <1>4, <1>5 DEF Whole, Kept

(* What a step leaves of a node that is neither added nor removed: its     *)
(* identity, and its first contact, unless it is the step that sets it.    *)
LEMMA AgreeTurn ==
  ASSUME TypeInv, AgreeInv, NEW o, NEW d, NEW p, Done(o, d, p), ~Adding, It.do # "rmdir", ~spoilt'
  PROVE  /\ d # None /\ d.cfg \in Cfg /\ d.key \in Key \ {None}
         /\ d.cfg.rid = disk[Me.name].cfg.rid
         /\ o.up => d.cfg = Config(o)
         /\ IF It.do \in {"apply", "clear"} THEN Gets(d.cfg.fc) /\ Me.up ELSE d.cfg.fc = disk[Me.name].cfg.fc
         /\ \A s \in ToSet(p) : s.do = "apply" /\ s.x = Contact /\ Contact # 0 /\ s.i \in Ids /\ s.i # Contact
<1> DEFINE D == disk[Me.name]
<1>1. /\ open /\ todo # <<>> /\ It.do \notin {"unset", "add", "set", "remove"} /\ Turn(o, d, p) /\ ~spoilt
      /\ ~At("remove")
  BY DEF Done, Moves, At, It
<1>2. It.i \in Ids /\ Me \in Obj /\ (Exists(It.i) <=> D # None)
  BY <1>1, Here
<1>3. /\ Whole(Me.name) /\ D \in Dir
      /\ Me.up => D.cfg = Config(Me) /\ D.cfg.rid = Me.rid /\ D.cfg.fc = Me.fc
  BY <1>1, <1>2, AgreeHere DEF Me, Kept
<1>4. /\ It \in Left /\ It.do \notin {"mkdir", "key", "save", "wipekey"}
      /\ It.do \in Verbs \union {"apply", "clear", "unset"}
  BY <1>1, Ahead, AgreeHere
<1>5. D # None /\ D.cfg \in Cfg /\ D.key \in Key \ {None} /\ D.cfg # Torn /\ D.cfg # None
  BY <1>3, LocalNetworkAssumption DEF Whole
<1>6. \A x \in Dir : \A c : [x EXCEPT !.cfg = c].cfg = c /\ [x EXCEPT !.cfg = c].key = x.key
  BY DEF Dir
<1>7. \A x \in Dir : \A c \in Cfg : [x EXCEPT !.cfg = c] # None
  BY DirParts
<1>8. \A x \in Obj : Config(x) \in Cfg /\ Config(x).rid = x.rid /\ Config(x).fc = x.fc
  BY DEF Obj, Config, Cfg
<1>9. \A s \in ToSet(<<>>) : FALSE
  BY Singles
<1>10. CASE It.do \in {"start", "stop"}
  <2>1. Me.up /\ p = <<>> /\ Config(o) = Config(Me) /\ (d = D \/ d = [D EXCEPT !.cfg = Config(Me)])
    BY <1>1, <1>2, <1>10 DEF Turn, Gets, Config, Obj
  <2>2. D.cfg = Config(Me) /\ D \in Dir
    BY <1>3, <2>1
  <2>3. [D EXCEPT !.cfg = D.cfg].cfg = D.cfg /\ [D EXCEPT !.cfg = D.cfg].key = D.key /\ [D EXCEPT !.cfg = D.cfg] # None
    BY <1>5, <1>6, <1>7, <2>2
  <2>4. d = D \/ d = [D EXCEPT !.cfg = D.cfg]
    BY <2>1, <2>2
  <2>5. d # None /\ d.cfg = D.cfg /\ d.key = D.key
    BY <1>5, <2>3, <2>4
  <2> QED
    BY <1>3, <1>5, <1>9, <1>10, <2>1, <2>2, <2>5
<1>11. CASE It.do = "load"
  <2>1. p = <<>> /\ d = D
    BY <1>1, <1>5, <1>11 DEF Turn, Gets
  <2>2. CASE o = Me
    BY <1>3, <1>5, <1>9, <1>11, <2>1, <2>2
  <2>3. CASE o = Loaded(D)
    <3>1. o.rid = D.cfg.rid /\ o.fc = D.cfg.fc
      BY <1>2, <1>5, <2>3 DEF Loaded, Obj
    <3>2. Config(o) = D.cfg
      BY <1>5, <3>1 DEF Config, Cfg
    <3> QED
      BY <1>5, <1>9, <1>11, <2>1, <3>2
  <2> QED
    BY <1>1, <1>11, <2>2, <2>3 DEF Turn, Gets
<1>12. CASE It.do \in {"apply", "clear"}
  <2>1. PICK f \in Key : /\ Gets(f) /\ Me.up /\ o = [Me EXCEPT !.fc = f] /\ p = <<>>
                         /\ d = [D EXCEPT !.cfg = Config(o)]
    BY <1>1, <1>12 DEF Turn
  <2>2. o \in Obj /\ o.rid = Me.rid /\ o.fc = f
    BY <1>2, <2>1 DEF Obj
  <2>3. d.cfg = Config(o) /\ d.key = D.key /\ d # None
    BY <1>3, <1>6, <1>7, <1>8, <2>1, <2>2
  <2>4. Config(o) \in Cfg /\ Config(o).rid = Me.rid /\ Config(o).fc = f
    BY <1>8, <2>2
  <2>5. d.cfg \in Cfg /\ d.cfg.rid = D.cfg.rid /\ d.cfg.fc = f
    BY <1>3, <2>1, <2>3, <2>4
  <2>6. d.key \in Key \ {None}
    BY <1>5, <2>3
  <2>7. Gets(d.cfg.fc) /\ Me.up
    BY <2>1, <2>5
  <2> QED
    BY <1>9, <1>12, <2>1, <2>3, <2>5, <2>6, <2>7
<1>13. CASE It.do = "visit"
  <2>1. p = Sends /\ d = D /\ o = Me
    BY <1>1, <1>13 DEF Turn, Gets
  <2>2. ToSet(p) = IF Contact \in {0, It.i} THEN {} ELSE {Step("apply", It.i, Contact)}
    BY <1>1, <1>2, <1>5, <1>13, <2>1, SendsIs
  <2>3. \A s \in ToSet(p) : s.do = "apply" /\ s.x = Contact /\ Contact # 0 /\ s.i \in Ids /\ s.i # Contact
    BY <1>2, <2>2, Steps2
  <2> QED
    BY <1>3, <1>5, <1>13, <2>1, <2>3
<1>14. CASE It.do \in {"wipe", "wipeall"}
  BY <1>1, <1>5, <1>14 DEF Turn, Gets
<1> QED
  BY <1>1, <1>4, <1>10, <1>11, <1>12, <1>13, <1>14 DEF Verbs

(* Such a step leaves the nodes in agreement.                              *)
LEMMA AgreeMoved ==
  ASSUME TypeInv, AgreeInv, TypeInv', NEW o, NEW d, NEW p, Done(o, d, p), ~Adding, It.do # "rmdir", ~spoilt'
  PROVE  AgreeInv'
<1> DEFINE M == ToSet(net.names)
<1>1. /\ open /\ todo # <<>> /\ It.do \notin {"unset", "add", "set", "remove"} /\ ~spoilt /\ net' = net
      /\ ~At("remove") /\ ~At("unset")
  BY DEF Done, Moves, At, It
<1>2. Moves(o, d, p)
  BY DEF Done
<1>3. /\ Ids' = Ids /\ It.i \in Ids /\ nodes'[It.i] = o
      /\ \A i \in Ids : i # It.i => nodes'[i] = nodes[i]
      /\ \A i \in Ids : nodes'[i].name = nodes[i].name
      /\ disk'[Me.name] = d
      /\ \A n \in Names : n # Me.name => disk'[n] = disk[n]
      /\ Left' = ToSet(p) \union Rest
  BY <1>2, Moved
<1>4. /\ d # None /\ d.cfg \in Cfg /\ d.key \in Key \ {None}
      /\ d.cfg.rid = disk[Me.name].cfg.rid
      /\ o.up => d.cfg = Config(o)
  BY AgreeTurn
<1>5. IF It.do \in {"apply", "clear"} THEN Gets(d.cfg.fc) /\ Me.up ELSE d.cfg.fc = disk[Me.name].cfg.fc
  BY AgreeTurn
<1>6. \A s \in ToSet(p) : s.do = "apply" /\ s.x = Contact /\ Contact # 0 /\ s.i \in Ids /\ s.i # Contact
  BY AgreeTurn
<1>7. /\ Left = {It} \union Rest
      /\ \A s \in Rest : s.do \notin Openers /\ s.do # "remove"
      /\ \A s \in Rest : s.i \in Ids /\ (s.do = "apply" => s.x \in Ids)
  <2>1. /\ Left = {It} \union Rest /\ Rest \subseteq Work(Len(nodes))
        /\ \A s \in Rest : s.do \notin Openers /\ s.do # "remove"
    BY <1>1, Ahead
  <2>2. Len(nodes) \in Nat /\ Ids = 1..Len(nodes)
    BY Counts DEF TypeInv
  <2>3. \A s \in Rest : s.do # "unset"
    BY <2>1 DEF Openers
  <2>4. ASSUME NEW s \in Rest PROVE s.i \in Ids /\ (s.do = "apply" => s.x \in Ids)
    BY <2>1, <2>2, <2>3, WorkFields
  <2> QED
    BY <2>1, <2>4
<1>8. ~At("unset")' /\ ~At("remove")'
  <2>1. \A s \in Left' : s.do # "unset" /\ s.do # "remove"
    BY <1>3, <1>6, <1>7 DEF Openers
  <2> QED
    BY <2>1, NotNext
<1>9. /\ \A n \in M : Whole(n) /\ InStep(n) /\ RidOf(n) = disk[n].cfg.rid
      /\ \A i \in Ids : nodes[i].name \in M /\ (nodes[i].up => Kept(i))
      /\ \A i \in Ids : nodes[i].up => /\ disk[nodes[i].name].cfg.rid = nodes[i].rid
                                       /\ disk[nodes[i].name].cfg.fc = nodes[i].fc
      /\ \A s \in Left : s.do \notin {"mkdir", "key", "save", "wipekey"}
  BY <1>1, AgreeHere
<1>10. /\ \A n \in M : n \in Names /\ n # None
       /\ net.fc # None => net.fc \in M
       /\ \A s \in Left : Timely(s)
  BY <1>1, Members DEF AgreeInv
<1>11. \A n \in M : disk'[n].cfg.rid = disk[n].cfg.rid
  BY <1>3, <1>4, <1>10
<1>12. \A s \in Rest : s \in Left /\ s \in Left' /\ nodes'[s.i].name = nodes[s.i].name
  BY <1>3, <1>7
<1>13. ASSUME NEW n \in M
       PROVE  disk'[n] # None /\ disk'[n].cfg \in Cfg /\ disk'[n].key \in Key \ {None}
  BY <1>3, <1>4, <1>9, <1>10 DEF Whole
<1>14. ASSUME NEW n \in M, net.fc = None
       PROVE  disk'[n].cfg.fc = None \/ \E s \in Left' : s.do = "clear" /\ nodes'[s.i].name = n /\ s.x.rid = disk'[n].cfg.fc
  <2>1. disk[n].cfg.fc = None \/ \E s \in Left : s.do = "clear" /\ nodes[s.i].name = n /\ s.x.rid = disk[n].cfg.fc
    BY <1>1, <1>9, <1>14 DEF InStep, Cleared
  <2>2. CASE n # Me.name \/ It.do \notin {"apply", "clear"}
    <3>1. disk'[n].cfg.fc = disk[n].cfg.fc
      BY <1>3, <1>5, <1>10, <2>2
    <3>2. ASSUME NEW s \in Left, s.do = "clear", nodes[s.i].name = n PROVE s \in Rest
      BY <1>7, <2>2, <3>2 DEF Me
    <3> QED
      BY <1>12, <2>1, <3>1, <3>2
  <2>3. CASE n = Me.name /\ It.do = "clear"
    <3>1. disk'[n].cfg.fc = IF disk[n].cfg.fc = It.x.rid THEN None ELSE disk[n].cfg.fc
      BY <1>3, <1>5, <1>9, <2>3 DEF Gets, Me
    <3>2. CASE disk[n].cfg.fc = It.x.rid \/ disk[n].cfg.fc = None
      BY <3>1, <3>2
    <3>3. CASE disk[n].cfg.fc # It.x.rid /\ disk[n].cfg.fc # None
      <4>1. PICK s \in Left : s.do = "clear" /\ nodes[s.i].name = n /\ s.x.rid = disk[n].cfg.fc
        BY <2>1, <3>3
      <4>2. s \in Rest
        BY <1>7, <3>3, <4>1
      <4> QED
        BY <1>12, <3>1, <3>3, <4>1, <4>2
    <3> QED
      BY <3>2, <3>3
  <2>4. CASE It.do = "apply"
    <3>1. It.x \in Ids /\ net.fc = nodes[It.x].name
      BY <1>1, <1>7, <1>10, <2>4, Ahead DEF Timely
    <3> QED
      BY <1>9, <1>10, <1>14, <3>1
  <2> QED
    BY <2>2, <2>3, <2>4
<1>15. ASSUME NEW n \in M, net.fc # None
       PROVE  \/ disk'[n].cfg.fc = IF net.fc = n THEN None ELSE disk'[net.fc].cfg.rid
              \/ \E s \in Left' : s.do = "apply" /\ nodes'[s.i].name = n
  <2>1. \/ disk[n].cfg.fc = IF net.fc = n THEN None ELSE disk[net.fc].cfg.rid
        \/ \E s \in Left : s.do = "apply" /\ nodes[s.i].name = n
    BY <1>1, <1>9, <1>10, <1>15 DEF InStep, Pending
  <2>2. disk'[net.fc].cfg.rid = disk[net.fc].cfg.rid
    BY <1>10, <1>11, <1>15
  <2>3. It.do # "clear"
    BY <1>7, <1>10, <1>15 DEF Timely
  <2>4. CASE n # Me.name \/ It.do # "apply"
    <3>1. disk'[n].cfg.fc = disk[n].cfg.fc
      BY <1>3, <1>5, <1>10, <2>3, <2>4
    <3>2. ASSUME NEW s \in Left, s.do = "apply", nodes[s.i].name = n PROVE s \in Rest
      BY <1>7, <2>4, <3>2 DEF Me
    <3> QED
      BY <1>12, <2>1, <2>2, <3>1, <3>2
  <2>5. CASE n = Me.name /\ It.do = "apply"
    <3>1. It.x \in Ids /\ net.fc = nodes[It.x].name /\ It.i # It.x
      BY <1>1, <1>7, <1>10, <2>5, Ahead DEF Timely
    <3>2. net.fc # n
      BY <1>1, <1>3, <2>5, <3>1, Distinct DEF Me
    <3>3. nodes[It.x].up /\ disk'[n].cfg.fc = nodes[It.x].rid
      BY <1>3, <1>5, <2>5 DEF Gets
    <3>4. nodes[It.x].rid = disk[net.fc].cfg.rid
      BY <1>9, <3>1, <3>3
    <3> QED
      BY <2>2, <3>2, <3>3, <3>4
  <2> QED
    BY <2>4, <2>5
<1>16. \A n \in M : Whole(n)'
  BY <1>13 DEF Whole
<1>17. ASSUME NEW n \in M PROVE InStep(n)'
  <2>1. net.fc # None => ~Leaving(net.fc)'
    BY <1>8 DEF Leaving
  <2> QED
    BY <1>1, <1>8, <1>14, <1>15, <2>1 DEF InStep, Cleared, Pending, RidOf
<1>18. ASSUME NEW i \in Ids, nodes'[i].up PROVE Kept(i)'
  <2>1. CASE i = It.i
    <3>1. nodes'[i] = o /\ disk'[nodes'[i].name] = d
      BY <1>3, <2>1 DEF Me
    <3> QED
      BY <1>4, <1>18, <3>1 DEF Kept, Config
  <2>2. CASE i # It.i
    <3>1. nodes[i].name # Me.name /\ nodes[i].name \in Names
      BY <1>1, <1>3, <1>9, <1>10, <2>2, Distinct DEF Me
    <3>2. nodes'[i] = nodes[i] /\ disk'[nodes'[i].name] = disk[nodes[i].name]
      BY <1>3, <2>2, <3>1
    <3> QED
      BY <1>9, <1>18, <3>2 DEF Kept, Config
  <2> QED
    BY <2>1, <2>2
<1>19. ~Adding'
  <2>1. \A s \in Left' : s.do # "add"
    BY <1>3, <1>6, <1>7 DEF Adding
  <2> QED
    BY <2>1 DEF Adding
<1>20. ASSUME NEW s \in Left' PROVE Timely(s)'
  <2>1. CASE s \in Rest
    <3>1. Timely(s) /\ s.do \notin {"mkdir", "key", "save", "wipekey"} /\ s.i \in Ids /\ (s.do = "apply" => s.x \in Ids)
      BY <1>7, <1>9, <1>10, <2>1
    <3>2. s.do = "apply" => nodes'[s.x].name = nodes[s.x].name
      BY <1>3, <3>1
    <3> QED
      BY <1>1, <1>8, <3>1, <3>2 DEF Timely
  <2>2. CASE s \in ToSet(p)
    <3>1. s.do = "apply" /\ s.x \in Ids /\ nodes[s.x].name = net.fc /\ s.i # s.x
      BY <1>6, <2>2, Resolved
    <3>2. nodes'[s.x].name = nodes[s.x].name
      BY <1>3, <3>1
    <3> QED
      BY <1>1, <1>8, <3>1, <3>2 DEF Timely
  <2> QED
    BY <1>3, <2>1, <2>2
<1> QED
  BY <1>1, <1>3, <1>10, <1>16, <1>17, <1>18, <1>19, <1>20 DEF AgreeInv

(* A directory goes: the node goes next, and memory has its identity.      *)
LEMMA AgreeRmDir ==
  ASSUME TypeInv, ReadInv, AgreeInv, NEW o, NEW d, NEW p, Done(o, d, p), It.do = "rmdir", ~spoilt'
  PROVE  AgreeInv'
<1> DEFINE M == ToSet(net.names)
           r == Step("remove", It.i, None)
<1>1. /\ open /\ open' /\ todo # <<>> /\ ~spoilt /\ net' = net /\ ~At("remove") /\ ~At("unset") /\ Moves(o, d, p)
      /\ o = Me /\ d = None /\ p = <<>>
  BY DEF Done, Moves, Turn, Gets, At, It
<1>2. /\ Ids' = Ids /\ It.i \in Ids /\ Me.name \in Names
      /\ \A i \in Ids : nodes'[i] = nodes[i]
      /\ disk'[Me.name] = None
      /\ \A n \in Names : n # Me.name => disk'[n] = disk[n]
      /\ todo' = Tail(todo)
  BY <1>1, Moved DEF Me
<1>3. /\ Left = {It} \union Rest /\ Shaped(Tail(todo)) /\ Tail(todo) \in Seq(Work(Len(nodes)))
      /\ Tail(todo) # <<>> /\ Head(Tail(todo)) = r
      /\ r.do = "remove" /\ r.i = It.i
  BY <1>1, Ahead, Steps2
<1> HIDE DEF r
<1>4. Rest = {r}
  <2> DEFINE t == Tail(todo)
             W == Work(Len(nodes))
  <2>1. PICK n \in Nat : n = Len(t)
    BY <1>3, LenProperties
  <2>2. t \in Seq(W)
    BY <1>3
  <2>3. \A k \in 1..n : t[k].do \in Closers => k = n
    BY <1>3, <2>1 DEF Shaped
  <2> HIDE DEF t, W
  <2>4. t # <<>> /\ Head(t) = r
    BY <1>3 DEF t
  <2>5. t[1] = r /\ 1 \in 1..n
    BY <2>1, <2>2, <2>4, Elements
  <2>6. n = 1
    BY <1>3, <2>3, <2>5 DEF Closers
  <2>7. ASSUME NEW x \in ToSet(t) PROVE x = r
    <3>1. PICK k \in 1..Len(t) : t[k] = x
      BY <2>2, <2>7, Elements
    <3>2. k = 1
      BY <2>1, <2>6, <3>1
    <3> QED
      BY <2>5, <3>1, <3>2
  <2>8. r \in ToSet(t)
    BY <2>2, <2>4, Elements
  <2> QED
    BY <2>7, <2>8 DEF Rest, t
<1>5. /\ It' = r /\ Left' = {r} /\ At("remove")' /\ ~At("unset")' /\ Me' = Me
  <2>1. It' = r /\ Left' = {r} /\ todo' # <<>>
    BY <1>2, <1>3, <1>4 DEF It, Left, Rest
  <2> QED
    BY <1>1, <1>2, <1>3, <2>1 DEF At, It, Me
<1>6. ~Adding
  BY <1>3, <1>4 DEF Adding
<1>7. /\ \A n \in M : Whole(n) /\ InStep(n) /\ RidOf(n) = disk[n].cfg.rid
      /\ \A i \in Ids : nodes[i].name \in M /\ (nodes[i].up => Kept(i))
      /\ \A i \in Ids : nodes[i].up => disk[nodes[i].name].cfg.rid = nodes[i].rid
  BY <1>1, <1>6, AgreeHere
<1>8. Me.rid = disk[Me.name].cfg.rid
  <2>1. Exists(It.i) /\ ~Broken(It.i)
    BY <1>2, <1>7, LocalNetworkAssumption DEF Whole, Exists, Broken, Key
  <2>2. ~Has("load", It.i) /\ ~Has("save", It.i)
    BY <1>3, <1>4 DEF Has
  <2>3. Me.up
    BY <1>2, <2>1, <2>2 DEF ReadInv, Me
  <2> QED
    BY <1>2, <1>7, <2>3 DEF Me
<1>9. /\ \A n \in M : n \in Names /\ n # None
      /\ net.fc # None => net.fc \in M
  BY <1>1, Members DEF AgreeInv
<1>10. \A n : Leaving(n)' <=> n = Me.name
  BY <1>5 DEF Leaving
<1>11. net.fc # None => RidOf(net.fc)' = disk[net.fc].cfg.rid
  <2>1. CASE net.fc = Me.name
    BY <1>1, <1>5, <1>8, <1>10, <2>1 DEF RidOf
  <2>2. CASE net.fc # Me.name
    BY <1>1, <1>2, <1>9, <1>10, <2>2 DEF RidOf
  <2> QED
    BY <2>1, <2>2
<1>12. ASSUME NEW n \in M, n # Me.name PROVE Whole(n)' /\ InStep(n)'
  <2>1. disk'[n] = disk[n]
    BY <1>2, <1>9, <1>12
  <2>2. Whole(n)'
    BY <1>7, <2>1 DEF Whole
  <2>3. ~Cleared(n, disk[n].cfg.fc) /\ ~Pending(n)
    BY <1>3, <1>4 DEF Cleared, Pending
  <2>4. disk[n].cfg.fc = IF net.fc = None \/ net.fc = n THEN None ELSE disk[net.fc].cfg.rid
    <3>1. net.fc # None => RidOf(net.fc) = disk[net.fc].cfg.rid
      BY <1>7, <1>9
    <3> QED
      BY <1>1, <1>7, <2>3, <3>1 DEF InStep
  <2>5. InStep(n)'
    BY <1>1, <1>5, <1>11, <2>1, <2>4 DEF InStep
  <2> QED
    BY <2>2, <2>5
<1>13. ASSUME NEW i \in Ids, nodes'[i].up PROVE nodes'[i].name = Me.name \/ Kept(i)'
  <2>1. CASE nodes[i].name = Me.name
    BY <1>2, <2>1
  <2>2. CASE nodes[i].name # Me.name
    <3>1. nodes'[i] = nodes[i] /\ disk'[nodes'[i].name] = disk[nodes[i].name]
      BY <1>2, <1>7, <1>9, <2>2
    <3> QED
      BY <1>7, <1>13, <3>1 DEF Kept, Config
  <2> QED
    BY <2>1, <2>2
<1>14. ~Adding' /\ \A s \in Left' : Timely(s)'
  BY <1>3, <1>5 DEF Adding, Timely
<1> QED
  BY <1>1, <1>2, <1>9, <1>10, <1>12, <1>13, <1>14 DEF AgreeInv

(* A node that is being made: no other node sees it.                       *)
LEMMA AgreeJoining ==
  ASSUME TypeInv, AgreeInv, TypeInv', NEW o, NEW d, NEW p, Done(o, d, p), Adding, ~spoilt'
  PROVE  AgreeInv'
<1> DEFINE M == ToSet(net.names)
           i == Len(nodes)
           D == disk[nodes[i].name]
           a == Step("add", i, None)
           l == Step("load", i, None)
           k == Step("key", i, None)
           s == Step("save", i, None)
           b == Step("mkdir", i, None)
<1>1. /\ open /\ open' /\ todo # <<>> /\ It.do # "add" /\ ~spoilt /\ net' = net /\ Moves(o, d, p) /\ Turn(o, d, p)
      /\ todo' = p \o Tail(todo) /\ p \in Seq(Work(Len(nodes)))
  BY DEF Done, Moves
<1>2. /\ Ids' = Ids /\ Len(nodes') = i /\ It.i \in Ids /\ nodes'[It.i] = o
      /\ \A j \in Ids : j # It.i => nodes'[j] = nodes[j]
      /\ \A j \in Ids : nodes'[j].name = nodes[j].name
      /\ disk'[Me.name] = d
      /\ \A n \in Names : n # Me.name => disk'[n] = disk[n]
      /\ p = <<>> => todo' = Tail(todo)
  BY <1>1, Moved
<1>3. /\ i \in Ids /\ nodes[i].name \notin M
      /\ \A j \in Ids : j # i => nodes[j].name \in M
      /\ \A n \in M : n \in Names /\ n # None
  BY <1>1, Members
<1>4. /\ a.do = "add" /\ a.i = i /\ l.do = "load" /\ l.i = i /\ k.do = "key" /\ k.i = i
      /\ s.do = "save" /\ s.i = i /\ b.do = "mkdir" /\ b.i = i
  BY Steps2
<1>5. /\ nodes[i].fc = None
      /\ \/ todo = <<b, l, a>> /\ ~nodes[i].up
         \/ todo = <<l, a>> /\ ~nodes[i].up /\ D = Empty
         \/ todo = <<k, s, a>> /\ ~nodes[i].up /\ D # None
         \/ todo = <<s, a>> /\ ~nodes[i].up /\ D # None /\ D.key \in Key \ {None}
         \/ todo = <<a>>
  BY <1>1 DEF AgreeInv, Joining
<1> HIDE DEF a, l, k, s, b
<1>6. It.i = i /\ Me = nodes[i] /\ It.do \in {"mkdir", "load", "key", "save"}
  <2>1. It \in {a, l, k, s, b}
    BY <1>5 DEF It
  <2> QED
    BY <1>1, <1>4, <2>1 DEF Me
<1>7. Me \in Obj /\ D \in Dir \union {None} /\ (Exists(It.i) <=> D # None) /\ keys \in 0..MaxKeys
  BY <1>1, <1>6, Here
<1>8. \A x \in Left : x.do \in {"mkdir", "load", "key", "save", "add"}
  <2>1. todo[1] \in {a, l, k, s, b} /\ \A x \in Left : x \in {a, l, k, s, b}
    <3>1. /\ ToSet(<<b, l, a>>) = {b, l, a} /\ ToSet(<<k, s, a>>) = {k, s, a}
          /\ ToSet(<<l, a>>) = {l, a} /\ ToSet(<<s, a>>) = {s, a} /\ ToSet(<<a>>) = {a}
      BY DEF ToSet
    <3> QED
      BY <1>5, <3>1 DEF Left
  <2> QED
    BY <1>4, <2>1
<1>9. Joining'
  <2>1. nodes'[i] = o /\ disk'[nodes'[i].name] = d /\ o.name = Me.name
    BY <1>1, <1>2, <1>3, <1>6 DEF Moves
  <2>2. SUFFICES /\ o.fc = None
                 /\ \/ todo' = <<l, a>> /\ ~o.up /\ d = Empty
                    \/ todo' = <<k, s, a>> /\ ~o.up /\ d # None
                    \/ todo' = <<s, a>> /\ ~o.up /\ d # None /\ d.key \in Key \ {None}
                    \/ todo' = <<a>> /\ o.up /\ d # None /\ d.cfg \in Cfg /\ d.key \in Key \ {None}
    BY <1>2, <2>1 DEF Joining, Whole, a, l, k, s, b
  <2>3. CASE todo = <<b, l, a>> /\ ~Me.up
    <3>1. It.do = "mkdir" /\ Tail(todo) = <<l, a>>
      BY <1>4, <2>3 DEF It
    <3>2. o = Me /\ d = Empty /\ todo' = <<l, a>>
      BY <1>1, <1>2, <3>1 DEF Turn, Gets
    <3> QED
      BY <1>5, <1>6, <2>3, <3>2
  <2>4. CASE todo = <<l, a>> /\ ~Me.up /\ D = Empty
    <3>1. It.do = "load" /\ Tail(todo) = <<a>>
      BY <1>4, <2>4 DEF It
    <3>2. /\ Empty.cfg = None /\ Empty.key = None /\ Empty # None /\ None # Torn /\ Config(Node(Me.name)).fc = None
          /\ Empty \in Dir
      BY <1>2, <1>3, <1>6, <1>7, Blank, LocalNetworkAssumption DEF Obj
    <3>3. o = Loaded(D) /\ d = D /\ p = Pair("key", "save", i)
      BY <1>1, <1>6, <2>4, <3>1, <3>2 DEF Turn, Gets
    <3>4. o.fc = None /\ ~o.up
      BY <1>7, <2>4, <3>2, <3>3 DEF Loaded, Obj
    <3>5. todo' = <<k, s, a>>
      BY <1>1, <3>1, <3>3, TwoAndOne DEF Pair, k, s
    <3> QED
      BY <2>4, <3>2, <3>3, <3>4, <3>5
  <2>5. CASE todo = <<k, s, a>> /\ ~Me.up
    <3>1. It.do = "key" /\ Tail(todo) = <<s, a>>
      BY <1>4, <2>5 DEF It
    <3>2. D \in Dir /\ o = [Me EXCEPT !.key = keys + 1, !.rid = keys + 1] /\ d = [D EXCEPT !.key = keys + 1] /\ p = <<>> /\ keys < MaxKeys
      BY <1>1, <1>6, <3>1 DEF Turn, Gets
    <3>3. keys + 1 \in Key \ {None} /\ keys + 1 \in Key
      BY <1>7, <3>2, LocalNetworkAssumption DEF Key
    <3>4. o.fc = Me.fc /\ o.up = Me.up /\ d.key = keys + 1
      BY <1>7, <3>2 DEF Obj, Dir
    <3>5. d # None
      BY <3>2, <3>3, DirParts
    <3> QED
      BY <1>2, <1>5, <1>6, <2>5, <3>1, <3>2, <3>3, <3>4, <3>5
  <2>6. CASE todo = <<s, a>> /\ D # None /\ D.key \in Key \ {None}
    <3>1. It.do = "save" /\ Tail(todo) = <<a>>
      BY <1>4, <2>6 DEF It
    <3>2. D \in Dir /\ o = [Me EXCEPT !.up = TRUE] /\ d = [D EXCEPT !.cfg = Config(Me)] /\ p = <<>>
      BY <1>1, <1>6, <3>1 DEF Turn, Gets
    <3>3. Config(Me) \in Cfg
      BY <1>7 DEF Obj, Config, Cfg
    <3>4. o.fc = Me.fc /\ o.up /\ d.key = D.key /\ d.cfg = Config(Me)
      BY <1>7, <3>2 DEF Obj, Dir
    <3>5. d # None
      BY <3>2, <3>3, DirParts
    <3> QED
      BY <1>2, <1>5, <1>6, <2>6, <3>1, <3>2, <3>3, <3>4, <3>5
  <2>7. todo # <<a>>
    BY <1>1, <1>4 DEF It
  <2> QED
    BY <1>5, <1>6, <2>3, <2>4, <2>5, <2>6, <2>7
<1>10. o.up => d.cfg = Config(o)
  <2>1. CASE It.do = "save"
    <3>1. D \in Dir /\ o = [Me EXCEPT !.up = TRUE] /\ d = [D EXCEPT !.cfg = Config(Me)]
      BY <1>1, <1>6, <2>1 DEF Turn, Gets
    <3>2. d.cfg = Config(Me) /\ Config(o) = Config(Me)
      BY <1>7, <3>1 DEF Dir, Config, Obj
    <3> QED
      BY <3>2
  <2>2. CASE It.do # "save"
    <3>1. ~Me.up
      BY <1>4, <1>5, <1>6, <2>2 DEF It
    <3>2. CASE It.do = "mkdir"
      BY <1>1, <3>1, <3>2 DEF Turn, Gets
    <3>3. CASE It.do = "key"
      <4>1. o = [Me EXCEPT !.key = keys + 1, !.rid = keys + 1]
        BY <1>1, <3>3 DEF Turn, Gets
      <4>2. o.up = Me.up
        BY <1>7, <4>1 DEF Obj
      <4> QED
        BY <3>1, <4>2
    <3>4. CASE It.do = "load"
      <4>1. D = Empty
        BY <1>4, <1>5, <1>6, <3>4 DEF It
      <4>2. Empty.key = None
        BY DEF Empty
      <4>3. o = Me \/ o = Loaded(D)
        BY <1>1, <1>6, <3>4 DEF Turn, Gets
      <4>4. ~o.up
        BY <1>7, <3>1, <4>1, <4>2, <4>3 DEF Loaded, Obj
      <4> QED
        BY <4>4
    <3> QED
      BY <1>6, <2>2, <3>2, <3>3, <3>4
  <2> QED
    BY <2>1, <2>2
<1>11. \A x \in Left' : x.do \in {"mkdir", "load", "key", "save", "add"}
  <2>1. todo' \in {<<b, l, a>>, <<l, a>>, <<k, s, a>>, <<s, a>>, <<a>>}
    BY <1>2, <1>9 DEF Joining, a, l, k, s, b
  <2>2. /\ ToSet(<<b, l, a>>) = {b, l, a} /\ ToSet(<<k, s, a>>) = {k, s, a}
        /\ ToSet(<<l, a>>) = {l, a} /\ ToSet(<<s, a>>) = {s, a} /\ ToSet(<<a>>) = {a}
    BY DEF ToSet
  <2>3. Left' \subseteq {a, l, k, s, b}
    BY <2>1, <2>2 DEF Left
  <2> QED
    BY <1>4, <2>3
<1>12. Adding'
  <2>1. /\ a \in ToSet(<<b, l, a>>) /\ a \in ToSet(<<k, s, a>>)
        /\ a \in ToSet(<<l, a>>) /\ a \in ToSet(<<s, a>>) /\ a \in ToSet(<<a>>)
    BY DEF ToSet
  <2>2. todo' \in {<<b, l, a>>, <<l, a>>, <<k, s, a>>, <<s, a>>, <<a>>}
    BY <1>2, <1>9 DEF Joining, a, l, k, s, b
  <2>3. a \in Left'
    BY <2>1, <2>2 DEF Left
  <2> QED
    BY <1>4, <2>3 DEF Adding
<1>13. ~At("unset") /\ ~At("remove") /\ ~At("unset")' /\ ~At("remove")'
  <2>1. ~At("unset") /\ ~At("remove")
    BY <1>6 DEF At, It
  <2>2. \A x \in Left' : x.do # "unset" /\ x.do # "remove"
    BY <1>11
  <2> QED
    BY <2>1, <2>2, NotNext
<1>14. \A n \in M : disk'[n] = disk[n]
  BY <1>2, <1>3, <1>6
<1>15. net.fc # None => net.fc \in M
  BY <1>1, <1>13 DEF AgreeInv
<1>16. ASSUME NEW n \in M PROVE Whole(n)' /\ InStep(n)'
  <2>1. Whole(n) /\ InStep(n)
    BY <1>1, <1>13 DEF AgreeInv, Leaving
  <2>2. ~Cleared(n, disk[n].cfg.fc) /\ ~Pending(n)
    BY <1>8 DEF Cleared, Pending
  <2>3. disk[n].cfg.fc = IF net.fc = None \/ net.fc = n THEN None ELSE disk[net.fc].cfg.rid
    BY <1>13, <2>1, <2>2 DEF InStep, RidOf, Leaving
  <2>4. disk'[n] = disk[n] /\ (net.fc # None => disk'[net.fc] = disk[net.fc])
    BY <1>14, <1>15
  <2>5. Whole(n)'
    BY <2>1, <2>4 DEF Whole
  <2>6. InStep(n)'
    BY <1>1, <1>13, <2>3, <2>4 DEF InStep, RidOf, Leaving
  <2> QED
    BY <2>5, <2>6
<1>17. ASSUME NEW j \in Ids, nodes'[j].up PROVE Kept(j)'
  <2>1. CASE j = i
    <3>1. nodes'[j] = o /\ disk'[nodes'[j].name] = d
      BY <1>2, <1>3, <1>6, <2>1
    <3> QED
      BY <1>10, <1>17, <3>1 DEF Kept, Config
  <2>2. CASE j # i
    <3>1. nodes'[j] = nodes[j] /\ disk'[nodes'[j].name] = disk[nodes[j].name]
      BY <1>2, <1>3, <1>6, <1>14, <2>2
    <3>2. Kept(j)
      BY <1>1, <1>13, <1>17, <3>1 DEF AgreeInv, Leaving
    <3> QED
      BY <3>1, <3>2 DEF Kept, Config
  <2> QED
    BY <2>1, <2>2
<1>18. \A x \in Left' : Timely(x)'
  BY <1>11, <1>12 DEF Timely
<1> QED
  BY <1>1, <1>2, <1>9, <1>15, <1>16, <1>17, <1>18 DEF AgreeInv

LEMMA AgreeUnset ==
  ASSUME TypeInv, AgreeInv, UnsetContact, ~spoilt'
  PROVE  AgreeInv'
<1> DEFINE M == ToSet(net.names)
<1>1. /\ open /\ open' /\ todo # <<>> /\ It.do = "unset" /\ At("unset") /\ ~At("remove") /\ ~spoilt
      /\ nodes' = nodes /\ disk' = disk /\ Ids' = Ids /\ net'.fc = None /\ net'.names = net.names
  <2>1. net \in [fc : Names \union {None}, names : Seq(Names)]
    BY DEF TypeInv, Typed
  <2> QED
    BY <2>1 DEF UnsetContact, At, It, Ids
<1>2. /\ TypeInv' /\ Left' = {Step("clear", i, It.x) : i \in Ids} \union Rest
  BY TypeUnset
<1>3. /\ Left = {It} \union Rest
      /\ \A s \in Rest : s.do \notin Openers /\ s.do # "save" /\ s.do # "remove"
  BY <1>1, Ahead
<1>4. \A s \in Rest : s.do # "apply" /\ (s.do = "clear" => net.fc = None)
  BY <1>1, <1>3 DEF AgreeInv, Timely
<1>5. \A i \in Ids : /\ Step("clear", i, It.x) \in Left' /\ Step("clear", i, It.x).do = "clear"
                     /\ Step("clear", i, It.x).i = i /\ Step("clear", i, It.x).x = It.x
  BY <1>2, Steps2
<1>6. \A s \in Left' : s.do = "clear" \/ s \in Rest
  BY <1>2, Steps2
<1>7. ~At("unset")' /\ ~At("remove")'
  <2>1. \A s \in Left' : s.do # "unset" /\ s.do # "remove"
    BY <1>3, <1>6 DEF Openers
  <2> QED
    BY <1>2, <2>1, NotNext
<1>8. ~Adding
  <2>1. ASSUME Adding PROVE FALSE
    <3>1. Joining
      BY <1>1, <2>1 DEF AgreeInv
    <3>2. It.do # "unset"
      BY <3>1, Steps2 DEF Joining, It
    <3> QED
      BY <1>1, <3>2
  <2> QED
    BY <2>1
<1>9. /\ \A n \in M : Whole(n) /\ InStep(n)
      /\ \A i \in Ids : nodes[i].up => Kept(i)
      /\ \A s \in Left : s.do \notin {"mkdir", "key", "save", "wipekey"}
  BY <1>1, <1>8, AgreeHere
<1>10. \A n \in M : \E i \in Ids : nodes[i].name = n
  BY <1>1, Members
<1>11. ASSUME NEW n \in M PROVE Whole(n)' /\ InStep(n)'
  <2>1. disk[n].cfg.fc \in {None, It.x.rid}
    BY <1>1, <1>9 DEF InStep
  <2>2. PICK i \in Ids : nodes[i].name = n
    BY <1>10
  <2>3. \E s \in Left' : s.do = "clear" /\ nodes[s.i].name = n /\ s.x.rid = It.x.rid
    BY <1>5, <2>2
  <2>4. InStep(n)'
    BY <1>1, <1>7, <2>1, <2>3 DEF InStep, Cleared
  <2> QED
    BY <1>1, <1>9, <2>4 DEF Whole
<1>12. \A i \in Ids : nodes'[i].up => Kept(i)'
  BY <1>1, <1>9 DEF Kept, Config
<1>13. ~Adding'
  BY <1>3, <1>6, <1>8 DEF Adding
<1>14. ASSUME NEW s \in Left' PROVE Timely(s)'
  BY <1>1, <1>3, <1>4, <1>6, <1>9 DEF Timely
<1> QED
  BY <1>1, <1>11, <1>12, <1>13, <1>14 DEF AgreeInv

LEMMA AgreeSet ==
  ASSUME TypeInv, AgreeInv, SetContact, ~spoilt'
  PROVE  AgreeInv'
<1> DEFINE M == ToSet(net.names)
<1>1. /\ open /\ open' /\ todo # <<>> /\ It.do = "set" /\ ~At("unset") /\ ~At("remove") /\ ~spoilt
      /\ nodes' = nodes /\ disk' = disk /\ Ids' = Ids /\ net'.fc = Me.name /\ net'.names = net.names
  <2>1. net \in [fc : Names \union {None}, names : Seq(Names)]
    BY DEF TypeInv, Typed
  <2> QED
    BY <2>1 DEF SetContact, At, It, Ids
<1>2. TypeInv' /\ Left' = {Step("apply", i, It.i) : i \in Ids \ {It.i}}
  BY TypeSet DEF Left
<1>3. It.i \in Ids /\ It \in Left /\ Left = {It}
  BY <1>1, Ahead DEF Closers
<1>4. \A s \in Left' : s.do = "apply" /\ s.x = It.i /\ s.i \in Ids /\ s.i # It.i
  BY <1>2, Steps2
<1>5. ~At("unset")' /\ ~At("remove")'
  BY <1>2, <1>4, NotNext
<1>6. ~Adding /\ ~Adding'
  BY <1>1, <1>3, <1>4 DEF Adding
<1>7. /\ \A n \in M : Whole(n) /\ InStep(n)
      /\ \A i \in Ids : nodes[i].name \in M /\ (nodes[i].up => Kept(i))
  BY <1>1, <1>6, AgreeHere
<1>8. net.fc = None
  BY <1>1, <1>3 DEF AgreeInv, Timely
<1>9. \A n \in M : n # None /\ \E i \in Ids : nodes[i].name = n
  BY <1>1, Members
<1>10. ASSUME NEW n \in M PROVE Whole(n)' /\ InStep(n)'
  <2>1. disk[n].cfg.fc = None
    BY <1>1, <1>3, <1>7, <1>8 DEF InStep, Cleared
  <2>2. CASE n = Me.name
    BY <1>1, <1>5, <1>7, <1>9, <2>1, <2>2 DEF InStep, Whole
  <2>3. CASE n # Me.name
    <3>1. PICK i \in Ids : nodes[i].name = n
      BY <1>9
    <3>2. i # It.i
      BY <2>3, <3>1 DEF Me
    <3>3. Step("apply", i, It.i) \in Left' /\ Step("apply", i, It.i).do = "apply" /\ Step("apply", i, It.i).i = i
      BY <1>2, <3>2, Steps2
    <3>4. \E s \in Left' : s.do = "apply" /\ nodes'[s.i].name = n
      BY <1>1, <3>1, <3>3
    <3>5. net'.fc # None
      BY <1>1, <1>3, <1>7, <1>9 DEF Me
    <3> QED
      BY <1>1, <1>5, <1>7, <3>4, <3>5 DEF InStep, Whole, Pending
  <2> QED
    BY <2>2, <2>3
<1>11. \A i \in Ids : nodes'[i].up => Kept(i)'
  BY <1>1, <1>7 DEF Kept, Config
<1>12. net'.fc \in M
  BY <1>1, <1>3, <1>7 DEF Me
<1>13. \A s \in Left' : Timely(s)'
  BY <1>1, <1>4, <1>5 DEF Timely, Me
<1> QED
  BY <1>1, <1>6, <1>10, <1>11, <1>12, <1>13 DEF AgreeInv

LEMMA AgreeAddNode ==
  ASSUME TypeInv, AgreeInv, AddNode, ~spoilt'
  PROVE  AgreeInv'
<1> DEFINE M == ToSet(net.names)
<1>1. /\ open /\ open' /\ todo # <<>> /\ It.do = "add" /\ ~At("unset") /\ ~At("remove") /\ ~spoilt
      /\ nodes' = nodes /\ disk' = disk /\ Ids' = Ids
  BY DEF AddNode, At, It, Ids
<1>2. /\ TypeInv' /\ It.i = Len(nodes) /\ Me.name \notin M
      /\ Left' = IF Contact = 0 THEN {} ELSE {Step("apply", It.i, Contact)}
      /\ net' = [net EXCEPT !.names = Append(@, Me.name)]
  BY TypeAddNode
<1>3. It \in Left /\ Left = {It} /\ It.i \in Ids /\ Me.name \in Names
  BY <1>1, Ahead DEF Closers
<1>4. Adding
  BY <1>1, <1>3 DEF Adding
<1>5. Me.fc = None /\ Me.up /\ Whole(Me.name)
  <2>1. Joining
    BY <1>1, <1>4 DEF AgreeInv
  <2> DEFINE i == Len(nodes)
  <2>2. It = Step("add", i, None) => nodes[i].up /\ Whole(nodes[i].name)
    <3>1. Step("mkdir", i, None).do = "mkdir" /\ Step("load", i, None).do = "load" /\ Step("key", i, None).do = "key"
          /\ Step("save", i, None).do = "save" /\ Step("add", i, None).do = "add"
      BY Steps2
    <3> HIDE DEF i
    <3> QED
      BY <1>1, <2>1, <3>1 DEF Joining, It, i
  <2>3. It = Step("add", i, None)
    <3>1. Step("mkdir", i, None).do = "mkdir" /\ Step("load", i, None).do = "load" /\ Step("key", i, None).do = "key"
          /\ Step("save", i, None).do = "save"
      BY Steps2
    <3> QED
      BY <1>1, <2>1, <3>1 DEF Joining, It
  <2> QED
    BY <1>2, <2>1, <2>2, <2>3 DEF Joining, Me
<1>6. net'.fc = net.fc /\ ToSet(net'.names) = M \union {Me.name}
  <2>1. net \in [fc : Names \union {None}, names : Seq(Names)]
    BY DEF TypeInv, Typed
  <2>2. PICK m \in Nat : m = Len(net.names) /\ DOMAIN net.names = 1..m
    BY <2>1, LenProperties
  <2> DEFINE q == Append(net.names, Me.name)
  <2>3. /\ q \in Seq(Names) /\ Len(q) = m + 1 /\ q[m + 1] = Me.name
        /\ \A i \in 1..m : q[i] = net.names[i]
    BY <1>3, <2>1, <2>2, AppendProperties
  <2>4. net'.fc = net.fc /\ net'.names = q
    BY <1>2, <2>1
  <2> HIDE DEF q
  <2>5. DOMAIN q = 1..(m + 1)
    BY <2>3, LenProperties
  <2>6. \A i \in 1..(m + 1) : i \in 1..m \/ i = m + 1
    OBVIOUS
  <2>7. \A i \in 1..m : i \in 1..(m + 1)
    OBVIOUS
  <2>8. m + 1 \in 1..(m + 1)
    OBVIOUS
  <2>9. ToSet(q) \subseteq M \union {Me.name}
    BY <2>2, <2>3, <2>5, <2>6 DEF ToSet
  <2>10. M \subseteq ToSet(q) /\ Me.name \in ToSet(q)
    BY <2>2, <2>3, <2>5, <2>7, <2>8 DEF ToSet
  <2> QED
    BY <2>4, <2>9, <2>10
<1>7. /\ net.fc # None => net.fc \in M
      /\ \A n \in M : Whole(n) /\ InStep(n)
      /\ \A i \in Ids : nodes[i].up => Kept(i)
  BY <1>1 DEF AgreeInv, Leaving
<1>8. /\ \A n \in M : n # None /\ n \in Names /\ \E i \in Ids : nodes[i].name = n
  BY <1>1, Members
<1>9. /\ Contact = 0 => net.fc = None
      /\ Contact # 0 => Contact \in Ids /\ nodes[Contact].name = net.fc /\ net.fc # None
  BY <1>7, <1>8, Resolved DEF Contact
<1>10. \A s \in Left' : s.do = "apply" /\ s.i = It.i /\ s.x = Contact /\ Contact # 0
  BY <1>2, Steps2
<1>11. ~At("unset")' /\ ~At("remove")'
  BY <1>2, <1>10, NotNext
<1>12. ASSUME NEW n \in M PROVE Whole(n)' /\ InStep(n)'
  <2>1. ~Cleared(n, disk[n].cfg.fc) /\ ~Pending(n)
    BY <1>1, <1>3 DEF Cleared, Pending
  <2>2. disk[n].cfg.fc = IF net.fc = None \/ net.fc = n THEN None ELSE disk[net.fc].cfg.rid
    BY <1>1, <1>7, <2>1 DEF InStep, RidOf, Leaving
  <2>3. InStep(n)'
    BY <1>1, <1>6, <1>11, <2>2 DEF InStep, RidOf, Leaving
  <2> QED
    BY <1>1, <1>7, <2>3 DEF Whole
<1>13. ASSUME NEW n, n = Me.name PROVE Whole(n)' /\ InStep(n)'
  <2>1. disk[n].cfg.fc = None
    <3>1. Kept(It.i)
      BY <1>3, <1>5, <1>7 DEF Me
    <3>2. disk[n].cfg = Config(Me) /\ Config(Me).fc = Me.fc
      BY <1>13, <3>1 DEF Kept, Me, Config
    <3> QED
      BY <1>5, <3>2
  <2>2. Whole(n)'
    BY <1>1, <1>5, <1>13 DEF Whole
  <2>3. CASE Contact = 0
    BY <1>1, <1>6, <1>9, <1>11, <2>1, <2>2, <2>3 DEF InStep
  <2>4. CASE Contact # 0
    <3>1. \E s \in Left' : s.do = "apply" /\ nodes'[s.i].name = n
      BY <1>1, <1>2, <1>13, <2>4, Steps2 DEF Me
    <3> QED
      BY <1>1, <1>6, <1>9, <1>11, <2>2, <2>4, <3>1 DEF InStep, Pending
  <2> QED
    BY <2>3, <2>4
<1>14. \A i \in Ids : nodes'[i].up => Kept(i)'
  BY <1>1, <1>7 DEF Kept, Config
<1>15. \A s \in Left' : Timely(s)'
  <2>1. Contact # 0 => Contact # It.i
    BY <1>2, <1>7, <1>9 DEF Me
  <2> QED
    BY <1>1, <1>6, <1>9, <1>10, <1>11, <2>1 DEF Timely
<1>16. ~Adding'
  BY <1>10 DEF Adding
<1> QED
  BY <1>1, <1>6, <1>7, <1>12, <1>13, <1>14, <1>15, <1>16 DEF AgreeInv

LEMMA AgreeRemove ==
  ASSUME TypeInv, AgreeInv, RemoveNode, ~spoilt'
  PROVE  AgreeInv'
<1> DEFINE M == ToSet(net.names)
<1>1. /\ open /\ open' /\ todo # <<>> /\ It.do = "remove" /\ ~At("unset") /\ At("remove") /\ ~spoilt
      /\ disk' = disk /\ net'.fc = net.fc
  <2>1. net \in [fc : Names \union {None}, names : Seq(Names)]
    BY DEF TypeInv, Typed
  <2> QED
    BY <2>1 DEF RemoveNode, At, It
<1>2. /\ TypeInv' /\ It.i \in Ids
      /\ Left' = IF net.fc = Me.name THEN {Step("unset", 0, Me)} ELSE {}
      /\ Len(nodes') = Len(nodes) - 1 /\ nodes' \in Seq(Obj)
      /\ ToSet(net'.names) \subseteq M \ {Me.name}
      /\ todo' = IF net.fc = Me.name THEN <<Step("unset", 0, Me)>> ELSE <<>>
  BY TypeRemove
<1>3. \A j \in Ids' : LET k == IF j < It.i THEN j ELSE j + 1
                      IN  k \in Ids \ {It.i} /\ nodes'[j] = nodes[k]
  BY TypeRemove
<1>4. Left = {It}
  BY <1>1, Ahead DEF Closers
<1>5. ~Adding
  BY <1>1, <1>4 DEF Adding
<1>6. PICK n \in Nat : n = Len(nodes) /\ Ids = 1..n /\ Ids' = 1..(n - 1)
  BY <1>2, Counts, LenProperties DEF TypeInv, Ids
<1>7. Step("unset", 0, Me).do = "unset" /\ Step("unset", 0, Me).x = Me
  BY Steps2
<1>8. ~Adding' /\ ~At("remove")' /\ (At("unset")' <=> net.fc = Me.name) /\ (At("unset")' => It'.x = Me)
  <2>1. \A s \in Left' : s.do = "unset"
    BY <1>2, <1>7
  <2>2. ~Adding' /\ ~At("remove")'
    BY <1>2, <2>1, NotNext DEF Adding
  <2>3. CASE net.fc = Me.name
    <3>1. todo' # <<>> /\ It' = Step("unset", 0, Me)
      BY <1>2, <2>3 DEF It
    <3> QED
      BY <1>1, <1>7, <2>2, <2>3, <3>1 DEF At, It
  <2>4. CASE net.fc # Me.name
    BY <1>2, <2>2, <2>4 DEF At
  <2> QED
    BY <2>3, <2>4
<1>9. /\ \A m \in M : m # Me.name => Whole(m) /\ InStep(m)
      /\ \A i \in Ids : nodes[i].up => nodes[i].name = Me.name \/ Kept(i)
      /\ net.fc # None => net.fc \in M
  BY <1>1 DEF AgreeInv, Leaving
<1>10. /\ \A m \in M : m # None /\ \E i \in Ids : nodes[i].name = m
       /\ Me.name # None
  BY <1>1, <1>2, Members, Counts, LocalNetworkAssumption DEF Me, TypeInv
<1>11. ASSUME NEW i \in Ids, i # It.i PROVE \E j \in Ids' : nodes'[j] = nodes[i]
  <2> DEFINE j == IF i < It.i THEN i ELSE i - 1
  <2>1. j \in Ids' /\ i = IF j < It.i THEN j ELSE j + 1
    BY <1>2, <1>6, <1>11
  <2> HIDE DEF j
  <2> QED
    BY <1>3, <2>1
<1>12. M \ {Me.name} \subseteq ToSet(net'.names)
  <2>1. ASSUME NEW m \in M, m # Me.name PROVE m \in ToSet(net'.names)
    <3>1. PICK i \in Ids : nodes[i].name = m
      BY <1>10
    <3>2. PICK j \in Ids' : nodes'[j].name = m
      <4>1. i # It.i
        BY <2>1, <3>1 DEF Me
      <4> QED
        BY <1>11, <3>1, <4>1
    <3>3. PICK q \in Nat : q = Len(net'.names) /\ DOMAIN net'.names = 1..q
      BY <1>2, LenProperties DEF TypeInv, Typed
    <3>4. q = n - 1 /\ \A k \in 1..q : nodes'[k].name = net'.names[k]
      BY <1>1, <1>2, <1>6, <1>8, <3>3 DEF TypeInv, Listed
    <3>5. net'.names[j] = m /\ j \in DOMAIN net'.names
      BY <1>6, <3>2, <3>3, <3>4
    <3> QED
      BY <3>5 DEF ToSet
  <2> QED
    BY <2>1
<1>13. ASSUME NEW m \in M, m # Me.name PROVE Whole(m)' /\ InStep(m)'
  <2>1. ~Cleared(m, disk[m].cfg.fc) /\ ~Pending(m)
    BY <1>1, <1>4 DEF Cleared, Pending
  <2>2. Whole(m) /\ InStep(m)
    BY <1>9, <1>13
  <2>3. CASE net.fc = Me.name
    <3>1. disk[m].cfg.fc = Me.rid
      BY <1>1, <1>9, <1>10, <1>13, <2>1, <2>2, <2>3 DEF InStep, RidOf, Leaving
    <3>2. InStep(m)'
      BY <1>1, <1>8, <2>3, <3>1 DEF InStep
    <3> QED
      BY <1>1, <2>2, <3>2 DEF Whole
  <2>4. CASE net.fc # Me.name
    <3>1. disk[m].cfg.fc = IF net.fc = None \/ net.fc = m THEN None ELSE disk[net.fc].cfg.rid
      BY <1>1, <2>1, <2>2, <2>4 DEF InStep, RidOf, Leaving
    <3>2. InStep(m)'
      BY <1>1, <1>8, <2>4, <3>1 DEF InStep, RidOf, Leaving
    <3> QED
      BY <1>1, <2>2, <3>2 DEF Whole
  <2> QED
    BY <2>3, <2>4
<1>14. ASSUME NEW j \in Ids', nodes'[j].up PROVE Kept(j)'
  <2>1. PICK i \in Ids \ {It.i} : nodes'[j] = nodes[i]
    BY <1>3
  <2>2. nodes[i].name # Me.name
    BY <1>1, <1>2, <2>1, Distinct DEF Me
  <2>3. Kept(i)
    BY <1>9, <1>14, <2>1, <2>2
  <2> QED
    BY <1>1, <2>1, <2>3 DEF Kept, Config
<1>15. net'.fc # None => net'.fc \in ToSet(net'.names) \/ At("unset")'
  BY <1>1, <1>8, <1>9, <1>12
<1>16. \A s \in Left' : Timely(s)'
  BY <1>2, <1>7 DEF Timely
<1> QED
  BY <1>1, <1>2, <1>8, <1>13, <1>14, <1>15, <1>16 DEF AgreeInv

(* Between commands every node of the list is initialized and in step.     *)
LEMMA AgreeIdle ==
  ASSUME TypeInv, ReadInv, AgreeInv, Idle, ~spoilt
  PROVE  /\ \A i \in Ids : Exists(i) /\ nodes[i].up /\ Kept(i) /\ Whole(nodes[i].name) /\ nodes[i].name \in ToSet(net.names)
         /\ \A n \in ToSet(net.names) :
              /\ Whole(n) /\ n # None /\ \E i \in Ids : nodes[i].name = n
              /\ disk[n].cfg.fc = IF net.fc \in {None, n} THEN None ELSE disk[net.fc].cfg.rid
         /\ net.fc = None <=> Contact = 0
         /\ net.fc # None => net.fc \in ToSet(net.names) /\ disk[net.fc].cfg.rid = nodes[Contact].rid
<1> DEFINE M == ToSet(net.names)
<1>1. open /\ todo = <<>> /\ Left = {} /\ ~Adding /\ (\A do : ~At(do))
  BY Singles DEF Idle, Left, Adding, At
<1>2. /\ \A n \in M : Whole(n) /\ InStep(n)
      /\ \A i \in Ids : nodes[i].name \in M /\ (nodes[i].up => Kept(i))
      /\ \A i \in Ids : nodes[i].up => disk[nodes[i].name].cfg.rid = nodes[i].rid
  BY <1>1, AgreeHere
<1>3. ASSUME NEW i \in Ids PROVE Exists(i) /\ nodes[i].up
  <2>1. Exists(i) /\ ~Broken(i)
    BY <1>2, LocalNetworkAssumption DEF Whole, Exists, Broken, Key
  <2> QED
    BY <1>1, <2>1 DEF ReadInv, Has
<1>4. \A n \in M : n # None /\ \E i \in Ids : nodes[i].name = n
  BY <1>1, Members
<1>5. net.fc # None => net.fc \in M
  BY <1>1 DEF AgreeInv
<1>6. ASSUME NEW n \in M PROVE disk[n].cfg.fc = IF net.fc \in {None, n} THEN None ELSE disk[net.fc].cfg.rid
  BY <1>1, <1>2 DEF InStep, Cleared, Pending, RidOf, Leaving
<1>7. /\ Contact # 0 => Contact \in Ids /\ nodes[Contact].name = net.fc /\ net.fc # None
      /\ net.fc # None => Contact # 0
  BY <1>4, <1>5, Resolved DEF Contact
<1> QED
  BY <1>2, <1>3, <1>4, <1>5, <1>6, <1>7

LEMMA AgreeOrdered ==
  ASSUME TypeInv, ReadInv, AgreeInv, TypeInv', NEW steps, Ordered(steps), ~spoilt'
  PROVE  AgreeInv'
<1> DEFINE M == ToSet(net.names)
<1>1. /\ Idle /\ open /\ open' /\ ~spoilt /\ nodes' = nodes /\ disk' = disk /\ net' = net /\ Ids' = Ids
      /\ todo' = steps /\ Left' = ToSet(steps) /\ steps \in Seq(Work(Len(nodes)))
      /\ \A s \in ToSet(steps) : s.do \notin {"add", "key", "save", "wipekey"}
  <2>1. PICK sync \in BOOLEAN : Do(sync, steps)
    BY DEF Ordered
  <2>2. Idle /\ Orders(steps)
    BY DEF Ordered
  <2> QED
    BY <2>1, <2>2 DEF Orders, Do, Idle, Left, Ids
<1>2. /\ \A i \in Ids : Exists(i) /\ nodes[i].up /\ Kept(i)
      /\ \A n \in M : /\ Whole(n) /\ n # None
                      /\ disk[n].cfg.fc = IF net.fc \in {None, n} THEN None ELSE disk[net.fc].cfg.rid
      /\ net.fc = None <=> Contact = 0
      /\ net.fc # None => net.fc \in M /\ disk[net.fc].cfg.rid = nodes[Contact].rid
  BY <1>1, AgreeIdle
<1>3. /\ \A s \in Left' : s.do \notin {"apply", "clear", "mkdir"}
      /\ \A s \in Left' : s.do = "set" => At("unset")' \/ net.fc = None
      /\ ~At("remove")'
      /\ At("unset")' => Contact # 0 /\ It'.x = nodes[Contact]
  <2> DEFINE P == /\ \A s \in ToSet(steps) : s.do \notin {"apply", "clear", "mkdir"}
                  /\ \A s \in ToSet(steps) : s.do = "set" => (steps # <<>> /\ Head(steps).do = "unset") \/ net.fc = None
                  /\ steps # <<>> /\ Head(steps).do = "remove" => FALSE
                  /\ steps # <<>> /\ Head(steps).do = "unset" => Contact # 0 /\ Head(steps).x = nodes[Contact]
  <2>1. steps # <<>> => Head(steps) \in ToSet(steps)
    BY <1>1, Elements
  <2>2. ASSUME steps = Visits PROVE P
    <3>1. Contact # 0 => Contact \in Ids
      BY Resolved
    <3>2. ToSet(steps) = {Step("visit", i, None) : i \in Ids}
      BY <1>2, <2>2, <3>1, OrderSync
    <3>3. \A s \in ToSet(steps) : s.do = "visit"
      BY <3>2, Steps2
    <3> QED
      BY <2>1, <3>3
  <2>3. ASSUME Contact # 0, steps = <<Step("unset", 0, nodes[Contact])>> PROVE P
    <3>1. ToSet(steps) = {Step("unset", 0, nodes[Contact])}
      BY <2>3, OrderUnset
    <3>2. \A s \in ToSet(steps) : s.do = "unset" /\ s.x = nodes[Contact]
      BY <3>1, Steps2
    <3> QED
      BY <2>1, <2>3, <3>2
  <2>4. ASSUME NEW i \in Ids, steps = Resets(i) PROVE P
    <3>1. ToSet(steps) = {Step("set", i, None)} \union IF Contact = 0 THEN {} ELSE {Step("unset", 0, nodes[Contact])}
      BY <2>4, OrderSet
    <3>2. \A s \in ToSet(steps) : s.do = "set" \/ (s.do = "unset" /\ s.x = nodes[Contact] /\ Contact # 0)
      BY <3>1, Steps2
    <3>3. CASE Contact = 0
      BY <1>2, <2>1, <3>2, <3>3
    <3>4. CASE Contact # 0
      <4> DEFINE u == <<Step("unset", 0, nodes[Contact])>>
                 r == One("set", i)
                 W == Work(Len(nodes))
      <4>1. u \in Seq(W) /\ r \in Seq(W)
        <5>1. Orders(u)
          BY <3>4, OrderUnset
        <5>2. Orders(r)
          BY OrderOne DEF Verbs
        <5> QED
          BY <5>1, <5>2 DEF Orders
      <4>2. u # <<>> /\ u[1] = Step("unset", 0, nodes[Contact])
        OBVIOUS
      <4>3. steps = u \o r
        BY <2>4, <3>4 DEF Resets
      <4> HIDE DEF u, r, W
      <4>4. steps # <<>> /\ Head(steps) = Step("unset", 0, nodes[Contact])
        BY <4>1, <4>2, <4>3, Joined
      <4>5. Head(steps).do = "unset"
        BY <4>4, Steps2
      <4> QED
        BY <2>1, <3>2, <4>4, <4>5
    <3> QED
      BY <3>3, <3>4
  <2>5. ASSUME NEW i \in Ids, steps = Pair("rmdir", "remove", i) PROVE P
    <3>1. ToSet(steps) = {Step("rmdir", i, None), Step("remove", i, None)} /\ Head(steps) = Step("rmdir", i, None)
      BY <2>5, PairIs DEF Pair
    <3> QED
      BY <3>1, Steps2
  <2>6. ASSUME NEW i \in Ids, steps = One("load", i) PROVE P
    <3>1. ToSet(steps) = {Step("load", i, None)}
      BY <2>6, OneIs
    <3>2. \A s \in ToSet(steps) : s.do = "load"
      BY <3>1, Steps2
    <3> QED
      BY <2>1, <3>2
  <2>7. ASSUME \A s \in ToSet(steps) : s.do \in {"wipe", "wipeall", "start", "stop"} PROVE P
    BY <2>1, <2>7
  <2>8. P
    <3>1. steps = Visits \/ Given(steps)
      BY DEF Ordered
    <3> QED
      BY <1>2, <2>2, <2>3, <2>4, <2>5, <2>6, <2>7, <3>1 DEF Given
  <2> QED
    BY <1>1, <2>8 DEF At, It
<1>4. ~Adding'
  BY <1>1 DEF Adding
<1>5. ASSUME NEW n \in M PROVE Whole(n)' /\ InStep(n)'
  <2>1. disk[n].cfg.fc = IF net.fc \in {None, n} THEN None ELSE disk[net.fc].cfg.rid
    BY <1>2
  <2>2. CASE At("unset")'
    <3>1. disk[n].cfg.fc \in {None, It'.x.rid}
      BY <1>2, <1>3, <2>1, <2>2
    <3> QED
      BY <1>1, <1>2, <2>2, <3>1 DEF Whole, InStep
  <2>3. CASE ~At("unset")'
    BY <1>1, <1>2, <1>3, <2>1, <2>3 DEF Whole, InStep, RidOf, Leaving
  <2> QED
    BY <2>2, <2>3
<1>6. \A i \in Ids : nodes'[i].up => Kept(i)'
  BY <1>1, <1>2 DEF Kept, Config
<1>7. \A s \in Left' : Timely(s)'
  BY <1>1, <1>3 DEF Timely
<1> QED
  BY <1>1, <1>2, <1>4, <1>5, <1>6, <1>7 DEF AgreeInv

LEMMA AgreeOpen ==
  ASSUME TypeInv, AgreeInv, Open, ~spoilt'
  PROVE  AgreeInv'
<1> DEFINE M == ToSet(net.names)
<1>1. /\ ~open /\ open' /\ ~spoilt /\ todo = <<>> /\ Left = {} /\ (\A do : ~At(do)) /\ disk' = disk /\ net' = net
  BY Singles DEF Open, TypeInv, Typed, At, Left
<1>2. /\ TypeInv'
      /\ \A i \in Ids' : ~nodes'[i].up
      /\ \A s \in Left' : s.do = "load"
  BY TypeOpen, Blank, Steps2
<1>3. ~At("unset")' /\ ~At("remove")' /\ ~Adding'
  BY <1>2, NotNext DEF Adding
<1>4. ASSUME NEW n \in M PROVE Whole(n)' /\ InStep(n)'
  <2>1. Whole(n) /\ InStep(n)
    BY <1>1 DEF AgreeInv, Leaving
  <2>2. disk[n].cfg.fc = IF net.fc = None \/ net.fc = n THEN None ELSE disk[net.fc].cfg.rid
    BY <1>1, <2>1 DEF InStep, Cleared, Pending, RidOf, Leaving
  <2> QED
    BY <1>1, <1>3, <2>1, <2>2 DEF Whole, InStep, RidOf, Leaving
<1>5. net.fc # None => net.fc \in M
  BY <1>1 DEF AgreeInv
<1>6. \A s \in Left' : Timely(s)'
  BY <1>2 DEF Timely
<1> QED
  BY <1>1, <1>2, <1>3, <1>4, <1>5, <1>6 DEF AgreeInv

LEMMA AgreeQuit ==
  ASSUME TypeInv, ReadInv, AgreeInv, Quit, ~spoilt'
  PROVE  AgreeInv'
<1> DEFINE M == ToSet(net.names)
<1>1. /\ Idle /\ ~spoilt /\ todo' = <<>> /\ Ids' = {} /\ disk' = disk /\ net' = net /\ ~open'
  BY DEF Quit, Idle, Ids
<1>2. /\ \A n \in M : /\ Whole(n)
                      /\ disk[n].cfg.fc = IF net.fc \in {None, n} THEN None ELSE disk[net.fc].cfg.rid
      /\ net.fc # None => net.fc \in M
  BY <1>1, AgreeIdle
<1>3. Left' = {} /\ (\A do : ~At(do)') /\ ~Adding'
  BY <1>1, Singles DEF Left, At, Adding
<1>4. ASSUME NEW n \in M PROVE Whole(n)' /\ InStep(n)'
  BY <1>1, <1>2, <1>3 DEF Whole, InStep, RidOf, Leaving
<1> QED
  BY <1>1, <1>2, <1>3, <1>4 DEF AgreeInv

LEMMA AgreeAdd ==
  ASSUME TypeInv, ReadInv, AgreeInv, NEW n \in Names, Add(n), ~Reuse, ~spoilt'
  PROVE  AgreeInv'
<1> DEFINE M == ToSet(net.names)
           k == Len(nodes')
<1>1. /\ Idle /\ open /\ open' /\ ~spoilt /\ disk' = disk /\ net' = net
      /\ todo' = <<Step("mkdir", k, None), Step("load", k, None)>> \o <<Step("add", k, None)>>
  <2>1. k = Len(nodes) + 1
    BY TypeAdd
  <2> QED
    BY <2>1 DEF Add, Idle, Create, Pair, One
<1>2. /\ TypeInv' /\ Ids' = Ids \union {k} /\ k \notin Ids
      /\ nodes'[k] = Node(n) /\ \A i \in Ids : nodes'[i] = nodes[i]
      /\ Left' = {Step("mkdir", k, None), Step("load", k, None), Step("add", k, None)}
  BY TypeAdd
<1>3. todo' # <<>> /\ It' = Step("mkdir", k, None)
  BY TypeAdd
<1> HIDE DEF k
<1>4. /\ \A i \in Ids : Kept(i) 
      /\ \A m \in M : /\ Whole(m)
                      /\ disk[m].cfg.fc = IF net.fc \in {None, m} THEN None ELSE disk[net.fc].cfg.rid
      /\ net.fc # None => net.fc \in M
  BY <1>1, AgreeIdle
<1>5. \A s \in Left' : s.do \in {"mkdir", "load", "add"}
  BY <1>2, Steps2
<1>6. ~At("unset")' /\ ~At("remove")'
  BY <1>2, <1>5, NotNext
<1>7. Adding'
  <2>1. Step("add", k, None) \in Left' /\ Step("add", k, None).do = "add"
    BY <1>2, Steps2
  <2> QED
    BY <2>1 DEF Adding
<1>8. Joining'
  <2>1. todo' = <<Step("mkdir", k, None), Step("load", k, None), Step("add", k, None)>>
    BY <1>1, TwoAndOne
  <2>2. nodes'[k].fc = None /\ ~nodes'[k].up
    BY <1>2, Blank
  <2> QED
    BY <2>1, <2>2 DEF Joining, k
<1>9. ASSUME NEW m \in M PROVE Whole(m)' /\ InStep(m)'
  BY <1>1, <1>4, <1>6 DEF Whole, InStep, RidOf, Leaving
<1>10. ASSUME NEW i \in Ids', nodes'[i].up PROVE Kept(i)'
  <2>1. i \in Ids /\ nodes'[i] = nodes[i]
    BY <1>2, <1>10, Blank
  <2> QED
    BY <1>1, <1>4, <2>1 DEF Kept, Config
<1>11. \A s \in Left' : Timely(s)'
  BY <1>5, <1>7 DEF Timely
<1> QED
  BY <1>1, <1>4, <1>7, <1>8, <1>9, <1>10, <1>11 DEF AgreeInv

LEMMA AgreeNext ==
  ASSUME TypeInv, ReadInv, AgreeInv, [Next]_vars, ~Reuse
  PROVE  AgreeInv'
<1> SUFFICES ASSUME ~spoilt' PROVE AgreeInv'
  BY DEF AgreeInv
<1>1. TypeInv'
  BY Cases
<1>2. ASSUME NEW o, NEW d, NEW p, Done(o, d, p) PROVE AgreeInv'
  BY <1>1, <1>2, AgreeMoved, AgreeRmDir, AgreeJoining
<1>3. CASE UnsetContact \/ SetContact \/ AddNode \/ RemoveNode
  BY <1>3, AgreeUnset, AgreeSet, AgreeAddNode, AgreeRemove
<1>4. ASSUME NEW steps, Ordered(steps) PROVE AgreeInv'
  BY <1>1, <1>4, AgreeOrdered
<1>5. CASE Crash \/ Fails
  BY <1>5 DEF Crash, Fails, Ends, Dies
<1>6. CASE UNCHANGED vars
  <2>1. /\ UNCHANGED <<open, nodes, net, disk, todo, spoilt>>
        /\ Ids' = Ids /\ Left' = Left /\ It' = It /\ Me' = Me /\ (Adding' <=> Adding)
        /\ \A do : At(do)' <=> At(do)
    BY <1>6 DEF vars, Ids, Left, It, Me, Adding, At
  <2>2. /\ \A n : (Whole(n)' <=> Whole(n)) /\ (Leaving(n)' <=> Leaving(n))
        /\ \A n, f : Cleared(n, f)' <=> Cleared(n, f)
        /\ \A n : Pending(n)' <=> Pending(n)
        /\ \A i : Kept(i)' <=> Kept(i)
    BY <2>1 DEF Whole, Leaving, Cleared, Pending, Kept, Config
  <2>3. \A n : RidOf(n)' = RidOf(n)
    BY <2>1, <2>2 DEF RidOf
  <2>4. \A n : InStep(n)' <=> InStep(n)
    BY <2>1, <2>2, <2>3 DEF InStep
  <2>5. \A s : Timely(s)' <=> Timely(s)
    BY <2>1 DEF Timely
  <2>6. Joining' <=> Joining
    BY <2>1, <2>2 DEF Joining
  <2> QED
    BY <2>1, <2>2, <2>4, <2>5, <2>6 DEF AgreeInv
<1> QED
  BY <1>2, <1>3, <1>4, <1>5, <1>6, AgreeOpen, AgreeQuit, AgreeAdd, Cases

(* As long as no command is cut off and no configuration is wiped, and     *)
(* however often the shell is closed and opened again: between commands    *)
(* every node but the first contact has the identity of the first contact  *)
(* as its own, in memory and on disk, and without a first contact none     *)
(* has any.                                                                *)
THEOREM AgreedTheorem ==
  ASSUME ~Reuse
  PROVE  Spec => []Agreed
<1>1. ASSUME TypeInv, ReadInv, AgreeInv PROVE Agreed
  <2>1. SUFFICES ASSUME Idle, ~spoilt, NEW i \in Ids
                 PROVE  Follows(i, IF Contact \in {0, i} THEN None ELSE nodes[Contact].rid)
    BY DEF Agreed
  <2> DEFINE n == nodes[i].name
  <2>2. /\ Exists(i) /\ nodes[i].up /\ Kept(i) /\ n \in ToSet(net.names)
        /\ net.fc = None <=> Contact = 0
        /\ net.fc # None => disk[net.fc].cfg.rid = nodes[Contact].rid
    BY <1>1, <2>1, AgreeIdle
  <2>3. disk[n].cfg.fc = IF net.fc \in {None, n} THEN None ELSE disk[net.fc].cfg.rid
    BY <1>1, <2>1, <2>2, AgreeIdle
  <2>4. net.fc # None => (net.fc = n <=> Contact = i)
    <3>1. net.fc # None => nodes[Contact].name = net.fc
      BY <1>1, <2>2, Resolved
    <3>2. net.fc = n /\ net.fc # None => Contact = i
      BY <1>1, <2>1, Resolved DEF Contact
    <3> QED
      BY <3>1, <3>2
  <2>5. disk[n].cfg.fc = IF Contact \in {0, i} THEN None ELSE nodes[Contact].rid
    BY <2>2, <2>3, <2>4
  <2>6. disk[n].cfg = Config(nodes[i]) /\ Config(nodes[i]).fc = nodes[i].fc
    BY <2>2 DEF Kept, Config
  <2> QED
    BY <2>2, <2>5, <2>6 DEF Follows
<1>2. Init => AgreeInv
  <2>1. SUFFICES ASSUME Init PROVE AgreeInv
    OBVIOUS
  <2>2. todo = <<>> /\ net.names = <<>> /\ net.fc = None /\ Ids = {}
    BY <2>1 DEF Init, Ids
  <2>3. Left = {} /\ ToSet(net.names) = {}
    BY <2>2, Singles DEF Left
  <2>4. ~Adding
    BY <2>3 DEF Adding
  <2> QED
    BY <2>2, <2>3, <2>4 DEF AgreeInv
<1>3. TypeInv /\ ReadInv /\ AgreeInv /\ [Next]_vars => AgreeInv'
  BY AgreeNext
<1> QED
  BY <1>1, <1>2, <1>3, TypeHolds, ReadHolds, PTL DEF Spec
=============================================================================
