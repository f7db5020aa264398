------------------------- MODULE FirstContact_proofs -------------------------
(***************************************************************************)
(* For any number of processes, keypairs, addresses and ports: the type     *)
(* invariant, the identity that outlives every crash, what decode_qr_uri    *)
(* makes of a code, and that the phone which scanned one finds its daemon.  *)
(***************************************************************************)
EXTENDS FirstContact, FiniteSetTheorems, NaturalsInduction, WellFoundedInduction,
        SequenceTheorems, TLAPS

\* What a stage of the start takes for granted: the files that are there, the identity
\* that was made or loaded, the port that was bound.
StageInv ==
    /\ cert => keyFile
    /\ \A p \in Procs :
        /\ at[p] \in {"half", "cert"} => keyFile
        /\ at[p] \in {"load", "bind", "bus", "serving"} => cert
        /\ at[p] \in {"key", "half", "cert", "bind", "bus", "serving"} => me[p] # None
        /\ at[p] \in {"bus", "serving"} /\ want[p] # AnyPort => port[p] = want[p]
        /\ at[p] = "serving" => first # None

\* Unless two first starts ran into each other, one process at a time saves, only until
\* there is a certificate, and from then on the key is everybody's identity.
OnceInv ==
    ~raced =>
        /\ \A p, q \in Procs : Saving(p) /\ Saving(q) => p = q
        /\ \A p \in Procs :
            /\ Saving(p) => ~cert
            /\ at[p] = "cert" => key = me[p]
            /\ at[p] \in {"bind", "bus", "serving"} => me[p] = key
        /\ cert => key # None
        /\ first # None => cert /\ first = key

\* What the phone has of the daemon it may reach.
PhoneInv ==
    settled /\ ~raced /\ config # AnyPort =>
        target = <<ip, PortOf(config)>> /\ first \in pins

IInv == TypeOK /\ StageInv /\ OnceInv /\ PhoneInv
-----------------------------------------------------------------------------
(* Numbers.                                                                *)

\* A set of numbers has a least one.
LEMMA Least == ASSUME NEW T \in SUBSET Nat, T # {} PROVE \E x \in T : \A y \in T : x <= y
  <1> DEFINE R == {ss \in Nat \X Nat : ss[1] < ss[2]}
  <1>1. IsWellFoundedOn(R, Nat)
    BY NatLessThanWellFounded DEF OpToRel
  <1> HIDE DEF R
  <1>2. PICK x \in T : \A y \in T : <<y, x>> \notin R
    BY <1>1, WFMin
  <1>3. \A y \in T : ~(y < x)
    BY <1>2 DEF R
  <1> QED
    BY <1>2, <1>3

\* A set that has 0 and every successor has them all.
LEMMA Induction ==
    ASSUME NEW T, 0 \in T, \A n \in Nat : n \in T => n + 1 \in T
    PROVE  Nat \subseteq T
  <1> SUFFICES ASSUME Nat \ T # {} PROVE FALSE
    OBVIOUS
  <1>1. PICK x \in Nat \ T : \A y \in Nat \ T : x <= y
    BY Least
  <1>2. x # 0 /\ x - 1 \in Nat
    BY <1>1
  <1>3. x - 1 \in T
    BY <1>1, <1>2
  <1> QED
    BY <1>1, <1>2, <1>3

\* Max finds the last of the numbers up to k + 1.
LEMMA Greatest ==
    ASSUME NEW k \in Nat, NEW s \in SUBSET (1..(k + 1)), k + 1 \in s
    PROVE  Max(s) = k + 1
  <1>1. \A y \in s : k + 1 >= y
    OBVIOUS
  <1>2. \A x \in s : (\A y \in s : x >= y) => x = k + 1
    OBVIOUS
  <1> QED
    BY <1>1, <1>2 DEF Max

-----------------------------------------------------------------------------
(* The fold of decode_qr_uri's loop, as a sequence of steps.  FoldLeft is a  *)
(* function on the sets of places, defined by its own equation: that there  *)
(* is such a function is shown by induction on the number of fields.        *)

IsFold(seq, S, g) ==
    g = [s \in SUBSET S |-> IF s = {} THEN Nothing
                            ELSE Field(g[s \ {Max(s)}], seq[Max(s)])]

\* Every list of fields has its fold.
LEMMA FoldsExist == ASSUME NEW seq PROVE \A k \in Nat : \E g : IsFold(seq, 1..k, g)
  <1> DEFINE T == {k \in Nat : \E g : IsFold(seq, 1..k, g)}
  <1>1. 0 \in T
    <2> DEFINE g == [s \in SUBSET {} |-> Nothing]
    <2>1. 1..0 = {} /\ \A s \in SUBSET {} : s = {}
      OBVIOUS
    <2>2. IsFold(seq, {}, g)
      BY <2>1 DEF IsFold
    <2> QED
      BY <2>1, <2>2
  <1>2. ASSUME NEW k \in Nat, k \in T PROVE k + 1 \in T
    <2>1. PICK g : IsFold(seq, 1..k, g)
      BY <1>2
    <2> DEFINE h == [s \in SUBSET (1..(k + 1)) |->
                        IF k + 1 \in s THEN Field(g[s \ {k + 1}], seq[k + 1]) ELSE g[s]]
    <2>2. ASSUME NEW s \in SUBSET (1..(k + 1)), k + 1 \in s
          PROVE  h[s] = Field(h[s \ {Max(s)}], seq[Max(s)])
      <3>1. Max(s) = k + 1
        BY <2>2, Greatest
      <3>2. h[s \ {k + 1}] = g[s \ {k + 1}]
        OBVIOUS
      <3> QED
        BY <2>2, <3>1, <3>2
    <2>3. ASSUME NEW s \in SUBSET (1..(k + 1)), k + 1 \notin s, s # {}
          PROVE  h[s] = Field(h[s \ {Max(s)}], seq[Max(s)])
      <3> DEFINE m == Max(s)
      <3> HIDE DEF m
      <3>4. ASSUME NEW x \in s PROVE x \in 1..k
        <4>1. x \in 1..(k + 1) /\ x # k + 1
          BY <2>3
        <4> QED
          BY <4>1
      <3>0. s \in SUBSET (1..k) /\ s \ {m} \in SUBSET (1..k)
        BY <3>4
      <3>1. s \in SUBSET (1..k) /\ s \ {Max(s)} \in SUBSET (1..k)
        BY <3>0 DEF m
      <3>2. g[s] = Field(g[s \ {Max(s)}], seq[Max(s)])
        BY <2>1, <2>3, <3>1 DEF IsFold
      <3>3. h[s] = g[s] /\ h[s \ {Max(s)}] = g[s \ {Max(s)}]
        BY <2>3, <3>1
      <3> QED
        BY <3>2, <3>3
    <2>4. h[{}] = Nothing
      <3>1. {} \in SUBSET (1..k) /\ {} \in SUBSET (1..(k + 1)) /\ k + 1 \notin {}
        OBVIOUS
      <3> QED
        BY <2>1, <3>1 DEF IsFold
    <2> HIDE DEF h
    <2>5. \A s \in SUBSET (1..(k + 1)) :
             h[s] = IF s = {} THEN Nothing ELSE Field(h[s \ {Max(s)}], seq[Max(s)])
      BY <2>2, <2>3, <2>4
    <2>6. h = [s \in SUBSET (1..(k + 1)) |-> h[s]]
      BY DEF h
    <2>7. IsFold(seq, 1..(k + 1), h)
      BY <2>5, <2>6 DEF IsFold
    <2> QED
      BY <2>7
  <1> HIDE DEF T
  <1>3. Nat \subseteq T
    BY <1>1, <1>2, Induction
  <1> QED
    BY <1>3 DEF T

\* What decode_qr_uri has seen after each field.
LEMMA FieldByField ==
    ASSUME NEW n \in Nat, NEW seq, DOMAIN seq = 1..n
    PROVE  \E v : /\ v[0] = Nothing
                  /\ \A k \in 1..n : v[k] = Field(v[k - 1], seq[k])
                  /\ FoldLeft(Field, Nothing, seq) = v[n]
  <1> DEFINE g == CHOOSE f : IsFold(seq, 1..n, f)
  <1>1. FoldLeft(Field, Nothing, seq) = g[1..n]
    <2>1. FoldLeft(Field, Nothing, seq) = (CHOOSE f : IsFold(seq, DOMAIN seq, f))[DOMAIN seq]
      BY DEF FoldLeft, MapThenFoldSet, IsFold
    <2> QED
      BY <2>1
  <1>2. IsFold(seq, 1..n, g)
    BY FoldsExist
  <1> HIDE DEF g
  <1> DEFINE v == [k \in 0..n |-> g[1..k]]
  <1>3. v[0] = Nothing
    <2>1. 1..0 = {} /\ {} \in SUBSET (1..n)
      OBVIOUS
    <2> QED
      BY <1>2, <2>1 DEF IsFold
  <1>4. ASSUME NEW k \in 1..n PROVE v[k] = Field(v[k - 1], seq[k])
    <2>1. k \in 0..n /\ k - 1 \in 0..n /\ k \in 1..k
      OBVIOUS
    <2>3. 1..k \in SUBSET (1..n)
      OBVIOUS
    <2>4. (1..k) \ {k} = 1..(k - 1)
      OBVIOUS
    <2>5. v[k] = g[1..k] /\ v[k - 1] = g[1..(k - 1)]
      BY <2>1
    <2> HIDE DEF v
    <2>6. g[1..k] = Field(g[(1..k) \ {Max(1..k)}], seq[Max(1..k)])
      BY <1>2, <2>1, <2>3 DEF IsFold
    <2>2. Max(1..k) = k
      <3>1. /\ k - 1 \in Nat /\ (k - 1) + 1 = k
            /\ 1..k \in SUBSET (1..((k - 1) + 1)) /\ (k - 1) + 1 \in 1..k
        OBVIOUS
      <3>2. Max(1..k) = (k - 1) + 1
        BY <3>1, Greatest
      <3> QED
        BY <3>1, <3>2
    <2> QED
      BY <2>2, <2>4, <2>5, <2>6
  <1>5. FoldLeft(Field, Nothing, seq) = v[n]
    BY <1>1
  <1> HIDE DEF v
  <1> QED
    BY <1>3, <1>4, <1>5
-----------------------------------------------------------------------------
\* The keys of a field, and those of what has been seen.
Keys == Required \cup {"addr", "other"}
Slots == {"error", "v", "id", "name", "addr", "token"}

\* The addresses among the first k fields.
Upto(fs, k) == {j \in 1..k : fs[j].key = "addr"}

\* What has been seen of the first k fields: an error once one that is known does not
\* parse; else, of each required key, the last value; and the addresses in order.
Parses(fs, k) == \A i \in 1..k : fs[i].key # "other" => fs[i].val # <<>>
Lasts(fs, k, s) ==
    \A r \in Required :
        /\ (\A i \in 1..k : fs[i].key # r) => s[r] = <<>>
        /\ \A i \in 1..k :
              fs[i].key = r /\ (\A j \in 1..k : j > i => fs[j].key # r) => s[r] = fs[i].val
InOrder(fs, k, s) ==
    /\ Len(s.addr) = Cardinality(Upto(fs, k))
    /\ \A i \in Upto(fs, k) : s.addr[Cardinality(Upto(fs, i))] = fs[i].val
Sees(fs, V, k, s) ==
    /\ DOMAIN s = Slots /\ s.addr \in Seq(V) /\ s.error \in {"none", "malformed"}
    /\ s.error = "none" <=> Parses(fs, k)
    /\ s.error = "none" => Lasts(fs, k, s) /\ InOrder(fs, k, s)

\* An address more is one more of them.
LEMMA Counting ==
    ASSUME NEW fs, NEW k \in Nat
    PROVE  /\ Cardinality(Upto(fs, 0)) = 0
           /\ IsFiniteSet(Upto(fs, k)) /\ Cardinality(Upto(fs, k)) \in Nat
           /\ fs[k + 1].key = "addr" =>
                 Cardinality(Upto(fs, k + 1)) = Cardinality(Upto(fs, k)) + 1
           /\ fs[k + 1].key # "addr" => Upto(fs, k + 1) = Upto(fs, k)
           /\ \A i \in 1..k : Cardinality(Upto(fs, i)) <= Cardinality(Upto(fs, k))
           /\ \A i \in Upto(fs, k) : Cardinality(Upto(fs, i)) >= 1
  <1>1. \A m \in Nat : IsFiniteSet(Upto(fs, m)) /\ Cardinality(Upto(fs, m)) \in Nat
    <2> SUFFICES ASSUME NEW m \in Nat
                 PROVE  IsFiniteSet(Upto(fs, m)) /\ Cardinality(Upto(fs, m)) \in Nat
      OBVIOUS
    <2>1. IsFiniteSet(1..m)
      BY FS_Interval
    <2>2. Upto(fs, m) \subseteq 1..m
      BY DEF Upto
    <2> QED
      BY <2>1, <2>2, FS_Subset, FS_CardinalityType
  <1>2. Cardinality(Upto(fs, 0)) = 0
    <2>1. Upto(fs, 0) = {}
      BY DEF Upto
    <2> QED
      BY <2>1, FS_EmptySet
  <1>3. ASSUME fs[k + 1].key = "addr"
        PROVE  Cardinality(Upto(fs, k + 1)) = Cardinality(Upto(fs, k)) + 1
    <2>1. Upto(fs, k + 1) = Upto(fs, k) \cup {k + 1} /\ k + 1 \notin Upto(fs, k)
      BY <1>3 DEF Upto
    <2> QED
      BY <1>1, <2>1, FS_AddElement
  <1>4. ASSUME fs[k + 1].key # "addr" PROVE Upto(fs, k + 1) = Upto(fs, k)
    <2>1. \A j \in 1..(k + 1) : j = k + 1 \/ j \in 1..k
      OBVIOUS
    <2> QED
      BY <1>4, <2>1 DEF Upto
  <1>5. ASSUME NEW i \in 1..k PROVE Cardinality(Upto(fs, i)) <= Cardinality(Upto(fs, k))
    <2>1. Upto(fs, i) \subseteq Upto(fs, k)
      BY DEF Upto
    <2> QED
      BY <1>1, <2>1, FS_Subset
  <1>6. ASSUME NEW i \in Upto(fs, k) PROVE Cardinality(Upto(fs, i)) >= 1
    <2>1. i \in Nat /\ i \in Upto(fs, i)
      BY DEF Upto
    <2>2. {i} \subseteq Upto(fs, i) /\ Cardinality({i}) = 1
      BY <2>1, FS_Singleton
    <2> QED
      BY <1>1, <2>1, <2>2, FS_Subset
  <1> QED
    BY <1>1, <1>2, <1>3, <1>4, <1>5, <1>6

\* Before the first field.
LEMMA FirstSight == ASSUME NEW fs, NEW V PROVE Sees(fs, V, 0, Nothing)
  <1>1. 1..0 = {} /\ Upto(fs, 0) = {}
    BY DEF Upto
  <1>2. Cardinality(Upto(fs, 0)) = 0
    BY <1>1, FS_EmptySet
  <1> QED
    BY <1>1, <1>2 DEF Sees, Parses, Lasts, InOrder, Nothing, Slots, Required

\* A field that is not required leaves the last ones.
LEMMA OtherKey ==
    ASSUME NEW fs, NEW k \in Nat, NEW s, NEW t, Lasts(fs, k, s),
           \A r \in Required : fs[k + 1].key # r /\ t[r] = s[r]
    PROVE  Lasts(fs, k + 1, t)
  <1> SUFFICES ASSUME NEW r \in Required
               PROVE  /\ (\A i \in 1..(k + 1) : fs[i].key # r) => t[r] = <<>>
                      /\ \A i \in 1..(k + 1) : fs[i].key = r
                            /\ (\A j \in 1..(k + 1) : j > i => fs[j].key # r) =>
                               t[r] = fs[i].val
    BY DEF Lasts
  <1>1. 1..k \subseteq 1..(k + 1) /\ \A i \in 1..(k + 1) : i = k + 1 \/ i \in 1..k
    OBVIOUS
  <1>2. (\A i \in 1..k : fs[i].key # r) => s[r] = <<>>
    BY DEF Lasts
  <1>3. ASSUME NEW i \in 1..(k + 1), fs[i].key = r,
               \A j \in 1..(k + 1) : j > i => fs[j].key # r
        PROVE  s[r] = fs[i].val
    <2>1. i \in 1..k
      BY <1>1, <1>3
    <2>2. \A j \in 1..k : j > i => fs[j].key # r
      BY <1>1, <1>3
    <2> QED
      BY <1>3, <2>1, <2>2 DEF Lasts
  <1> QED
    BY <1>1, <1>2, <1>3

\* One field more.
LEMMA NextSight ==
    ASSUME NEW n \in Nat, NEW V, NEW fs \in [1..n -> [key : Keys, val : V]],
           NEW k \in Nat, k + 1 \in 1..n, NEW s, Sees(fs, V, k, s)
    PROVE  Sees(fs, V, k + 1, Field(s, fs[k + 1]))
  <1> DEFINE f == fs[k + 1]  t == Field(s, f)
  <1>0. f.key \in Keys /\ f.val \in V
    OBVIOUS
  <1>1. \A j \in 1..(k + 1) : j = k + 1 \/ j \in 1..k
    OBVIOUS
  <1>2. DOMAIN s = Slots /\ s.addr \in Seq(V) /\ s.error \in {"none", "malformed"}
    BY DEF Sees
  <1>10. 1..k \subseteq 1..(k + 1) /\ k + 1 \in 1..(k + 1)
    OBVIOUS
  <1>3. CASE s.error # "none"
    <2>1. t = s
      BY <1>3 DEF Field
    <2>2. ~Parses(fs, k + 1)
      BY <1>3, <1>10 DEF Sees, Parses
    <2> QED
      BY <1>2, <1>3, <2>1, <2>2 DEF Sees
  <1>4. CASE s.error = "none" /\ f.key = "other"
    <2>1. t = s
      BY <1>4 DEF Field
    <2>2. Parses(fs, k + 1)
      BY <1>1, <1>4 DEF Sees, Parses
    <2>3. Lasts(fs, k + 1, s)
      <3>1. Lasts(fs, k, s) /\ \A r \in Required : fs[k + 1].key # r
        BY <1>4 DEF Sees, Required
      <3> QED
        BY <3>1, OtherKey
    <2>4. InOrder(fs, k + 1, s)
      BY <1>4, Counting DEF Sees, InOrder
    <2> QED
      BY <1>2, <1>4, <2>1, <2>2, <2>3, <2>4 DEF Sees
  <1>5. CASE s.error = "none" /\ f.key # "other" /\ f.val = <<>>
    <2>1. t = [s EXCEPT !.error = "malformed"]
      BY <1>5 DEF Field
    <2>2. ~Parses(fs, k + 1)
      BY <1>5, <1>10 DEF Parses
    <2>3. DOMAIN t = Slots /\ t.addr = s.addr /\ t.error = "malformed"
      BY <1>2, <2>1 DEF Slots
    <2> QED
      BY <1>2, <2>2, <2>3 DEF Sees
  <1>6. CASE s.error = "none" /\ f.key = "addr" /\ f.val # <<>>
    <2>1. t = [s EXCEPT !.addr = Append(@, f.val)]
      BY <1>6 DEF Field
    <2>2. Parses(fs, k + 1)
      BY <1>1, <1>6 DEF Sees, Parses
    <2>3. /\ DOMAIN t = Slots /\ t.addr = Append(s.addr, f.val) /\ t.error = "none"
          /\ \A r \in Required : t[r] = s[r]
      BY <1>2, <1>6, <2>1 DEF Slots, Required
    <2>4. t.addr \in Seq(V)
      BY <1>0, <1>2, <2>3
    <2>5. Lasts(fs, k + 1, t)
      <3> HIDE DEF t
      <3>1. Lasts(fs, k, s) /\ \A r \in Required : fs[k + 1].key # r
        BY <1>6 DEF Sees, Required
      <3> QED
        BY <2>3, <3>1, OtherKey
    <2>6. InOrder(fs, k + 1, t)
      <3>1. Len(s.addr) = Cardinality(Upto(fs, k)) /\ Len(s.addr) \in Nat
        BY <1>2, <1>6 DEF Sees, InOrder
      <3>2. Cardinality(Upto(fs, k + 1)) = Len(s.addr) + 1
        BY <1>6, <3>1, Counting
      <3>3. /\ Len(t.addr) = Len(s.addr) + 1 /\ t.addr[Len(s.addr) + 1] = f.val
            /\ \A m \in 1..Len(s.addr) : t.addr[m] = s.addr[m]
        BY <1>0, <1>2, <2>3
      <3>4. ASSUME NEW i \in Upto(fs, k) PROVE t.addr[Cardinality(Upto(fs, i))] = fs[i].val
        <4>1. i \in 1..k
          BY DEF Upto
        <4>2. Cardinality(Upto(fs, i)) \in 1..Len(s.addr)
          BY <3>1, <4>1, Counting
        <4>3. s.addr[Cardinality(Upto(fs, i))] = fs[i].val
          BY <1>6 DEF Sees, InOrder
        <4> QED
          BY <3>3, <4>2, <4>3
      <3>5. \A i \in Upto(fs, k + 1) : i = k + 1 \/ i \in Upto(fs, k)
        BY <1>1 DEF Upto
      <3> HIDE DEF t, f
      <3>6. ASSUME NEW i \in Upto(fs, k + 1) PROVE t.addr[Cardinality(Upto(fs, i))] = fs[i].val
        <4>1. CASE i = k + 1
          BY <3>2, <3>3, <4>1 DEF f
        <4>2. CASE i \in Upto(fs, k)
          BY <3>4, <4>2
        <4> QED
          BY <3>5, <4>1, <4>2
      <3> QED
        BY <3>2, <3>3, <3>6 DEF InOrder
    <2> HIDE DEF t
    <2>7. Sees(fs, V, k + 1, t)
      BY <2>2, <2>3, <2>4, <2>5, <2>6 DEF Sees
    <2> QED
      BY <2>7 DEF t
  <1>7. CASE s.error = "none" /\ f.key \in Required /\ f.val # <<>>
    <2>1. t = [s EXCEPT ![f.key] = f.val]
      BY <1>7 DEF Field, Replaced, Required
    <2>2. Parses(fs, k + 1)
      BY <1>1, <1>7 DEF Sees, Parses
    <2>3. /\ DOMAIN t = Slots /\ t.addr = s.addr /\ t.error = "none" /\ t[f.key] = f.val
          /\ \A r \in Required \ {f.key} : t[r] = s[r]
      BY <1>2, <1>7, <2>1 DEF Slots, Required
    <2>5. Lasts(fs, k + 1, t)
      <3> HIDE DEF t
      <3>1. Lasts(fs, k, s)
        BY <1>7 DEF Sees
      <3> SUFFICES ASSUME NEW r \in Required
                   PROVE  /\ (\A i \in 1..(k + 1) : fs[i].key # r) => t[r] = <<>>
                          /\ \A i \in 1..(k + 1) : fs[i].key = r
                                /\ (\A j \in 1..(k + 1) : j > i => fs[j].key # r) =>
                                   t[r] = fs[i].val
        BY DEF Lasts
      <3>2. CASE r = f.key
        <4>1. ASSUME NEW i \in 1..(k + 1), \A j \in 1..(k + 1) : j > i => fs[j].key # r
              PROVE  i = k + 1
          BY <1>10, <3>2, <4>1
        <4> QED
          BY <1>10, <2>3, <3>2, <4>1
      <3>3. CASE r # f.key
        BY <1>1, <1>10, <2>3, <3>1, <3>3 DEF Lasts
      <3> QED
        BY <3>2, <3>3
    <2>6. InOrder(fs, k + 1, t)
      <3>1. f.key # "addr"
        BY <1>7 DEF Required
      <3>2. InOrder(fs, k, s) /\ Upto(fs, k + 1) = Upto(fs, k)
        BY <1>7, <3>1, Counting DEF Sees
      <3> QED
        BY <2>3, <3>2 DEF InOrder
    <2> HIDE DEF t
    <2>7. Sees(fs, V, k + 1, t)
      BY <1>2, <2>2, <2>3, <2>5, <2>6 DEF Sees
    <2> QED
      BY <2>7 DEF t
  <1> QED
    BY <1>0, <1>3, <1>4, <1>5, <1>6, <1>7 DEF Keys
\* After the last one.
LEMMA SeenAll ==
    ASSUME NEW n \in Nat, NEW V, NEW fs \in [1..n -> [key : Keys, val : V]]
    PROVE  Sees(fs, V, n, FoldLeft(Field, Nothing, fs))
  <1>1. PICK v : /\ v[0] = Nothing
                 /\ \A k \in 1..n : v[k] = Field(v[k - 1], fs[k])
                 /\ FoldLeft(Field, Nothing, fs) = v[n]
    BY FieldByField
  <1> DEFINE T == {k \in Nat : k <= n => Sees(fs, V, k, v[k])}
  <1>2. 0 \in T
    BY <1>1, FirstSight
  <1>3. ASSUME NEW k \in Nat, k \in T PROVE k + 1 \in T
    <2> SUFFICES ASSUME k + 1 <= n PROVE Sees(fs, V, k + 1, v[k + 1])
      OBVIOUS
    <2>1. k + 1 \in 1..n /\ Sees(fs, V, k, v[k])
      BY <1>3
    <2>2. v[k + 1] = Field(v[k], fs[k + 1])
      <3>1. (k + 1) - 1 = k
        OBVIOUS
      <3> QED
        BY <1>1, <2>1, <3>1
    <2> QED
      BY <2>1, <2>2, NextSight
  <1> HIDE DEF T
  <1>4. n \in T
    BY <1>2, <1>3, Induction
  <1> QED
    BY <1>1, <1>4 DEF T

\* A set of places has a last one, and Max is it.
LEMMA LastPlace ==
    ASSUME NEW n \in Nat, NEW S \in SUBSET (1..n), S # {}
    PROVE  Max(S) \in S /\ \A y \in S : Max(S) >= y
  <1> DEFINE T == {k \in Nat : n - k \in S}
  <1>1. T \in SUBSET Nat /\ T # {}
    <2>1. PICK x : x \in S
      OBVIOUS
    <2>2. n - x \in Nat /\ n - (n - x) = x
      BY <2>1
    <2>3. n - x \in T
      BY <2>1, <2>2
    <2> QED
      BY <2>3
  <1> HIDE DEF T
  <1>2. PICK k \in T : \A y \in T : k <= y
    BY <1>1, Least
  <1>3. k \in Nat /\ n - k \in S
    BY <1>2 DEF T
  <1>4. ASSUME NEW y \in S PROVE n - k >= y
    <2>1. y \in 1..n /\ n - y \in Nat /\ n - (n - y) = y
      OBVIOUS
    <2>2. n - y \in T
      BY <2>1 DEF T
    <2>3. k <= n - y
      BY <1>2, <2>2
    <2> QED
      BY <1>3, <2>1, <2>3
  <1> QED
    BY <1>3, <1>4 DEF Max

\* decode_qr_uri reads any list of fields the way it is meant.
LEMMA RightIfWellFormed ==
    ASSUME NEW V, NEW c, c.fields \in Seq([key : Keys, val : V])
    PROVE  IsRight(c)
  <1> DEFINE fs == c.fields  n == Len(fs)  s == FoldLeft(Field, Nothing, fs)  d == Decode(c)
             A == Places(c, "addr")
  <1> HIDE DEF fs
  <1>0. fs \in Seq([key : Keys, val : V])
    BY DEF fs
  <1>1. n \in Nat /\ fs \in [1..n -> [key : Keys, val : V]] /\ DOMAIN fs = 1..n
    <2> DEFINE R == [key : Keys, val : V]
    <2> HIDE DEF R
    <2>1. fs \in Seq(R)
      BY <1>0 DEF R
    <2>2. n \in Nat /\ fs \in [1..n -> R] /\ DOMAIN fs = 1..n
      BY <2>1
    <2> QED
      BY <2>2 DEF R
  <1> HIDE DEF n
  <1>2. Sees(fs, V, n, s)
    BY <1>1, SeenAll
  <1>3. \A k : Places(c, k) = {i \in 1..n : fs[i].key = k}
    BY <1>1 DEF Places, fs
  <1>4. CASE c.scheme # "penguinsync"
    <2>1. d.error = "scheme"
      BY <1>4 DEF Decode, Nothing
    <2> QED
      BY <1>4, <2>1 DEF IsRight, Meaningful
  <1>5. CASE c.scheme = "penguinsync" /\ s.error # "none"
    <2>1. d = s
      BY <1>5 DEF Decode, fs
    <2>2. ~Meaningful(c)
      BY <1>1, <1>2, <1>5 DEF Sees, Parses, Meaningful, fs
    <2> QED
      BY <1>5, <2>1, <2>2 DEF IsRight
  <1>6. CASE c.scheme = "penguinsync" /\ s.error = "none"
    <2> HIDE DEF s, d
    <2>1. Parses(fs, n) /\ Lasts(fs, n, s) /\ InOrder(fs, n, s) /\ DOMAIN s = Slots
      BY <1>2, <1>6 DEF Sees
    <2>2. ASSUME NEW k \in Required, Places(c, k) # {}
          PROVE  s[k] = fs[Max(Places(c, k))].val /\ s[k] # <<>>
      <3> DEFINE m == Max(Places(c, k))
      <3>1. m \in Places(c, k) /\ \A y \in Places(c, k) : m >= y
        BY <1>1, <1>3, <2>2, LastPlace
      <3> HIDE DEF m
      <3>2. m \in 1..n /\ fs[m].key = k
        BY <1>3, <3>1
      <3>3. \A j \in 1..n : j > m => fs[j].key # k
        <4>1. ASSUME NEW j \in 1..n, j > m, fs[j].key = k PROVE FALSE
          <5>1. m >= j
            BY <1>3, <3>1, <4>1
          <5> QED
            BY <1>1, <3>2, <4>1, <5>1
        <4> QED
          BY <4>1
      <3>4. s[k] = fs[m].val
        BY <2>1, <3>2, <3>3 DEF Lasts
      <3>5. fs[m].val # <<>>
        BY <2>1, <3>2 DEF Parses, Required
      <3> QED
        BY <3>4, <3>5 DEF m
    <2>3. ASSUME NEW k \in Required, Places(c, k) = {} PROVE s[k] = <<>>
      <3>1. \A i \in 1..n : fs[i].key # k
        BY <1>3, <2>3
      <3> QED
        BY <2>1, <3>1 DEF Lasts
    <2>4. Complete(s) <=> \A k \in Required : Places(c, k) # {}
      BY <2>2, <2>3 DEF Complete, Required
    <2>5. Meaningful(c) <=> Complete(s)
      BY <1>1, <1>6, <2>1, <2>4 DEF Meaningful, Parses, fs
    <2>6. CASE ~Complete(s)
      <3>1. d = [s EXCEPT !.error = "missing"]
        BY <1>6, <2>6 DEF Decode, d, s, fs
      <3>2. d.error = "missing"
        BY <2>1, <3>1 DEF Slots
      <3> QED
        BY <2>5, <2>6, <3>2 DEF IsRight, d
    <2>7. CASE Complete(s)
      <3>1. d = s
        BY <1>6, <2>7 DEF Decode, d, s, fs
      <3>2. A = Upto(fs, n)
        BY <1>3 DEF Upto
      <3>3. ASSUME NEW i \in A PROVE {j \in A : j <= i} = Upto(fs, i)
        <4>1. i \in 1..n
          BY <1>3
        <4>2. {j \in Upto(fs, n) : j <= i} = Upto(fs, i)
          BY <1>1, <4>1 DEF Upto
        <4> QED
          BY <3>2, <4>2
      <3>4. Len(s.addr) = Cardinality(A)
        BY <2>1, <3>2 DEF InOrder
      <3>5. \A i \in A : s.addr[Cardinality({j \in A : j <= i})] = fs[i].val
        BY <2>1, <3>2, <3>3 DEF InOrder
      <3>6. \A k \in Required : s[k] = fs[Max(Places(c, k))].val
        BY <2>2, <2>4, <2>7
      <3> QED
        BY <1>6, <2>5, <2>7, <3>1, <3>4, <3>5, <3>6 DEF IsRight, d, fs
    <2> QED
      BY <2>6, <2>7
  <1> QED
    BY <1>4, <1>5, <1>6
-----------------------------------------------------------------------------
(* The codes that are scanned.                                              *)

\* The values in the codes near that of p.
Values(p) == {<<>>, <<1>>, <<2>>, <<me[p]>>, <<MaxIds + 1>>, <<ip, port[p]>>,
              <<Loopback, port[p]>>}

\* A list with a field more, less or replaced is a list of fields.
LEMMA Edited ==
    ASSUME NEW R, NEW q \in Seq(R), NEW x \in R
    PROVE  /\ Append(q, x) \in Seq(R) /\ <<x>> \o q \in Seq(R)
           /\ \A i \in DOMAIN q : RemoveAt(q, i) \in Seq(R) /\ [q EXCEPT ![i] = x] \in Seq(R)
  <1>1. Append(q, x) \in Seq(R) /\ <<x>> \o q \in Seq(R)
    OBVIOUS
  <1>2. ASSUME NEW i \in DOMAIN q PROVE RemoveAt(q, i) \in Seq(R)
    <2>1. i \in 1..Len(q) /\ Len(q) \in Nat
      OBVIOUS
    <2>2. SubSeq(q, 1, i - 1) \in Seq(R) /\ SubSeq(q, i + 1, Len(q)) \in Seq(R)
      BY <2>1, SubSeqProperties
    <2> QED
      BY <2>2, ConcatProperties DEF RemoveAt
  <1>3. ASSUME NEW i \in DOMAIN q PROVE [q EXCEPT ![i] = x] \in Seq(R)
    BY ExceptSeq
  <1> QED
    BY <1>1, <1>2, <1>3

\* encode_qr_uri's fields, and their order when there is a route.
LEMMA CodeShape ==
    ASSUME NEW p
    PROVE  LET f == Code(p).fields IN
           /\ f \in Seq([key : Keys, val : Values(p)])
           /\ ip # None =>
                /\ Len(f) = 6
                /\ f[1].key = "v" /\ f[2] = Pair("id", <<me[p]>>) /\ f[3].key = "name"
                /\ f[4] = Pair("addr", <<ip, port[p]>>)
                /\ f[5].key = "addr" /\ f[6].key = "token"
  <1> DEFINE R == [key : Keys, val : Values(p)]
             a == <<Pair("v", Version), Pair("id", <<me[p]>>), Pair("name", <<1>>)>>
             b == [i \in DOMAIN Addrs(p) |-> Pair("addr", Addrs(p)[i])]
             c == <<Pair("token", <<1>>)>>
  <1>1. a \in Seq(R) /\ Len(a) = 3 /\ c \in Seq(R) /\ Len(c) = 1
    <2>1. Pair("v", Version) \in R /\ Pair("id", <<me[p]>>) \in R /\ Pair("name", <<1>>) \in R
          /\ Pair("token", <<1>>) \in R
      BY DEF Pair, Version, Keys, Required, Values
    <2> HIDE DEF R
    <2> QED
      BY <2>1
  <1>4. \A x \in Values(p) : Pair("addr", x) \in R
    BY DEF Pair, Keys, Required
  <1>5. <<ip, port[p]>> \in Values(p) /\ <<Loopback, port[p]>> \in Values(p)
    BY DEF Values
  <1>2. CASE ip = None
    <2>1. DOMAIN Addrs(p) = 1..1 /\ Addrs(p)[1] = <<Loopback, port[p]>>
      BY <1>2 DEF Addrs
    <2>2. \A i \in DOMAIN Addrs(p) : Pair("addr", Addrs(p)[i]) \in R
      <3>1. \A i \in DOMAIN Addrs(p) : Addrs(p)[i] \in Values(p)
        BY <1>5, <2>1
      <3> QED
        BY <1>4, <3>1
    <2> HIDE DEF R
    <2>3. b \in Seq(R)
      BY <2>1, <2>2
    <2> HIDE DEF a, b, c
    <2>4. a \o b \o c \in Seq(R)
      BY <1>1, <2>3
    <2> QED
      BY <1>2, <2>4 DEF Code, a, b, c, R
  <1>3. CASE ip # None
    <2>1. /\ DOMAIN Addrs(p) = 1..2 /\ Addrs(p)[1] = <<ip, port[p]>>
          /\ Addrs(p)[2] = <<Loopback, port[p]>>
      BY <1>3 DEF Addrs
    <2>2. \A i \in DOMAIN Addrs(p) : Pair("addr", Addrs(p)[i]) \in R
      <3>1. \A i \in DOMAIN Addrs(p) : Addrs(p)[i] \in Values(p)
        BY <1>5, <2>1
      <3> QED
        BY <1>4, <3>1
    <2> HIDE DEF R
    <2>3. b \in Seq(R) /\ Len(b) = 2 /\ b[1] = Pair("addr", <<ip, port[p]>>)
          /\ b[2].key = "addr"
      BY <2>1, <2>2 DEF Pair
    <2>5. /\ a[1].key = "v" /\ a[2] = Pair("id", <<me[p]>>) /\ a[3].key = "name"
          /\ c[1].key = "token"
      BY DEF Pair
    <2> HIDE DEF a, b, c
    <2> DEFINE f == a \o b \o c
    <2>8. /\ a \o b \in Seq(R) /\ Len(a \o b) = 5
          /\ \A i \in 1..5 : (a \o b)[i] = IF i <= 3 THEN a[i] ELSE b[i - 3]
      <3>1. /\ a \o b \in Seq(R) /\ Len(a \o b) = Len(a) + Len(b)
            /\ \A i \in 1..(Len(a) + Len(b)) :
                  (a \o b)[i] = IF i <= Len(a) THEN a[i] ELSE b[i - Len(a)]
        BY <1>1, <2>3, ConcatProperties
      <3> QED
        BY <1>1, <2>3, <3>1
    <2>4. /\ f \in Seq(R) /\ Len(f) = 6
          /\ \A i \in 1..6 : f[i] = IF i <= 5 THEN (a \o b)[i] ELSE c[i - 5]
      <3> DEFINE g == a \o b
      <3>2. g \in Seq(R) /\ f = g \o c /\ Len(g) = 5
        BY <2>8
      <3> HIDE DEF f, g
      <3>3. /\ g \o c \in Seq(R) /\ Len(g \o c) = Len(g) + Len(c)
            /\ \A i \in 1..(Len(g) + Len(c)) :
                  (g \o c)[i] = IF i <= Len(g) THEN g[i] ELSE c[i - Len(g)]
        BY <1>1, <3>2, ConcatProperties
      <3> QED
        BY <1>1, <3>2, <3>3 DEF g
    <2> HIDE DEF f
    <2>6. /\ f[1] = a[1] /\ f[2] = a[2] /\ f[3] = a[3]
          /\ f[4] = b[1] /\ f[5] = b[2] /\ f[6] = c[1]
      BY <2>4, <2>8
    <2>7. Code(p).fields = f
      BY DEF Code, a, b, c, f
    <2> HIDE DEF f
    <2> QED
      BY <2>3, <2>4, <2>5, <2>6, <2>7 DEF R
  <1> QED
    BY <1>2, <1>3

\* The codes that are scanned are lists of fields.
LEMMA CodesWellFormed ==
    ASSUME NEW p, NEW c \in Codes(p)
    PROVE  c.fields \in Seq([key : Keys, val : Values(p)])
  <1> DEFINE R == [key : Keys, val : Values(p)]  f == Code(p).fields
  <1>1. f \in Seq(R)
    BY CodeShape
  <1>2. Extra \subseteq R
    BY DEF Extra, Pair, Keys, Required, Values
  <1>3. \A i \in DOMAIN f : f[i] \in R
    <2>1. DOMAIN f = 1..Len(f)
      BY <1>1, LenProperties
    <2> QED
      BY <1>1, <2>1, ElementOfSeq
  <1>4. \A i \in DOMAIN f : [f[i] EXCEPT !.val = <<>>] \in R
    BY <1>3 DEF Values
  <1> HIDE DEF R
  <1>5. \A i \in DOMAIN f : [f EXCEPT ![i].val = <<>>] \in Seq(R)
    BY <1>1, <1>4, Edited
  <1>6. \A x \in Extra : Append(f, x) \in Seq(R) /\ <<x>> \o f \in Seq(R)
    BY <1>1, <1>2, Edited
  <1>7. \A i \in DOMAIN f : RemoveAt(f, i) \in Seq(R)
    BY <1>1, <1>3, Edited
  <1>8. \A g : [Code(p) EXCEPT !.fields = g].fields = g
    BY DEF Code
  <1>9. [Code(p) EXCEPT !.scheme = "https"].fields = f
    BY DEF Code
  <1> HIDE DEF f
  <1>10. \/ c = Code(p) \/ c = [Code(p) EXCEPT !.scheme = "https"]
         \/ \E i \in DOMAIN f : c = [Code(p) EXCEPT !.fields = RemoveAt(f, i)]
         \/ \E i \in DOMAIN f : c = [Code(p) EXCEPT !.fields = [f EXCEPT ![i].val = <<>>]]
         \/ \E x \in Extra : c = [Code(p) EXCEPT !.fields = Append(f, x)]
         \/ \E x \in Extra : c = [Code(p) EXCEPT !.fields = <<x>> \o f]
    BY Zenon DEF Codes, f
  <1>11. CASE c = Code(p) \/ c = [Code(p) EXCEPT !.scheme = "https"]
    <2>1. c.fields = f
      BY <1>9, <1>11 DEF f
    <2> QED
      BY <1>1, <2>1 DEF R
  <1>12. CASE \E g \in Seq(R) : c = [Code(p) EXCEPT !.fields = g]
    BY <1>8, <1>12 DEF R
  <1> QED
    BY <1>5, <1>6, <1>7, <1>10, <1>11, <1>12

\* So they are read as they are meant.
LEMMA CodesAreRight == ASSUME NEW p, NEW c \in Codes(p) PROVE IsRight(c)
  BY CodesWellFormed, RightIfWellFormed

\* What the phone makes of the daemon's own code.
LEMMA OwnCode ==
    ASSUME NEW p, ip # None, Acceptable(Decode(Code(p)))
    PROVE  /\ Decode(Code(p)).id[1] = me[p]
           /\ Head(Decode(Code(p)).addr) = <<ip, port[p]>>
  <1> DEFINE c == Code(p)  f == c.fields  d == Decode(c)  A == Places(c, "addr")
  <1>1. c \in Codes(p)
    BY DEF Codes
  <1>2. /\ f \in Seq([key : Keys, val : Values(p)]) /\ Len(f) = 6
        /\ f[1].key = "v" /\ f[2] = Pair("id", <<me[p]>>) /\ f[3].key = "name"
        /\ f[4] = Pair("addr", <<ip, port[p]>>) /\ f[5].key = "addr" /\ f[6].key = "token"
    BY CodeShape
  <1> HIDE DEF c
  <1>3. IsRight(c) /\ Meaningful(c)
    BY <1>1, CodesAreRight DEF IsRight, Acceptable, c
  <1>4. DOMAIN f = 1..6
    BY <1>2
  <1>8. /\ f[2].key = "id" /\ f[2].val = <<me[p]>>
        /\ f[4].key = "addr" /\ f[4].val = <<ip, port[p]>>
    BY <1>2 DEF Pair
  <1>5. Places(c, "id") = {2} /\ A = {4, 5}
    <2>1. \A i \in 1..6 : i \in {1, 2, 3, 4, 5, 6}
      OBVIOUS
    <2>2. \A i \in 1..6 : (f[i].key = "id" <=> i = 2) /\ (f[i].key = "addr" <=> i \in {4, 5})
      BY <1>2, <1>8, <2>1
    <2> QED
      BY <1>4, <2>2 DEF Places
  <1>6. d.id = <<me[p]>>
    <2>1. Max({2}) = 2
      BY DEF Max
    <2>2. d["id"] = f[Max(Places(c, "id"))].val
      BY <1>3 DEF IsRight, Required
    <2> QED
      BY <1>5, <1>8, <2>1, <2>2
  <1>7. d.addr[1] = <<ip, port[p]>>
    <2>1. {j \in A : j <= 4} = {4} /\ 4 \in A
      BY <1>5
    <2>2. Cardinality({4}) = 1
      BY FS_Singleton
    <2>3. d.addr[Cardinality({j \in A : j <= 4})] = f[4].val
      BY <1>3, <2>1 DEF IsRight
    <2> QED
      BY <1>8, <2>1, <2>2, <2>3
  <1> QED
    BY <1>6, <1>7 DEF c

-----------------------------------------------------------------------------
(* The start of a process.                                                  *)

\* Whatever config.toml says, the daemon asks for a port or leaves it to the system.
LEMMA PortTypes == \A c \in Configs : PortOf(c) \in {AnyPort, DefaultPort, OwnPort}
  BY DEF Configs, PortOf, Absent, Malformed, AnyPort, DefaultPort, OwnPort

\* Every step keeps the types.
LEMMA Types == ASSUME TypeOK, [Next]_vars PROVE TypeOK'
  <1> USE IdsAssumption DEF TypeOK, Goes, files, phoneVars, procVars
  <1>1. ASSUME NEW p \in Procs, Launch(p) PROVE TypeOK'
    BY <1>1, PortTypes DEF Launch, Stages
  <1>2. ASSUME NEW p \in Procs, CheckLoads(p) PROVE TypeOK'
    BY <1>2 DEF CheckLoads, Stages
  <1>3. ASSUME NEW p \in Procs, CheckGenerates(p) PROVE TypeOK'
    <2>1. made + 1 \in Ids /\ made' \in 0..MaxIds
      BY <1>3 DEF CheckGenerates, Ids
    <2>2. raced' \in BOOLEAN
      BY <1>3 DEF CheckGenerates
    <2> QED
      BY <1>3, <2>1, <2>2 DEF CheckGenerates, Stages
  <1>4. ASSUME NEW p \in Procs, Load(p) PROVE TypeOK'
    BY <1>4 DEF Load, Stages
  <1>5. ASSUME NEW p \in Procs, LoadFails(p) \/ Exit(p) PROVE TypeOK'
    BY <1>5 DEF LoadFails, Exit, Dies, Stages
  <1>6. ASSUME NEW p \in Procs, CreateKey(p) PROVE TypeOK'
    BY <1>6 DEF CreateKey, Stages
  <1>7. ASSUME NEW p \in Procs, FillKey(p) PROVE TypeOK'
    BY <1>7 DEF FillKey, Stages
  <1>8. ASSUME NEW p \in Procs, WriteCert(p) PROVE TypeOK'
    BY <1>8 DEF WriteCert, SaveCert, Stages
  <1>9. ASSUME NEW p \in Procs, Bind(p) PROVE TypeOK'
    <2>1. PICK n \in IF want[p] = AnyPort THEN Ephemeral ELSE {want[p]} :
              port' = [port EXCEPT ![p] = n]
      BY <1>9 DEF Bind
    <2>2. n \in {None, DefaultPort, OwnPort} \cup Ephemeral
      BY <2>1
    <2> QED
      BY <1>9, <2>1, <2>2 DEF Bind, Stages
  <1>10. ASSUME NEW p \in Procs, OwnName(p) PROVE TypeOK'
    BY <1>10 DEF OwnName, Stages
  <1>11. ASSUME NEW p \in Procs, Scan(p) PROVE TypeOK'
    BY <1>11 DEF Scan
  <1>12. CASE Edit
    BY <1>12 DEF Edit
  <1>13. CASE Roam
    BY <1>13 DEF Roam
  <1>14. CASE UNCHANGED vars
    BY <1>14 DEF vars
  <1> QED
    BY <1>1, <1>2, <1>3, <1>4, <1>5, <1>6, <1>7, <1>8, <1>9, <1>10, <1>11, <1>12, <1>13,
       <1>14 DEF Next, Start

\* What a process takes for granted is so: nobody removes a file.
LEMMA StagesKept == ASSUME TypeOK, StageInv, [Next]_vars PROVE StageInv'
  <1> USE DEF TypeOK, StageInv, Goes, files
  <1>1. ASSUME NEW p \in Procs, Launch(p) PROVE StageInv'
    BY <1>1 DEF Launch
  <1>2. ASSUME NEW p \in Procs, CheckLoads(p) PROVE StageInv'
    BY <1>2 DEF CheckLoads, Found
  <1>3. ASSUME NEW p \in Procs, CheckGenerates(p) PROVE StageInv'
    <2>1. made + 1 # None
      BY DEF None
    <2> QED
      BY <1>3, <2>1 DEF CheckGenerates
  <1>4. ASSUME NEW p \in Procs, Load(p) PROVE StageInv'
    BY <1>4 DEF Load
  <1>5. ASSUME NEW p \in Procs, LoadFails(p) \/ Exit(p) PROVE StageInv'
    BY <1>5 DEF LoadFails, Exit, Dies
  <1>6. ASSUME NEW p \in Procs, CreateKey(p) PROVE StageInv'
    BY <1>6 DEF CreateKey
  <1>7. ASSUME NEW p \in Procs, FillKey(p) PROVE StageInv'
    BY <1>7 DEF FillKey
  <1>8. ASSUME NEW p \in Procs, WriteCert(p) PROVE StageInv'
    BY <1>8 DEF WriteCert, SaveCert
  <1>9. ASSUME NEW p \in Procs, Bind(p) PROVE StageInv'
    <2>1. PICK n \in IF want[p] = AnyPort THEN Ephemeral ELSE {want[p]} :
              port' = [port EXCEPT ![p] = n]
      BY <1>9 DEF Bind
    <2>2. want[p] # AnyPort => port'[p] = want[p]
      BY <2>1
    <2> QED
      BY <1>9, <2>1, <2>2 DEF Bind
  <1>10. ASSUME NEW p \in Procs, OwnName(p) PROVE StageInv'
    BY <1>10 DEF OwnName
  <1>11. CASE UNCHANGED <<files, procVars>>
    BY <1>11 DEF procVars
  <1>12. ASSUME Edit \/ Roam \/ UNCHANGED vars \/ \E p \in Procs : Scan(p)
         PROVE  UNCHANGED <<files, procVars>>
    BY <1>12 DEF Edit, Roam, Scan, vars
  <1> QED
    BY <1>1, <1>2, <1>3, <1>4, <1>5, <1>6, <1>7, <1>8, <1>9, <1>10, <1>11, <1>12
       DEF Next, Start

\* One saver at a time, and none once there is a certificate: the key it is for stays.
LEMMA OnceKept == ASSUME TypeOK, StageInv, OnceInv, [Next]_vars PROVE OnceInv'
  <1> SUFFICES ASSUME ~raced' PROVE OnceInv'
    BY DEF OnceInv
  <1> USE DEF TypeOK, StageInv, OnceInv, Saving, Goes, files
  <1>1. ASSUME NEW p \in Procs, Launch(p) PROVE OnceInv'
    BY <1>1 DEF Launch
  <1>2. ASSUME NEW p \in Procs, CheckLoads(p) PROVE OnceInv'
    BY <1>2 DEF CheckLoads
  <1>3. ASSUME NEW p \in Procs, CheckGenerates(p) PROVE OnceInv'
    BY <1>3 DEF CheckGenerates, Found
  <1>4. ASSUME NEW p \in Procs, Load(p) PROVE OnceInv'
    BY <1>4 DEF Load
  <1>5. ASSUME NEW p \in Procs, LoadFails(p) \/ Exit(p) PROVE OnceInv'
    BY <1>5 DEF LoadFails, Exit, Dies
  <1>6. ASSUME NEW p \in Procs, CreateKey(p) PROVE OnceInv'
    BY <1>6 DEF CreateKey
  <1>7. ASSUME NEW p \in Procs, FillKey(p) PROVE OnceInv'
    BY <1>7 DEF FillKey
  <1>8. ASSUME NEW p \in Procs, WriteCert(p) PROVE OnceInv'
    BY <1>8 DEF WriteCert, SaveCert
  <1>9. ASSUME NEW p \in Procs, Bind(p) PROVE OnceInv'
    BY <1>9 DEF Bind
  <1>10. ASSUME NEW p \in Procs, OwnName(p) PROVE OnceInv'
    BY <1>10 DEF OwnName
  <1>11. CASE UNCHANGED <<files, procVars>>
    BY <1>11 DEF procVars
  <1>12. ASSUME Edit \/ Roam \/ UNCHANGED vars \/ \E p \in Procs : Scan(p)
         PROVE  UNCHANGED <<files, procVars>>
    BY <1>12 DEF Edit, Roam, Scan, vars
  <1> QED
    BY <1>1, <1>2, <1>3, <1>4, <1>5, <1>6, <1>7, <1>8, <1>9, <1>10, <1>11, <1>12
       DEF Next, Start

\* A configuration that names a port asks for that port.
LEMMA NamedPort == \A c \in Configs : c # AnyPort => PortOf(c) # AnyPort
  BY DEF Configs, PortOf, Absent, Malformed, AnyPort, DefaultPort, OwnPort

\* What the phone has of its daemon stays good: a start finds the same key and asks for
\* the same port.
LEMMA PhoneKept == ASSUME IInv, [Next]_vars PROVE PhoneInv'
  <1> SUFFICES ASSUME settled', ~raced', config' # AnyPort
               PROVE  target' = <<ip', PortOf(config')>> /\ first' \in pins'
    BY DEF PhoneInv
  <1> USE DEF IInv, TypeOK, PhoneInv, Goes, files, phoneVars
  <1>1. ASSUME NEW p \in Procs, Scan(p)
        PROVE  target' = <<ip', PortOf(config')>> /\ first' \in pins'
    <2>1. PICK c \in Codes(p) :
             /\ Acceptable(Decode(c))
             /\ pins' = pins \cup {Decode(c).id[1]}
             /\ target' = Head(Decode(c).addr)
             /\ settled' = (c = Code(p) /\ ip # None /\ want[p] = PortOf(config))
      BY <1>1 DEF Scan
    <2>2. at[p] = "serving" /\ UNCHANGED <<config, ip, procVars, files>>
      BY <1>1 DEF Scan
    <2>3. c = Code(p) /\ ip # None /\ want[p] = PortOf(config)
      BY <2>1
    <2>4. Decode(c).id[1] = me[p] /\ Head(Decode(c).addr) = <<ip, port[p]>>
      BY <2>1, <2>3, OwnCode
    <2>5. port[p] = want[p] /\ me[p] = first
      BY <2>2, <2>3, NamedPort DEF StageInv, OnceInv, procVars
    <2> QED
      BY <2>1, <2>2, <2>3, <2>4, <2>5 DEF procVars
  <1>2. ASSUME NEW p \in Procs, OwnName(p)
        PROVE  target' = <<ip', PortOf(config')>> /\ first' \in pins'
    <2>1. first \in pins /\ first # None
      BY <1>2 DEF OwnName, Ids, None
    <2> QED
      BY <1>2, <2>1 DEF OwnName
  <1>3. ASSUME NEW p \in Procs, CheckGenerates(p)
        PROVE  target' = <<ip', PortOf(config')>> /\ first' \in pins'
    BY <1>3 DEF CheckGenerates
  <1>4. ASSUME UNCHANGED <<config, ip, first, raced, phoneVars>>
        PROVE  target' = <<ip', PortOf(config')>> /\ first' \in pins'
    BY <1>4
  <1>5. ASSUME NEW p \in Procs,
               Launch(p) \/ Exit(p) \/ CheckLoads(p) \/ Load(p) \/ LoadFails(p)
                 \/ CreateKey(p) \/ FillKey(p) \/ WriteCert(p) \/ Bind(p)
        PROVE  UNCHANGED <<config, ip, first, raced, phoneVars>>
    BY <1>5 DEF Launch, Exit, CheckLoads, Load, LoadFails, CreateKey, FillKey, WriteCert, Bind
  <1>6. CASE Edit \/ Roam
    BY <1>6 DEF Edit, Roam
  <1>7. CASE UNCHANGED vars
    BY <1>4, <1>7 DEF vars, procVars
  <1> QED
    BY <1>1, <1>2, <1>3, <1>4, <1>5, <1>6, <1>7 DEF Next, Start

-----------------------------------------------------------------------------
\* Where nothing has been started.
LEMMA InitInv == Init => IInv
  <1> SUFFICES ASSUME Init PROVE IInv
    OBVIOUS
  <1>1. TypeOK
    <2>1. 0 \in 0..MaxIds
      BY IdsAssumption
    <2>2. /\ at \in [Procs -> Stages] /\ me \in [Procs -> Ids \cup {None}]
          /\ want \in [Procs -> {AnyPort, DefaultPort, OwnPort}]
          /\ port \in [Procs -> {None, DefaultPort, OwnPort} \cup Ephemeral]
      BY DEF Init, Stages
    <2> QED
      BY <2>1, <2>2 DEF Init, TypeOK
  <1>2. StageInv /\ OnceInv /\ PhoneInv
    BY DEF Init, StageInv, OnceInv, PhoneInv, Saving
  <1> QED
    BY <1>1, <1>2 DEF IInv

\* The invariant of every start, scan, edit and move.
THEOREM Invariance == Spec => []IInv
  <1>1. IInv /\ [Next]_vars => IInv'
    BY Types, StagesKept, OnceKept, PhoneKept DEF IInv
  <1> QED
    BY InitInv, <1>1, PTL DEF Spec

\* Processes, files, ports and pins have their types.
THEOREM TypesHold == Spec => []TypeOK
  <1>1. IInv => TypeOK
    BY DEF IInv
  <1> QED
    BY Invariance, <1>1, PTL

\* load_or_generate and save: whatever crashes, and whoever starts beside them, every
\* process serves under the identity that was first served, and no start finds half a
\* key, unless a keypair was generated while another one was being saved.
THEOREM IdentityStays == Spec => []IdentityIsStable
  <1>1. IInv => IdentityIsStable
    BY DEF IInv, TypeOK, StageInv, OnceInv, IdentityIsStable
  <1> QED
    BY Invariance, <1>1, PTL

\* decode_qr_uri: of every code near a daemon's own it reads what the code means, and
\* refuses it exactly when it means nothing.
THEOREM CodesAreRead == Spec => []DecodeIsRight
  <1>1. DecodeIsRight
    BY CodesAreRight DEF DecodeIsRight
  <1> QED
    BY <1>1, PTL

\* encode_qr_uri, candidate_addrs, pair and Endpoint::listening together: who scanned a
\* daemon's code has its address and its key, through every restart.
THEOREM PhoneFindsDaemon == Spec => []StillReachable
  <1>1. IInv => StillReachable
    BY NamedPort DEF IInv, TypeOK, StageInv, OnceInv, PhoneInv, StillReachable
  <1> QED
    BY Invariance, <1>1, PTL
=============================================================================
