-------------------------- MODULE ProviderCallsProofs --------------------------
(***************************************************************************)
(* Proofs about the modules MCProviderCalls extends, which share no state.   *)
(* ConnectorCalls: for any number of callers, limiters and attempts, and for *)
(* any limits and windows, a limiter grants what its budgets allow, and      *)
(* nothing is sent again whose fate is unknown.                              *)
(* SchemaMigrations: for any number of runners and any releases whose files  *)
(* have different numbers, among them releases that disagree, the history is *)
(* the beginning of a release.                                               *)
(* BackupRestore: for any backups and restores, killed anywhere, published    *)
(* copies are whole and a restore keeps the authority it works with.          *)
(* IdentityOperations: for any operations, users and sessions, what a         *)
(* completed operation promised holds at the provider, and no account is left *)
(* without a user.                                                            *)
(* Usage: for any people, companies, days and runs, flags rest on evidence     *)
(* that still stands, and no answer replaces a newer one.                     *)
(***************************************************************************)
EXTENDS ConnectorCalls, IdentityOperations, Usage, BackupRestore, SchemaMigrations,
        FiniteSetTheorems, SequenceTheorems, WellFoundedInduction, TLAPS


-------------------------------------------------------------------------------
(* ConnectorCalls: the invariant                                           *)

Sorted(s) == \A m, n \in 1..Len(s) : m <= n => s[m] >= s[n]

\* The ages a limiter keeps: none is counted beyond its window.
Aging(s, w) == s \in Seq(Nat) /\ Sorted(s) /\ \A n \in 1..Len(s) : s[n] <= w

\* What a limiter remembers of the calls in the window is what it granted in it.
StampInv ==
  \A l \in Limiters, b \in Budgets :
    Aging(stamps[l][b], Window[b]) /\ grants[l][b] = Active(l, b)

\* Every attempt is on record; all attempts before the one under way were refused,
\* also on record, and might be repeated.
CallInv(c) ==
  LET s == call[c] IN
  /\ s.pc = "idle" => s = NoCall /\ rows[c] = NoRows
  /\ s.pc # "idle" =>
       /\ s.endpoint \in Endpoints /\ s.attempt \in 1..Attempts
       /\ rows[c].requested = s.attempt /\ rows[c].ended = Len(s.answers)
  /\ s.pc \in {"queued", "sleeping", "sent"} => Len(s.answers) = s.attempt - 1
  /\ s.pc = "resting" => Len(s.answers) = s.attempt /\ s.attempt < Attempts
  /\ Len(s.answers) > 0 =>
       /\ s.endpoint # "create_invite"
       /\ \A n \in 1..Len(s.answers) : s.answers[n] \in {"rate_limited", "provider_error"}

IInv == TypeOK /\ StampInv /\ \A c \in Callers : CallInv(c)

-------------------------------------------------------------------------------
(* Sequences of ages, the oldest first                                     *)

LEMMA RestOfAges ==
  ASSUME NEW s \in Seq(Nat), NEW k \in 0..Len(s), NEW r, r = SubSeq(s, k + 1, Len(s))
  PROVE  /\ r \in Seq(Nat) /\ Len(r) = Len(s) - k
         /\ \A n \in 1..(Len(s) - k) : r[n] = s[n + k]
<1>1. Len(s) \in Nat /\ k \in Nat /\ \A n \in 1..Len(s) : s[n] \in Nat
  OBVIOUS
<1> QED
  BY <1>1

\* What has left the window is a beginning of the sequence.
LEMMA RecentIsSuffix ==
  ASSUME NEW s \in Seq(Nat), NEW w \in Nat, Sorted(s)
  PROVE  \E k \in 0..Len(s) : /\ Recent(s, w) = SubSeq(s, k + 1, Len(s))
                              /\ \A n \in 1..Len(s) : s[n] >= w <=> n <= k
<1>1. PICK old : old = {n \in DOMAIN s : s[n] >= w}
  OBVIOUS
<1>2. PICK k : k = Cardinality(old)
  OBVIOUS
<1>3. Len(s) \in Nat /\ DOMAIN s = 1..Len(s)
  OBVIOUS
<1>4. \A n \in Nat : IsFiniteSet(1..n) /\ Cardinality(1..n) = n
  <2>1. SUFFICES ASSUME NEW n \in Nat PROVE IsFiniteSet(1..n) /\ Cardinality(1..n) = n
    OBVIOUS
  <2>2. IsFiniteSet(1..n) /\ Cardinality(1..n) = IF 1 > n THEN 0 ELSE n - 1 + 1
    BY FS_Interval
  <2> QED
    BY <2>2
<1>5. old \in SUBSET (1..Len(s)) /\ IsFiniteSet(old) /\ k \in 0..Len(s)
  <2>1. old \in SUBSET (1..Len(s))
    BY <1>1, <1>3
  <2>2. IsFiniteSet(old) /\ Cardinality(old) <= Len(s)
    <3>1. IsFiniteSet(1..Len(s)) /\ Cardinality(1..Len(s)) = Len(s)
      BY <1>3, <1>4
    <3>2. IsFiniteSet(old) /\ Cardinality(old) <= Cardinality(1..Len(s))
      BY <2>1, <3>1, FS_Subset
    <3> QED
      BY <3>1, <3>2
  <2>3. Cardinality(old) \in Nat
    BY <2>2, FS_CardinalityType
  <2> QED
    BY <1>2, <1>3, <2>1, <2>2, <2>3
<1>6. ASSUME NEW n \in 1..Len(s), s[n] >= w PROVE n <= k
  <2>1. 1..n \in SUBSET old
    <3>1. SUFFICES ASSUME NEW m \in 1..n PROVE m \in old
      OBVIOUS
    <3>2. m \in 1..Len(s) /\ n \in 1..Len(s) /\ m <= n
      BY <1>3
    <3>3. s[m] >= s[n] /\ s[m] \in Nat /\ s[n] \in Nat
      BY <3>2 DEF Sorted
    <3> QED
      BY <1>1, <1>3, <1>6, <3>2, <3>3
  <2>2. Cardinality(1..n) <= Cardinality(old)
    BY <1>5, <2>1, FS_Subset
  <2> QED
    BY <1>2, <1>4, <2>2
<1>7. ASSUME NEW n \in 1..Len(s), ~(s[n] >= w) PROVE ~(n <= k)
  <2>1. old \in SUBSET (1..(n - 1))
    <3>1. SUFFICES ASSUME NEW m \in old, ~(m <= n - 1) PROVE FALSE
      BY <1>1, <1>3
    <3>2. m \in 1..Len(s) /\ s[m] >= w /\ n <= m
      BY <1>1, <1>3, <3>1
    <3>3. s[n] >= s[m] /\ s[m] \in Nat /\ s[n] \in Nat
      BY <3>2 DEF Sorted
    <3> QED
      BY <1>7, <3>2, <3>3
  <2>2. n - 1 \in Nat
    BY <1>3
  <2>3. k <= n - 1
    <3>1. IsFiniteSet(1..(n - 1)) /\ Cardinality(1..(n - 1)) = n - 1
      BY <1>4, <2>2
    <3>2. Cardinality(old) <= Cardinality(1..(n - 1))
      BY <2>1, <3>1, FS_Subset
    <3> QED
      BY <1>2, <3>1, <3>2
  <2> QED
    BY <1>5, <2>2, <2>3
<1>8. Recent(s, w) = SubSeq(s, k + 1, Len(s))
  BY <1>1, <1>2 DEF Recent
<1> QED
  BY <1>5, <1>6, <1>7, <1>8

\* What is left is in its window, and in order.
LEMMA RecentParts ==
  ASSUME NEW s \in Seq(Nat), NEW w \in Nat, Sorted(s)
  PROVE  /\ Recent(s, w) \in Seq(Nat) /\ Len(Recent(s, w)) <= Len(s) /\ Sorted(Recent(s, w))
         /\ \A n \in 1..Len(Recent(s, w)) : Recent(s, w)[n] < w
<1>1. PICK k \in 0..Len(s) : /\ Recent(s, w) = SubSeq(s, k + 1, Len(s))
                             /\ \A n \in 1..Len(s) : s[n] >= w <=> n <= k
  BY RecentIsSuffix
<1>2. PICK r : r = Recent(s, w)
  OBVIOUS
<1>3. Len(s) \in Nat /\ k \in Nat
  OBVIOUS
<1>4. /\ r \in Seq(Nat) /\ Len(r) = Len(s) - k
      /\ \A n \in 1..(Len(s) - k) : r[n] = s[n + k]
  BY <1>1, <1>2, <1>3
<1>5. \A n \in 1..Len(r) : n + k \in 1..Len(s) /\ r[n] = s[n + k] /\ s[n + k] \in Nat
  BY <1>3, <1>4
<1>6. ASSUME NEW n \in 1..Len(r) PROVE r[n] < w
  <2>1. n + k \in 1..Len(s) /\ r[n] = s[n + k] /\ s[n + k] \in Nat /\ ~(n + k <= k)
    BY <1>3, <1>5
  <2> QED
    BY <1>1, <2>1
<1>7. Sorted(r)
  <2>1. SUFFICES ASSUME NEW m \in 1..Len(r), NEW n \in 1..Len(r), m <= n
                 PROVE  r[m] >= r[n]
    BY DEF Sorted
  <2>2. m + k \in 1..Len(s) /\ n + k \in 1..Len(s) /\ r[m] = s[m + k] /\ r[n] = s[n + k]
    BY <1>5
  <2>3. m + k <= n + k
    BY <1>3, <1>4, <2>1
  <2> QED
    BY <2>2, <2>3 DEF Sorted
<1> QED
  BY <1>2, <1>3, <1>4, <1>6, <1>7

LEMMA RecentAll ==
  ASSUME NEW s \in Seq(Nat), NEW w \in Nat, \A n \in 1..Len(s) : s[n] < w
  PROVE  Recent(s, w) = s
<1>0. PICK old : old = {n \in DOMAIN s : s[n] >= w}
  OBVIOUS
<1>1. old = {}
  <2>1. \A n \in DOMAIN s : n \in 1..Len(s) /\ s[n] \in Nat
    OBVIOUS
  <2> QED
    BY <1>0, <2>1
<1>2. Cardinality(old) + 1 = 1
  BY <1>1, FS_EmptySet
<1>3. Recent(s, w) = SubSeq(s, Cardinality(old) + 1, Len(s))
  BY <1>0 DEF Recent
<1> QED
  BY <1>2, <1>3, SubSeqFull

\* Sequences are told apart by their lengths and elements.
LEMMA SameAges ==
  ASSUME NEW s \in Seq(Nat), NEW t \in Seq(Nat), Len(s) = Len(t),
         \A n \in 1..Len(s) : s[n] = t[n]
  PROVE  s = t
BY SeqEqual

\* A call is granted: what is in the window stays there, with it.
LEMMA RecentGrows ==
  ASSUME NEW s \in Seq(Nat), NEW w \in Nat \ {0}, Sorted(s), \A n \in 1..Len(s) : s[n] < w
  PROVE  /\ Append(s, 0) \in Seq(Nat) /\ Len(Append(s, 0)) = Len(s) + 1
         /\ Sorted(Append(s, 0)) /\ \A n \in 1..Len(Append(s, 0)) : Append(s, 0)[n] < w
         /\ Recent(Append(s, 0), w) = Append(s, 0)
<1>1. PICK t : t = Append(s, 0)
  OBVIOUS
<1>2. /\ t \in Seq(Nat) /\ Len(t) = Len(s) + 1 /\ Len(s) \in Nat
      /\ \A n \in 1..Len(s) : t[n] = s[n]
      /\ t[Len(s) + 1] = 0
  BY <1>1, AppendProperties
<1>3. \A n \in 1..Len(t) : t[n] < w /\ t[n] \in Nat /\ t[n] >= 0
  <2>1. SUFFICES ASSUME NEW n \in 1..Len(t) PROVE t[n] < w /\ t[n] \in Nat /\ t[n] >= 0
    OBVIOUS
  <2>2. n \in 1..Len(s) \/ n = Len(s) + 1
    BY <1>2
  <2> QED
    BY <1>2, <2>2
<1>4. Sorted(t)
  <2>1. SUFFICES ASSUME NEW m \in 1..Len(t), NEW n \in 1..Len(t), m <= n
                 PROVE  t[m] >= t[n]
    BY DEF Sorted
  <2>2. CASE n \in 1..Len(s)
    <3>1. m \in 1..Len(s)
      BY <1>2, <2>1, <2>2
    <3> QED
      BY <1>2, <2>1, <2>2, <3>1 DEF Sorted
  <2>3. CASE n = Len(s) + 1
    BY <1>2, <1>3, <2>3
  <2> QED
    BY <1>2, <2>2, <2>3
<1>5. Recent(t, w) = t
  BY <1>2, <1>3, RecentAll
<1> QED
  BY <1>1, <1>2, <1>3, <1>4, <1>5

\* The ages of a sequence a moment later: counted up to the window, or on.
Capped(s, w) == [n \in DOMAIN s |-> IF s[n] < w THEN s[n] + 1 ELSE w]
Later(s)     == [n \in DOMAIN s |-> s[n] + 1]

LEMMA CappedAges ==
  ASSUME NEW w \in Nat, NEW s, Aging(s, w)
  PROVE  /\ Aging(Capped(s, w), w) /\ Len(Capped(s, w)) = Len(s)
         /\ \A n \in 1..Len(s) : Capped(s, w)[n] = IF s[n] < w THEN s[n] + 1 ELSE w
<1>1. /\ s \in Seq(Nat) /\ Len(s) \in Nat /\ DOMAIN s = 1..Len(s)
      /\ \A n \in 1..Len(s) : s[n] \in Nat /\ s[n] <= w
  BY DEF Aging
<1>2. PICK t : t = Capped(s, w)
  OBVIOUS
<1>3. t = [n \in 1..Len(s) |-> IF s[n] < w THEN s[n] + 1 ELSE w]
  BY <1>1, <1>2 DEF Capped
<1>4. \A n \in 1..Len(s) : t[n] = (IF s[n] < w THEN s[n] + 1 ELSE w) /\ t[n] \in Nat /\ t[n] <= w
  BY <1>1, <1>3
<1>5. t \in Seq(Nat) /\ Len(t) = Len(s)
  BY <1>1, <1>3, <1>4
<1>6. Sorted(t)
  <2>1. SUFFICES ASSUME NEW m \in 1..Len(s), NEW n \in 1..Len(s), m <= n
                 PROVE  t[m] >= t[n]
    BY <1>5 DEF Sorted
  <2>2. s[m] >= s[n]
    BY <2>1 DEF Aging, Sorted
  <2> QED
    BY <1>1, <1>4, <2>2
<1> QED
  BY <1>2, <1>4, <1>5, <1>6 DEF Aging

LEMMA LaterAges ==
  ASSUME NEW s \in Seq(Nat), Sorted(s)
  PROVE  /\ Later(s) \in Seq(Nat) /\ Len(Later(s)) = Len(s) /\ Sorted(Later(s))
         /\ \A n \in 1..Len(s) : Later(s)[n] = s[n] + 1
<1>1. Len(s) \in Nat /\ DOMAIN s = 1..Len(s) /\ \A n \in 1..Len(s) : s[n] \in Nat
  OBVIOUS
<1>2. PICK t : t = Later(s)
  OBVIOUS
<1>3. t = [n \in 1..Len(s) |-> s[n] + 1]
  BY <1>1, <1>2 DEF Later
<1>4. t \in Seq(Nat) /\ Len(t) = Len(s) /\ \A n \in 1..Len(s) : t[n] = s[n] + 1
  BY <1>1, <1>3
<1>5. Sorted(t)
  BY <1>1, <1>4 DEF Sorted
<1> QED
  BY <1>2, <1>4, <1>5

\* Time takes the same ages out of the window, whether those that left it before
\* are kept or not.
LEMMA RecentLater ==
  ASSUME NEW w \in Nat, NEW s, Aging(s, w)
  PROVE  Recent(Later(Recent(s, w)), w) = Recent(Capped(s, w), w)
<1>0. s \in Seq(Nat) /\ Sorted(s) /\ Len(s) \in Nat /\ \A n \in 1..Len(s) : s[n] \in Nat
  BY DEF Aging
<1>1. PICK k \in 0..Len(s) : /\ Recent(s, w) = SubSeq(s, k + 1, Len(s))
                             /\ \A n \in 1..Len(s) : s[n] >= w <=> n <= k
  BY <1>0, RecentIsSuffix
<1>2. PICK r : r = Recent(s, w)
  OBVIOUS
<1>3. r \in Seq(Nat) /\ Sorted(r) /\ Len(r) = Len(s) - k
      /\ \A n \in 1..(Len(s) - k) : r[n] = s[n + k]
  <2>1. r \in Seq(Nat) /\ Sorted(r)
    BY <1>0, <1>2, RecentParts
  <2> QED
    BY <1>0, <1>1, <1>2, <2>1
<1>4. PICK t : t = Capped(s, w)
  OBVIOUS
<1>5. /\ t \in Seq(Nat) /\ Sorted(t) /\ Len(t) = Len(s)
      /\ \A n \in 1..Len(s) : t[n] = IF s[n] < w THEN s[n] + 1 ELSE w
  BY <1>4, CappedAges DEF Aging
<1>6. PICK v : v = Later(r)
  OBVIOUS
<1>7. v \in Seq(Nat) /\ Sorted(v) /\ Len(v) = Len(s) - k /\ \A n \in 1..(Len(s) - k) : v[n] = r[n] + 1
  BY <1>3, <1>6, LaterAges
<1>8. PICK i \in 0..Len(t) : /\ Recent(t, w) = SubSeq(t, i + 1, Len(t))
                             /\ \A n \in 1..Len(t) : t[n] >= w <=> n <= i
  BY <1>5, RecentIsSuffix
<1>9. PICK j \in 0..Len(v) : /\ Recent(v, w) = SubSeq(v, j + 1, Len(v))
                             /\ \A n \in 1..Len(v) : v[n] >= w <=> n <= j
  BY <1>7, RecentIsSuffix
<1>10. \A n \in 1..(Len(s) - k) : n + k \in 1..Len(s) /\ v[n] = t[n + k]
  <2>1. SUFFICES ASSUME NEW n \in 1..(Len(s) - k)
                 PROVE  n + k \in 1..Len(s) /\ v[n] = t[n + k]
    OBVIOUS
  <2>2. n + k \in 1..Len(s) /\ ~(n + k <= k)
    BY <1>0
  <2>3. s[n + k] < w /\ v[n] = s[n + k] + 1
    <3>1. s[n + k] \in Nat /\ ~(s[n + k] >= w)
      BY <1>0, <1>1, <2>2
    <3>2. v[n] = r[n] + 1 /\ r[n] = s[n + k]
      BY <1>3, <1>7
    <3> QED
      BY <3>1, <3>2
  <2> QED
    BY <1>5, <2>2, <2>3
<1>11. k <= i
  <2>1. SUFFICES ASSUME k > i PROVE FALSE
    BY <1>0, <1>5
  <2>2. k \in 1..Len(s) /\ ~(k <= i)
    BY <1>0, <1>5, <2>1
  <2>3. s[k] >= w /\ s[k] \in Nat
    BY <1>0, <1>1, <2>2
  <2>4. t[k] = w /\ k \in 1..Len(t)
    BY <1>5, <2>2, <2>3
  <2> QED
    BY <1>8, <2>2, <2>4
<1>12. i = j + k
  <2>1. CASE j + k < i
    <3>1. j + 1 \in 1..(Len(s) - k) /\ j + 1 + k <= i /\ j + 1 + k \in 1..Len(t)
      BY <1>0, <1>5, <1>7, <2>1
    <3>2. t[j + 1 + k] >= w
      BY <1>8, <3>1
    <3>3. v[j + 1] >= w /\ j + 1 \in 1..Len(v)
      BY <1>7, <1>10, <3>1, <3>2
    <3> QED
      BY <1>7, <1>9, <3>3
  <2>2. CASE i < j + k
    <3>1. j \in 1..(Len(s) - k) /\ j \in 1..Len(v)
      BY <1>0, <1>5, <1>7, <1>11, <2>2
    <3>2. v[j] >= w
      BY <1>9, <3>1
    <3>3. t[j + k] >= w /\ j + k \in 1..Len(t)
      BY <1>5, <1>10, <3>1, <3>2
    <3> QED
      BY <1>5, <1>8, <2>2, <3>3
  <2> QED
    BY <1>0, <1>5, <1>7, <2>1, <2>2
<1>13. Len(Recent(v, w)) = Len(s) - i /\ Len(Recent(t, w)) = Len(s) - i
       /\ Recent(v, w) \in Seq(Nat) /\ Recent(t, w) \in Seq(Nat)
       /\ \A n \in 1..(Len(s) - i) : Recent(v, w)[n] = v[n + j] /\ Recent(t, w)[n] = t[n + i]
  <2>1. /\ Len(Recent(v, w)) = Len(s) - i /\ Recent(v, w) \in Seq(Nat)
        /\ \A n \in 1..(Len(s) - i) : Recent(v, w)[n] = v[n + j]
    <3>1. Len(v) - j = Len(s) - i
      BY <1>0, <1>5, <1>7, <1>12
    <3>2. /\ Len(Recent(v, w)) = Len(v) - j /\ Recent(v, w) \in Seq(Nat)
          /\ \A n \in 1..(Len(v) - j) : Recent(v, w)[n] = v[n + j]
      BY <1>7, <1>9, RestOfAges
    <3> QED
      BY <3>1, <3>2
  <2>2. /\ Len(Recent(t, w)) = Len(s) - i /\ Recent(t, w) \in Seq(Nat)
        /\ \A n \in 1..(Len(s) - i) : Recent(t, w)[n] = t[n + i]
    <3>1. Len(t) - i = Len(s) - i
      BY <1>5
    <3>2. /\ Len(Recent(t, w)) = Len(t) - i /\ Recent(t, w) \in Seq(Nat)
          /\ \A n \in 1..(Len(t) - i) : Recent(t, w)[n] = t[n + i]
      BY <1>5, <1>8, RestOfAges
    <3> QED
      BY <3>1, <3>2
  <2> QED
    BY <2>1, <2>2
<1>14. \A n \in 1..(Len(s) - i) : v[n + j] = t[n + i]
  <2>1. SUFFICES ASSUME NEW n \in 1..(Len(s) - i) PROVE v[n + j] = t[n + i]
    OBVIOUS
  <2>2. n + j \in 1..(Len(s) - k) /\ n + j + k = n + i
    BY <1>0, <1>5, <1>7, <1>12
  <2> QED
    BY <1>10, <2>2
<1>15. Recent(v, w) = Recent(t, w)
  BY <1>13, <1>14, SameAges
<1> QED
  BY <1>2, <1>4, <1>6, <1>15
-------------------------------------------------------------------------------
(* The row of a limiter                                                    *)

LEMMA JoinRow ==
  ASSUME NEW S, NEW s \in Seq(S), NEW c \in S, IsInjective(s), c \notin ToSet(s)
  PROVE  Append(s, c) \in Seq(S) /\ IsInjective(Append(s, c)) /\ ToSet(Append(s, c)) = ToSet(s) \cup {c}
<1>1. PICK t : t = Append(s, c)
  OBVIOUS
<1>2. /\ t \in Seq(S) /\ Len(t) = Len(s) + 1 /\ Len(s) \in Nat
      /\ \A n \in 1..Len(s) : t[n] = s[n]
      /\ t[Len(s) + 1] = c
      /\ DOMAIN t = 1..(Len(s) + 1) /\ DOMAIN s = 1..Len(s)
  BY <1>1, AppendProperties
<1>3. \A n \in 1..Len(s) : t[n] # c
  BY <1>2 DEF ToSet
<1>4. \A n \in 1..(Len(s) + 1) : n \in 1..Len(s) \/ n = Len(s) + 1
  BY <1>2
<1>5. \A m, n \in 1..Len(s) : s[m] = s[n] => m = n
  BY <1>2 DEF IsInjective
<1>6. IsInjective(t)
  BY <1>2, <1>3, <1>4, <1>5 DEF IsInjective
<1>7. ToSet(t) = ToSet(s) \cup {c}
  <2>1. \A n \in 1..Len(s) : n \in 1..(Len(s) + 1)
    BY <1>2
  <2>2. Len(s) + 1 \in 1..(Len(s) + 1)
    BY <1>2
  <2> QED
    BY <1>2, <1>4, <2>1, <2>2 DEF ToSet
<1> QED
  BY <1>1, <1>2, <1>6, <1>7

LEMMA LeaveRow ==
  ASSUME NEW S, NEW s \in Seq(S), IsInjective(s), s # <<>>
  PROVE  Tail(s) \in Seq(S) /\ IsInjective(Tail(s)) /\ ToSet(Tail(s)) = ToSet(s) \ {Head(s)}
<1>1. PICK t : t = Tail(s)
  OBVIOUS
<1>2. /\ t \in Seq(S) /\ Len(t) = Len(s) - 1 /\ Len(s) \in Nat /\ Len(s) > 0
      /\ \A n \in 1..(Len(s) - 1) : t[n] = s[n + 1]
      /\ DOMAIN t = 1..(Len(s) - 1) /\ DOMAIN s = 1..Len(s) /\ Head(s) = s[1]
  BY <1>1, HeadTailProperties, EmptySeq
<1>3. \A m, n \in 1..Len(s) : s[m] = s[n] => m = n
  BY <1>2 DEF IsInjective
<1>4. \A n \in 1..(Len(s) - 1) : n + 1 \in 1..Len(s) /\ n + 1 # 1
  BY <1>2
<1>5. IsInjective(t)
  <2>1. SUFFICES ASSUME NEW m \in 1..(Len(s) - 1), NEW n \in 1..(Len(s) - 1), t[m] = t[n]
                 PROVE  m = n
    BY <1>2 DEF IsInjective
  <2>2. m + 1 = n + 1
    BY <1>2, <1>3, <1>4, <2>1
  <2> QED
    BY <2>2
<1>6. ToSet(t) \subseteq ToSet(s) \ {Head(s)}
  <2>1. SUFFICES ASSUME NEW n \in 1..(Len(s) - 1) PROVE t[n] \in ToSet(s) \ {Head(s)}
    BY <1>2 DEF ToSet
  <2>2. t[n] = s[n + 1] /\ n + 1 \in 1..Len(s) /\ 1 \in 1..Len(s) /\ n + 1 # 1
    BY <1>2, <1>4
  <2> QED
    BY <1>2, <1>3, <2>2 DEF ToSet
<1>7. ToSet(s) \ {Head(s)} \subseteq ToSet(t)
  <2>1. SUFFICES ASSUME NEW n \in 1..Len(s), s[n] # s[1] PROVE s[n] \in ToSet(t)
    BY <1>2 DEF ToSet
  <2>2. n - 1 \in 1..(Len(s) - 1) /\ n - 1 + 1 = n
    BY <1>2, <2>1
  <2>3. t[n - 1] = s[n]
    BY <1>2, <2>2
  <2> QED
    BY <1>2, <2>2, <2>3 DEF ToSet
<1> QED
  BY <1>1, <1>2, <1>5, <1>6, <1>7

-------------------------------------------------------------------------------
(* Waiting                                                                 *)

LEMMA GreatestIs ==
  ASSUME NEW T, NEW m \in T, \A y \in T : m >= y
  PROVE  Max(T) \in T /\ \A y \in T : Max(T) >= y
BY DEF Max

LEMMA GreatestOfBudgets ==
  ASSUME NEW S \in SUBSET Budgets, NEW f \in [Budgets -> Int],
         NEW T, T = {0} \cup {f[b] : b \in S}
  PROVE  Max(T) \in T /\ \A y \in T : Max(T) >= y
<1> DEFINE v(b) == IF b \in S THEN f[b] ELSE 0
<1>1. v("user_management") \in Int /\ v("analytics") \in Int /\ v("invite_create") \in Int
  BY DEF Budgets
<1>2. PICK m \in Int : /\ m \in {0, v("user_management"), v("analytics"), v("invite_create")}
                       /\ m >= 0 /\ m >= v("user_management")
                       /\ m >= v("analytics") /\ m >= v("invite_create")
  <2> HIDE DEF v
  <2> QED
    BY <1>1
<1>3. m \in T
  BY <1>2 DEF Budgets
<1>4. \A y \in T : m >= y
  BY <1>2 DEF Budgets
<1> QED
  BY <1>3, <1>4, GreatestIs

LEMMA LongestIs == Longest \in Nat /\ \A b \in Budgets : Window[b] \in Nat \ {0} /\ Window[b] <= Longest
<1>1. \A b \in Budgets : Window[b] \in Nat \ {0}
  BY CallAssumption
<1>2. PICK T : T = {Window[b] : b \in Budgets}
  OBVIOUS
<1>3. PICK m \in T : \A y \in T : m >= y
  <2>1. /\ Window["user_management"] \in Nat /\ Window["analytics"] \in Nat
        /\ Window["invite_create"] \in Nat
    BY <1>1 DEF Budgets
  <2>2. T = {Window["user_management"], Window["analytics"], Window["invite_create"]}
    BY <1>2 DEF Budgets
  <2> QED
    BY <2>1, <2>2
<1>4. Max(T) \in T /\ \A y \in T : Max(T) >= y
  BY <1>3, GreatestIs
<1>5. Longest = Max(T)
  BY <1>2 DEF Longest
<1> QED
  BY <1>1, <1>2, <1>4, <1>5

LEMMA BudgetsAre == \A e \in Endpoints : BudgetsOf(e) \in SUBSET Budgets
BY CallAssumption DEF BudgetsOf, Budgets

\* Who need not wait finds room in all its budgets.
LEMMA WaitIs ==
  ASSUME TypeOK, StampInv, NEW l \in Limiters, NEW e \in Endpoints
  PROVE  /\ Wait(l, e) \in 0..Longest
         /\ Wait(l, e) = 0 => \A b \in BudgetsOf(e) : ~Full(l, b)
<1>1. PICK f : f = [b \in Budgets |-> IF Full(l, b) THEN Window[b] - Active(l, b)[1] ELSE 0]
  OBVIOUS
<1>2. PICK S : S = {x \in BudgetsOf(e) : Full(l, x)}
  OBVIOUS
<1>3. S \in SUBSET Budgets
  BY <1>2, BudgetsAre
<1>4. ASSUME NEW b \in Budgets, Full(l, b)
      PROVE  f[b] = Window[b] - Active(l, b)[1] /\ f[b] \in 1..Longest
  <2>1. /\ stamps[l][b] \in Seq(Nat) /\ Sorted(stamps[l][b]) /\ Window[b] \in Nat
        /\ Window[b] <= Longest /\ Longest \in Nat
    BY LongestIs DEF StampInv, Aging
  <2>2. /\ Active(l, b) \in Seq(Nat)
        /\ \A n \in 1..Len(Active(l, b)) : Active(l, b)[n] < Window[b]
    BY <2>1, RecentParts DEF Active
  <2>3. Limit[b] \in Nat \ {0} /\ Len(Active(l, b)) >= Limit[b]
    BY <1>4, CallAssumption DEF Full
  <2>4. 1 \in 1..Len(Active(l, b)) /\ Active(l, b)[1] \in Nat
    BY <2>2, <2>3
  <2> QED
    BY <1>1, <1>4, <2>1, <2>2, <2>4
<1>5. f \in [Budgets -> Int]
  <2>1. \A b \in Budgets : f[b] \in Int
    BY <1>1, <1>4, LongestIs
  <2> QED
    BY <1>1, <2>1
<1>6. PICK T : T = {0} \cup {f[b] : b \in S}
  OBVIOUS
<1>7. T = {0} \cup {Window[b] - Active(l, b)[1] : b \in S}
  BY <1>2, <1>3, <1>4, <1>6
<1>8. Wait(l, e) = Max(T)
  BY <1>2, <1>7 DEF Wait
<1>9. Max(T) \in T /\ \A y \in T : Max(T) >= y
  BY <1>3, <1>5, <1>6, GreatestOfBudgets
<1>10. \A y \in T : y \in 0..Longest
  BY <1>2, <1>3, <1>4, <1>6, LongestIs
<1>11. \A b \in S : f[b] \in T /\ f[b] >= 1
  BY <1>2, <1>3, <1>4, <1>6, LongestIs
<1>12. Wait(l, e) \in 0..Longest
  BY <1>8, <1>9, <1>10
<1>13. Wait(l, e) = 0 => S = {}
  <2>1. \A b \in S : Wait(l, e) >= f[b] /\ f[b] >= 1
    BY <1>8, <1>9, <1>11
  <2>2. \A b \in S : f[b] \in Int
    BY <1>3, <1>5
  <2> QED
    BY <2>1, <2>2, <1>12, LongestIs
<1> QED
  BY <1>2, <1>12, <1>13
-------------------------------------------------------------------------------
(* What one caller does                                                    *)

LEMMA NoCallTyped ==
  /\ NoCall \in Calls /\ NoCall.pc = "idle" /\ NoCall.answers = <<>>
  /\ NoRows \in [requested : 0..Attempts, ended : 0..Attempts] /\ NoRows.ended <= NoRows.requested
<1>1. <<>> \in Seq(Classes) /\ 0 \in 0..Longest /\ 0 \in 0..Attempts
  BY LongestIs, CallAssumption
<1> QED
  BY <1>1 DEF NoCall, Calls, NoRows

LEMMA CallUpdate ==
  ASSUME TypeOK, NEW c \in Callers, NEW r \in Calls, Set(c, r)
  PROVE  /\ call' \in [Callers -> Calls] /\ call'[c] = r
         /\ \A d \in Callers : d # c => call'[d] = call[d]
BY DEF TypeOK, Set

LEMMA RowsUpdate ==
  ASSUME TypeOK, NEW c \in Callers, NEW r, rows' = [rows EXCEPT ![c] = r],
         r \in [requested : 0..Attempts, ended : 0..Attempts], r.ended <= r.requested
  PROVE  /\ rows' \in [Callers -> [requested : 0..Attempts, ended : 0..Attempts]]
         /\ rows'[c] = r /\ \A d \in Callers : d # c => rows'[d] = rows[d]
         /\ \A d \in Callers : rows'[d].ended <= rows'[d].requested
BY DEF TypeOK

\* Whoever is in the row is queued or sleeps.
LEMMA InRow ==
  ASSUME TypeOK, NEW l \in Limiters, NEW c \in Callers
  PROVE  c \in ToSet(tail[l]) <=> LimiterOf[c] = l /\ call[c].pc \in {"queued", "sleeping"}
BY DEF TypeOK

LEMMA CallersKept ==
  ASSUME \A d \in Callers : CallInv(d), NEW c \in Callers, CallInv(c)',
         \A d \in Callers : d # c => call'[d] = call[d] /\ rows'[d] = rows[d]
  PROVE  \A d \in Callers : CallInv(d)'
<1>1. SUFFICES ASSUME NEW d \in Callers, d # c PROVE CallInv(d)'
  OBVIOUS
<1>2. CallInv(d) /\ call'[d] = call[d] /\ rows'[d] = rows[d]
  BY <1>1
<1> QED
  BY <1>2 DEF CallInv

\* A limiter that grants nothing, at one moment.
LEMMA StampsKept ==
  ASSUME StampInv, UNCHANGED <<stamps, grants>>
  PROVE  StampInv'
BY DEF StampInv, Aging, Sorted, Active, Recent

\* A caller who is not in the row steps out of it or beside it.
LEMMA OutOfRow ==
  ASSUME IInv, NEW c \in Callers, call[c].pc \notin {"queued", "sleeping"},
         NEW r \in Calls, Set(c, r), r.pc \notin {"queued", "sleeping"},
         NEW q, rows' = [rows EXCEPT ![c] = q],
         q \in [requested : 0..Attempts, ended : 0..Attempts], q.ended <= q.requested,
         CallInv(c)', UNCHANGED <<stamps, tail, grants>>
  PROVE  IInv'
<1> USE DEF IInv
<1>1. /\ call' \in [Callers -> Calls] /\ call'[c] = r
      /\ \A d \in Callers : d # c => call'[d] = call[d]
  BY CallUpdate
<1>2. /\ rows' \in [Callers -> [requested : 0..Attempts, ended : 0..Attempts]]
      /\ rows'[c] = q /\ \A d \in Callers : d # c => rows'[d] = rows[d]
      /\ \A d \in Callers : rows'[d].ended <= rows'[d].requested
  BY RowsUpdate
<1>3. \A l \in Limiters : IsInjective(tail'[l]) /\ ToSet(tail'[l]) =
        {d \in Callers : LimiterOf[d] = l /\ call'[d].pc \in {"queued", "sleeping"}}
  <2>1. SUFFICES ASSUME NEW l \in Limiters
                 PROVE  {d \in Callers : LimiterOf[d] = l /\ call[d].pc \in {"queued", "sleeping"}} =
                        {d \in Callers : LimiterOf[d] = l /\ call'[d].pc \in {"queued", "sleeping"}}
    BY DEF TypeOK
  <2> QED
    BY <1>1
<1>4. TypeOK'
  BY <1>1, <1>2, <1>3 DEF TypeOK
<1>5. \A d \in Callers : CallInv(d)'
  BY <1>1, <1>2, CallersKept
<1> QED
  BY <1>4, <1>5, StampsKept

LEMMA EndKeeps ==
  ASSUME IInv, NEW c \in Callers, call[c].pc \notin {"queued", "sleeping"}, End(c),
         UNCHANGED <<stamps, tail, grants>>
  PROVE  IInv'
<1>1. /\ NoCall \in Calls /\ NoCall.pc \notin {"queued", "sleeping"} /\ Set(c, NoCall)
      /\ rows' = [rows EXCEPT ![c] = NoRows]
  BY NoCallTyped DEF End
<1>2. call'[c] = NoCall /\ rows'[c] = NoRows
  BY <1>1, NoCallTyped, CallUpdate, RowsUpdate DEF IInv
<1>3. CallInv(c)'
  BY <1>2, NoCallTyped, EmptySeq DEF CallInv
<1> QED
  BY <1>1, <1>3, NoCallTyped, OutOfRow

\* An attempt is announced and takes its place in the row.
LEMMA AnnounceKeeps ==
  ASSUME IInv, NEW c \in Callers, call[c].pc \notin {"queued", "sleeping"},
         NEW next \in Calls, Announce(c, next), UNCHANGED <<stamps, grants>>,
         next.endpoint \in Endpoints, next.attempt \in 1..Attempts,
         Len(next.answers) = next.attempt - 1,
         rows[c].requested = next.attempt - 1, rows[c].ended = Len(next.answers),
         Len(next.answers) > 0 =>
           /\ next.endpoint # "create_invite"
           /\ \A n \in 1..Len(next.answers) : next.answers[n] \in {"rate_limited", "provider_error"}
  PROVE  IInv'
<1>1. CASE End(c) /\ UNCHANGED tail
  BY <1>1, EndKeeps
<1>2. ASSUME Set(c, [next EXCEPT !.pc = "queued"]),
             rows' = [rows EXCEPT ![c].requested = @ + 1],
             tail' = [tail EXCEPT ![LimiterOf[c]] = Append(@, c)]
      PROVE  IInv'
  <2> USE DEF IInv
  <2>1. PICK r : r = [next EXCEPT !.pc = "queued"]
    OBVIOUS
  <2>2. /\ r \in Calls /\ r.pc = "queued" /\ r.endpoint = next.endpoint
        /\ r.attempt = next.attempt /\ r.answers = next.answers
    BY <2>1 DEF Calls
  <2>3. /\ call' \in [Callers -> Calls] /\ call'[c] = r
        /\ \A d \in Callers : d # c => call'[d] = call[d]
    BY <1>2, <2>1, <2>2, CallUpdate
  <2>4. PICK q : q = [rows[c] EXCEPT !.requested = @ + 1]
    OBVIOUS
  <2>5. /\ q \in [requested : 0..Attempts, ended : 0..Attempts] /\ q.ended <= q.requested
        /\ q.requested = next.attempt /\ q.ended = Len(next.answers)
    <3>1. rows[c] \in [requested : 0..Attempts, ended : 0..Attempts] /\ Attempts \in Nat
          /\ rows[c].ended <= rows[c].requested
      BY CallAssumption DEF TypeOK
    <3> QED
      BY <2>4, <3>1
  <2>6. /\ rows' \in [Callers -> [requested : 0..Attempts, ended : 0..Attempts]]
        /\ rows'[c] = q /\ \A d \in Callers : d # c => rows'[d] = rows[d]
        /\ \A d \in Callers : rows'[d].ended <= rows'[d].requested
    <3>1. rows' = [rows EXCEPT ![c] = q]
      BY <1>2, <2>4
    <3> QED
      BY <2>5, <3>1, RowsUpdate
  <2>7. PICK k \in Limiters : k = LimiterOf[c]
    BY CallAssumption
  <2>8. /\ tail' \in [Limiters -> Seq(Callers)]
        /\ \A l \in Limiters : IsInjective(tail'[l]) /\ ToSet(tail'[l]) =
             {d \in Callers : LimiterOf[d] = l /\ call'[d].pc \in {"queued", "sleeping"}}
    <3>1. PICK s : s = Append(tail[k], c)
      OBVIOUS
    <3>2. tail[k] \in Seq(Callers) /\ IsInjective(tail[k]) /\ c \notin ToSet(tail[k])
      BY InRow DEF TypeOK
    <3>3. s \in Seq(Callers) /\ IsInjective(s) /\ ToSet(s) = ToSet(tail[k]) \cup {c}
      BY <3>1, <3>2, JoinRow
    <3>4. /\ tail' \in [Limiters -> Seq(Callers)] /\ tail'[k] = s
          /\ \A l \in Limiters : l # k => tail'[l] = tail[l]
      BY <1>2, <2>7, <3>1, <3>3 DEF TypeOK
    <3>5. ASSUME NEW l \in Limiters
          PROVE  IsInjective(tail'[l]) /\ ToSet(tail'[l]) =
                   {d \in Callers : LimiterOf[d] = l /\ call'[d].pc \in {"queued", "sleeping"}}
      <4>1. IsInjective(tail[l]) /\ ToSet(tail[l]) =
              {d \in Callers : LimiterOf[d] = l /\ call[d].pc \in {"queued", "sleeping"}}
        BY DEF TypeOK
      <4>2. CASE l = k
        BY <2>2, <2>3, <2>7, <3>3, <3>4, <4>1, <4>2
      <4>3. CASE l # k
        BY <2>3, <2>7, <3>4, <4>1, <4>3
      <4> QED
        BY <4>2, <4>3
    <3> QED
      BY <3>4, <3>5
  <2>9. TypeOK'
    BY <2>3, <2>6, <2>8 DEF TypeOK
  <2>10. CallInv(c)'
    BY <2>2, <2>3, <2>5, <2>6 DEF CallInv
  <2>11. \A d \in Callers : CallInv(d)'
    BY <2>3, <2>6, <2>10, CallersKept
  <2> QED
    BY <2>9, <2>11, StampsKept
<1> QED
  BY <1>1, <1>2 DEF Announce
-------------------------------------------------------------------------------
(* The limiter                                                             *)

\* The ages a limiter has pruned say the same of the window.
LEMMA Pruned ==
  ASSUME NEW w \in Nat \ {0}, NEW s, Aging(s, w)
  PROVE  /\ Aging(Recent(s, w), w) /\ Len(Recent(s, w)) <= Len(s)
         /\ Recent(Recent(s, w), w) = Recent(s, w)
         /\ Aging(Append(Recent(s, w), 0), w)
         /\ Len(Append(Recent(s, w), 0)) = Len(Recent(s, w)) + 1
         /\ Recent(Append(Recent(s, w), 0), w) = Append(Recent(s, w), 0)
<1>1. PICK r : r = Recent(s, w)
  OBVIOUS
<1>2. /\ r \in Seq(Nat) /\ Len(r) <= Len(s) /\ Sorted(r) /\ \A n \in 1..Len(r) : r[n] < w
  BY <1>1, RecentParts DEF Aging
<1>3. Recent(r, w) = r
  BY <1>2, RecentAll
<1>4. \A n \in 1..Len(r) : r[n] <= w
  <2>1. \A n \in 1..Len(r) : r[n] \in Nat /\ r[n] < w
    BY <1>2
  <2> QED
    BY <2>1
<1>5. PICK t : t = Append(r, 0)
  OBVIOUS
<1>6. /\ t \in Seq(Nat) /\ Len(t) = Len(r) + 1 /\ Sorted(t) /\ Recent(t, w) = t
      /\ \A n \in 1..Len(t) : t[n] < w
  BY <1>2, <1>5, RecentGrows
<1>7. \A n \in 1..Len(t) : t[n] <= w
  <2>1. \A n \in 1..Len(t) : t[n] \in Nat /\ t[n] < w
    BY <1>6
  <2> QED
    BY <2>1
<1> QED
  BY <1>1, <1>2, <1>3, <1>4, <1>5, <1>6, <1>7 DEF Aging

\* The ages of one limiter change, each budget soundly.
LEMMA StampsUpdate ==
  ASSUME TypeOK, StampInv, NEW l \in Limiters,
         NEW new \in [Budgets -> Seq(Nat)], stamps' = [stamps EXCEPT ![l] = new],
         NEW given \in [Budgets -> Seq(Nat)], grants' = [grants EXCEPT ![l] = given],
         \A b \in Budgets : /\ Aging(new[b], Window[b]) /\ Len(new[b]) <= Limit[b]
                            /\ given[b] = Recent(new[b], Window[b])
  PROVE  /\ StampInv' /\ stamps' \in [Limiters -> [Budgets -> Seq(Nat)]]
         /\ grants' \in [Limiters -> [Budgets -> Seq(Nat)]]
         /\ \A k \in Limiters, b \in Budgets : Len(stamps'[k][b]) <= Limit[b]
<1>1. /\ stamps' \in [Limiters -> [Budgets -> Seq(Nat)]] /\ stamps'[l] = new
      /\ grants' \in [Limiters -> [Budgets -> Seq(Nat)]] /\ grants'[l] = given
      /\ \A k \in Limiters : k # l => stamps'[k] = stamps[k] /\ grants'[k] = grants[k]
  BY DEF TypeOK
<1>2. ASSUME NEW k \in Limiters, NEW b \in Budgets
      PROVE  /\ Aging(stamps'[k][b], Window[b]) /\ Len(stamps'[k][b]) <= Limit[b]
             /\ grants'[k][b] = Recent(stamps'[k][b], Window[b])
  <2>1. CASE k = l
    BY <1>1, <2>1
  <2>2. CASE k # l
    <3>1. /\ Aging(stamps[k][b], Window[b]) /\ Len(stamps[k][b]) <= Limit[b]
          /\ grants[k][b] = Recent(stamps[k][b], Window[b])
      BY DEF StampInv, Active, TypeOK
    <3> QED
      BY <1>1, <2>2, <3>1
  <2> QED
    BY <2>1, <2>2
<1>3. StampInv'
  BY <1>2 DEF StampInv, Active
<1> QED
  BY <1>1, <1>2, <1>3

\* What becomes of an acquisition of c from the limiter l: c sleeps, or is sent.
PutToSleep(c, l, needs, wait) ==
  /\ wait > 0
  /\ Set(c, [call[c] EXCEPT !.pc = "sleeping", !.wait = wait])
  /\ stamps' = [stamps EXCEPT ![l] =
       [b \in Budgets |-> IF b \in needs THEN Active(l, b) ELSE stamps[l][b]]]
  /\ UNCHANGED <<tail, grants>>

Granted(c, l, needs) ==
  /\ Set(c, [call[c] EXCEPT !.pc = "sent"])
  /\ stamps' = [stamps EXCEPT ![l] =
       [b \in Budgets |-> IF b \in needs THEN Append(Active(l, b), 0) ELSE stamps[l][b]]]
  /\ tail' = [tail EXCEPT ![l] = Tail(@)]
  /\ grants' = [grants EXCEPT ![l] =
       [b \in Budgets |-> IF b \in needs THEN Append(grants[l][b], 0) ELSE grants[l][b]]]

LEMMA AcquireParts ==
  ASSUME TypeOK, NEW c \in Callers, Acquire(c), NEW l, l = LimiterOf[c],
         NEW needs, needs = BudgetsOf(call[c].endpoint), NEW wait, wait = Wait(l, call[c].endpoint)
  PROVE  /\ call[c].pc = "queued" /\ Head(tail[l]) = c /\ rows' = rows
         /\ PutToSleep(c, l, needs, wait) \/ (wait = 0 /\ Granted(c, l, needs))
<1> DEFINE pruned == [b \in Budgets |-> IF b \in needs THEN Active(l, b) ELSE stamps[l][b]]
<1>1. [b \in Budgets |-> IF b \in needs THEN Append(pruned[b], 0) ELSE pruned[b]] =
      [b \in Budgets |-> IF b \in needs THEN Append(Active(l, b), 0) ELSE stamps[l][b]]
  OBVIOUS
<1>2. l \in Limiters /\ grants \in [Limiters -> [Budgets -> Seq(Nat)]]
  BY CallAssumption DEF TypeOK
<1> QED
  BY <1>1, <1>2 DEF Acquire, Turn, PutToSleep, Granted

\* The limiter looks: who is not first waits, who finds no room sleeps, and what
\* is granted has room in every budget.
LEMMA AcquireKeeps ==
  ASSUME IInv, NEW c \in Callers, Acquire(c)
  PROVE  IInv'
<1> USE DEF IInv
<1>1. PICK l \in Limiters : l = LimiterOf[c]
  BY CallAssumption
<1>2. PICK needs : needs = BudgetsOf(call[c].endpoint)
  OBVIOUS
<1>3. PICK wait : wait = Wait(l, call[c].endpoint)
  OBVIOUS
<1>4. call[c].pc = "queued" /\ Head(tail[l]) = c /\ rows' = rows
  BY <1>1, AcquireParts
<1>5. /\ call[c] \in Calls /\ call[c].endpoint \in Endpoints /\ CallInv(c)
  BY <1>4 DEF CallInv, TypeOK
<1>6. needs \in SUBSET Budgets /\ wait \in 0..Longest
      /\ (wait = 0 => \A b \in needs : ~Full(l, b))
  BY <1>2, <1>3, <1>5, BudgetsAre, WaitIs
<1>7. \A b \in Budgets : Window[b] \in Nat \ {0} /\ Limit[b] \in Nat \ {0}
  BY CallAssumption
<1>8. \A b \in Budgets : /\ Aging(stamps[l][b], Window[b]) /\ Len(stamps[l][b]) <= Limit[b]
                         /\ Active(l, b) = Recent(stamps[l][b], Window[b])
                         /\ grants[l][b] = Recent(stamps[l][b], Window[b])
  BY DEF StampInv, Active, TypeOK
<1>9. CASE PutToSleep(c, l, needs, wait)
  <2>1. PICK r : r = [call[c] EXCEPT !.pc = "sleeping", !.wait = wait]
    OBVIOUS
  <2>2. /\ r \in Calls /\ r.pc = "sleeping" /\ r.endpoint = call[c].endpoint
        /\ r.attempt = call[c].attempt /\ r.answers = call[c].answers
    BY <1>5, <1>6, <2>1 DEF Calls
  <2>3. /\ call' \in [Callers -> Calls] /\ call'[c] = r
        /\ \A d \in Callers : d # c => call'[d] = call[d]
    BY <1>9, <2>1, <2>2, CallUpdate DEF PutToSleep
  <2>4. PICK new : new = [b \in Budgets |-> IF b \in needs THEN Active(l, b) ELSE stamps[l][b]]
    OBVIOUS
  <2>5. \A b \in Budgets : /\ Aging(new[b], Window[b]) /\ Len(new[b]) <= Limit[b]
                           /\ grants[l][b] = Recent(new[b], Window[b])
    <3>1. SUFFICES ASSUME NEW b \in Budgets
                   PROVE  /\ Aging(new[b], Window[b]) /\ Len(new[b]) <= Limit[b]
                          /\ grants[l][b] = Recent(new[b], Window[b])
      OBVIOUS
    <3>2. CASE b \in needs
      <4>1. /\ Aging(Recent(stamps[l][b], Window[b]), Window[b])
            /\ Len(Recent(stamps[l][b], Window[b])) <= Len(stamps[l][b])
            /\ Recent(Recent(stamps[l][b], Window[b]), Window[b]) = Recent(stamps[l][b], Window[b])
        BY <1>7, <1>8, Pruned
      <4>2. Len(Recent(stamps[l][b], Window[b])) \in Nat /\ Len(stamps[l][b]) \in Nat
        BY <1>8, <4>1 DEF Aging
      <4> QED
        BY <1>7, <1>8, <2>4, <3>2, <4>1, <4>2
    <3>3. CASE b \notin needs
      BY <1>8, <2>4, <3>3
    <3> QED
      BY <3>2, <3>3
  <2>6. new \in [Budgets -> Seq(Nat)]
    BY <2>4, <2>5 DEF Aging
  <2>7. PICK given \in [Budgets -> Seq(Nat)] : given = grants[l]
    BY DEF TypeOK
  <2>7a. stamps' = [stamps EXCEPT ![l] = new] /\ grants' = [grants EXCEPT ![l] = given]
    BY <1>9, <2>4, <2>7 DEF TypeOK, PutToSleep
  <2>7b. \A b \in Budgets : /\ Aging(new[b], Window[b]) /\ Len(new[b]) <= Limit[b]
                            /\ given[b] = Recent(new[b], Window[b])
    BY <2>5, <2>7
  <2>8. /\ StampInv' /\ stamps' \in [Limiters -> [Budgets -> Seq(Nat)]]
        /\ grants' \in [Limiters -> [Budgets -> Seq(Nat)]]
        /\ \A k \in Limiters, b \in Budgets : Len(stamps'[k][b]) <= Limit[b]
    BY <2>6, <2>7, <2>7a, <2>7b, StampsUpdate
  <2>9. \A k \in Limiters : IsInjective(tail'[k]) /\ ToSet(tail'[k]) =
          {d \in Callers : LimiterOf[d] = k /\ call'[d].pc \in {"queued", "sleeping"}}
    <3>1. \A d \in Callers : call'[d].pc \in {"queued", "sleeping"} <=> call[d].pc \in {"queued", "sleeping"}
      BY <1>4, <2>2, <2>3
    <3> QED
      BY <1>9, <3>1 DEF TypeOK, PutToSleep
  <2>10. TypeOK'
    BY <1>4, <1>9, <2>3, <2>8, <2>9 DEF TypeOK, PutToSleep
  <2>11. CallInv(c)'
    BY <1>4, <1>5, <2>2, <2>3 DEF CallInv
  <2>12. \A d \in Callers : CallInv(d)'
    BY <1>4, <2>3, <2>11, CallersKept
  <2> QED
    BY <2>8, <2>10, <2>12
<1>10. CASE wait = 0 /\ Granted(c, l, needs)
  <2>1. PICK r : r = [call[c] EXCEPT !.pc = "sent"]
    OBVIOUS
  <2>2. /\ r \in Calls /\ r.pc = "sent" /\ r.endpoint = call[c].endpoint
        /\ r.attempt = call[c].attempt /\ r.answers = call[c].answers
    BY <1>5, <2>1 DEF Calls
  <2>3. /\ call' \in [Callers -> Calls] /\ call'[c] = r
        /\ \A d \in Callers : d # c => call'[d] = call[d]
    BY <1>10, <2>1, <2>2, CallUpdate DEF Granted
  <2>4. PICK new : new = [b \in Budgets |-> IF b \in needs THEN Append(Active(l, b), 0) ELSE stamps[l][b]]
    OBVIOUS
  <2>5. PICK given : given = [b \in Budgets |-> IF b \in needs THEN Append(grants[l][b], 0) ELSE grants[l][b]]
    OBVIOUS
  <2>6. ASSUME NEW b \in Budgets
        PROVE  /\ Aging(new[b], Window[b]) /\ Len(new[b]) <= Limit[b]
               /\ given[b] = Recent(new[b], Window[b]) /\ given[b] \in Seq(Nat)
    <3>1. CASE b \in needs
      <4>1. PICK a : a = Recent(stamps[l][b], Window[b])
        OBVIOUS
      <4>2. /\ Aging(a, Window[b]) /\ Aging(Append(a, 0), Window[b]) /\ Len(Append(a, 0)) = Len(a) + 1
            /\ Recent(Append(a, 0), Window[b]) = Append(a, 0)
        BY <1>7, <1>8, <4>1, Pruned
      <4>3. new[b] = Append(a, 0) /\ given[b] = Append(a, 0)
        BY <1>8, <2>4, <2>5, <3>1, <4>1
      <4>4. Len(a) \in Nat /\ Append(a, 0) \in Seq(Nat)
        BY <4>2 DEF Aging
      <4>5. ~(Len(a) >= Limit[b]) /\ Limit[b] \in Nat
        BY <1>6, <1>7, <1>8, <1>10, <3>1, <4>1 DEF Full
      <4>6. Len(a) + 1 <= Limit[b]
        BY <4>4, <4>5
      <4> QED
        BY <4>2, <4>3, <4>4, <4>6
    <3>2. CASE b \notin needs
      BY <1>8, <2>4, <2>5, <3>2 DEF TypeOK
    <3> QED
      BY <3>1, <3>2
  <2>7. new \in [Budgets -> Seq(Nat)] /\ given \in [Budgets -> Seq(Nat)]
    BY <2>4, <2>5, <2>6 DEF Aging
  <2>7a. stamps' = [stamps EXCEPT ![l] = new] /\ grants' = [grants EXCEPT ![l] = given]
    BY <1>10, <2>4, <2>5 DEF Granted
  <2>8. /\ StampInv' /\ stamps' \in [Limiters -> [Budgets -> Seq(Nat)]]
        /\ grants' \in [Limiters -> [Budgets -> Seq(Nat)]]
        /\ \A k \in Limiters, b \in Budgets : Len(stamps'[k][b]) <= Limit[b]
    BY <2>6, <2>7, <2>7a, StampsUpdate
  <2>9. /\ tail' \in [Limiters -> Seq(Callers)]
        /\ \A k \in Limiters : IsInjective(tail'[k]) /\ ToSet(tail'[k]) =
             {d \in Callers : LimiterOf[d] = k /\ call'[d].pc \in {"queued", "sleeping"}}
    <3>1. PICK s : s = Tail(tail[l])
      OBVIOUS
    <3>2. c \in ToSet(tail[l]) /\ tail[l] \in Seq(Callers) /\ IsInjective(tail[l])
      BY <1>1, <1>4, InRow DEF TypeOK
    <3>3. tail[l] # <<>>
      BY <3>2 DEF ToSet
    <3>4. s \in Seq(Callers) /\ IsInjective(s) /\ ToSet(s) = ToSet(tail[l]) \ {c}
      BY <1>4, <3>1, <3>2, <3>3, LeaveRow
    <3>5. /\ tail' \in [Limiters -> Seq(Callers)] /\ tail'[l] = s
          /\ \A k \in Limiters : k # l => tail'[k] = tail[k]
      BY <1>10, <3>1, <3>4 DEF TypeOK, Granted
    <3>6. ASSUME NEW k \in Limiters
          PROVE  IsInjective(tail'[k]) /\ ToSet(tail'[k]) =
                   {d \in Callers : LimiterOf[d] = k /\ call'[d].pc \in {"queued", "sleeping"}}
      <4>1. IsInjective(tail[k]) /\ ToSet(tail[k]) =
              {d \in Callers : LimiterOf[d] = k /\ call[d].pc \in {"queued", "sleeping"}}
        BY DEF TypeOK
      <4>2. CASE k = l
        BY <2>2, <2>3, <3>4, <3>5, <4>1, <4>2
      <4>3. CASE k # l
        BY <1>1, <2>3, <3>5, <4>1, <4>3
      <4> QED
        BY <4>2, <4>3
    <3> QED
      BY <3>5, <3>6
  <2>10. TypeOK'
    BY <1>4, <2>3, <2>8, <2>9 DEF TypeOK
  <2>11. CallInv(c)'
    BY <1>4, <1>5, <2>2, <2>3 DEF CallInv
  <2>12. \A d \in Callers : CallInv(d)'
    BY <1>4, <2>3, <2>11, CallersKept
  <2> QED
    BY <2>8, <2>10, <2>12
<1> QED
  BY <1>1, <1>2, <1>3, <1>9, <1>10, AcquireParts

-------------------------------------------------------------------------------
(* The other steps                                                         *)

LEMMA WakeKeeps ==
  ASSUME IInv, NEW c \in Callers, Wake(c)
  PROVE  IInv'
<1> USE DEF IInv
<1>1. PICK r : r = [call[c] EXCEPT !.pc = "queued"]
  OBVIOUS
<1>2. call[c] \in Calls /\ call[c].pc = "sleeping" /\ CallInv(c)
  BY DEF Wake, TypeOK
<1>3. /\ r \in Calls /\ r.pc = "queued" /\ r.endpoint = call[c].endpoint
      /\ r.attempt = call[c].attempt /\ r.answers = call[c].answers
  BY <1>1, <1>2 DEF Calls
<1>4. /\ call' \in [Callers -> Calls] /\ call'[c] = r
      /\ \A d \in Callers : d # c => call'[d] = call[d]
  BY <1>1, <1>3, CallUpdate DEF Wake
<1>5. UNCHANGED <<stamps, tail, rows, grants>>
  BY DEF Wake
<1>6. TypeOK'
  <2>1. \A d \in Callers : call'[d].pc \in {"queued", "sleeping"} <=> call[d].pc \in {"queued", "sleeping"}
    BY <1>2, <1>3, <1>4
  <2>2. \A l \in Limiters : IsInjective(tail'[l]) /\ ToSet(tail'[l]) =
          {d \in Callers : LimiterOf[d] = l /\ call'[d].pc \in {"queued", "sleeping"}}
    BY <1>5, <2>1 DEF TypeOK
  <2> QED
    BY <1>4, <1>5, <2>2 DEF TypeOK
<1>7. CallInv(c)'
  BY <1>2, <1>3, <1>4, <1>5 DEF CallInv
<1>8. \A d \in Callers : CallInv(d)'
  BY <1>4, <1>5, <1>7, CallersKept
<1> QED
  BY <1>5, <1>6, <1>8, StampsKept

LEMMA StartKeeps ==
  ASSUME IInv, NEW c \in Callers, NEW e \in Endpoints, Start(c, e)
  PROVE  IInv'
<1>1. PICK next : next = [NoCall EXCEPT !.endpoint = e, !.attempt = 1]
  OBVIOUS
<1>2. /\ call[c].pc = "idle" /\ Announce(c, next) /\ UNCHANGED <<stamps, grants>>
  BY <1>1 DEF Start
<1>3. 1 \in 1..Attempts
  BY CallAssumption
<1>4. /\ next \in Calls /\ next.endpoint = e /\ next.attempt = 1 /\ next.answers = <<>>
  <2>1. <<>> \in Seq(Classes) /\ 0 \in 0..Longest /\ 1 \in 0..Attempts /\ e \in Endpoints \cup {"none"}
    BY <1>3, LongestIs, CallAssumption
  <2>2. next = [pc |-> "idle", endpoint |-> e, attempt |-> 1, wait |-> 0, answers |-> <<>>]
    BY <1>1 DEF NoCall
  <2> QED
    BY <2>1, <2>2 DEF Calls
<1>5. rows[c].requested = 0 /\ rows[c].ended = 0
  BY <1>2 DEF IInv, CallInv, NoRows
<1>6. Len(next.answers) = 0
  BY <1>4
<1> QED
  BY <1>2, <1>3, <1>4, <1>5, <1>6, AnnounceKeeps

LEMMA TryAgainKeeps ==
  ASSUME IInv, NEW c \in Callers, TryAgain(c)
  PROVE  IInv'
<1>1. PICK next : next = [call[c] EXCEPT !.attempt = @ + 1]
  OBVIOUS
<1>2. call[c].pc = "resting" /\ Announce(c, next) /\ UNCHANGED <<stamps, grants>>
  BY <1>1 DEF TryAgain
<1>3. /\ call[c] \in Calls /\ CallInv(c) /\ Attempts \in Nat
      /\ call[c].attempt \in 1..Attempts /\ call[c].attempt < Attempts
  BY <1>2, CallAssumption DEF IInv, TypeOK, CallInv
<1>4. /\ next \in Calls /\ next.endpoint = call[c].endpoint
      /\ next.attempt = call[c].attempt + 1 /\ next.answers = call[c].answers
      /\ next.attempt \in 1..Attempts
  BY <1>1, <1>3 DEF Calls
<1>5. /\ next.endpoint \in Endpoints /\ Len(next.answers) = next.attempt - 1
      /\ rows[c].requested = next.attempt - 1 /\ rows[c].ended = Len(next.answers)
      /\ Len(next.answers) > 0 =>
           /\ next.endpoint # "create_invite"
           /\ \A n \in 1..Len(next.answers) : next.answers[n] \in {"rate_limited", "provider_error"}
  BY <1>2, <1>3, <1>4 DEF CallInv
<1> QED
  BY <1>2, <1>4, <1>5, AnnounceKeeps

\* A refusal on record joins the others; any other answer ends the operation.
LEMMA AnswerKeeps ==
  ASSUME IInv, NEW c \in Callers, Answer(c)
  PROVE  IInv'
<1>1. /\ call[c].pc = "sent" /\ UNCHANGED <<stamps, tail, grants>>
      /\ call[c] \in Calls /\ CallInv(c)
  BY DEF Answer, IInv, TypeOK
<1>2. CASE End(c)
  BY <1>1, <1>2, EndKeeps
<1>3. ASSUME NEW class \in Classes, class # "transport_ambiguous",
             Retryable(call[c].endpoint, class), call[c].attempt < Attempts,
             Set(c, [call[c] EXCEPT !.pc = "resting", !.wait = 1, !.answers = Append(@, class)]),
             rows' = [rows EXCEPT ![c].ended = @ + 1]
      PROVE  IInv'
  <2>1. class \in {"rate_limited", "provider_error"} /\ call[c].endpoint # "create_invite"
    BY <1>3 DEF Retryable, RetrySafe
  <2>2. PICK s : s = Append(call[c].answers, class)
    OBVIOUS
  <2>3. call[c].answers \in Seq(Classes) /\ Len(call[c].answers) \in Nat
    BY <1>1 DEF Calls
  <2>4. /\ s \in Seq(Classes) /\ Len(s) = Len(call[c].answers) + 1
        /\ \A n \in 1..Len(call[c].answers) : s[n] = call[c].answers[n]
        /\ s[Len(call[c].answers) + 1] = class
    BY <2>2, <2>3, AppendProperties
  <2>5. \A n \in 1..Len(s) : s[n] \in {"rate_limited", "provider_error"}
    <3>1. SUFFICES ASSUME NEW n \in 1..Len(s) PROVE s[n] \in {"rate_limited", "provider_error"}
      OBVIOUS
    <3>2. CASE n = Len(call[c].answers) + 1
      BY <2>1, <2>4, <3>2
    <3>3. CASE n # Len(call[c].answers) + 1
      <4>1. n \in 1..Len(call[c].answers) /\ Len(call[c].answers) > 0
        BY <2>3, <2>4, <3>3
      <4> QED
        BY <1>1, <2>4, <4>1 DEF CallInv
    <3> QED
      BY <3>2, <3>3
  <2>6. PICK r : r = [call[c] EXCEPT !.pc = "resting", !.wait = 1, !.answers = s]
    OBVIOUS
  <2>7. 1 \in 0..Longest
    <3>1. "analytics" \in Budgets
      BY DEF Budgets
    <3> QED
      BY <3>1, LongestIs
  <2>8. /\ r \in Calls /\ r.pc = "resting" /\ r.endpoint = call[c].endpoint
        /\ r.attempt = call[c].attempt /\ r.answers = s
    BY <1>1, <2>4, <2>6, <2>7 DEF Calls
  <2>9. Set(c, r)
    BY <1>3, <2>2, <2>6
  <2>10. PICK q : q = [rows[c] EXCEPT !.ended = @ + 1]
    OBVIOUS
  <2>11. /\ call[c].endpoint \in Endpoints /\ call[c].attempt \in 1..Attempts
         /\ rows[c].requested = call[c].attempt /\ rows[c].ended = Len(call[c].answers)
         /\ Len(call[c].answers) = call[c].attempt - 1
    BY <1>1 DEF CallInv
  <2>12. /\ q \in [requested : 0..Attempts, ended : 0..Attempts] /\ q.ended <= q.requested
         /\ q.requested = call[c].attempt /\ q.ended = Len(s)
    <3>1. rows[c] \in [requested : 0..Attempts, ended : 0..Attempts] /\ Attempts \in Nat
      BY CallAssumption DEF IInv, TypeOK
    <3>2. q.requested = call[c].attempt /\ q.ended = Len(s)
      BY <2>4, <2>10, <2>11, <3>1
    <3>3. q.requested \in 0..Attempts /\ q.ended = q.requested
      BY <2>3, <2>4, <2>11, <3>1, <3>2
    <3>4. q = [requested |-> q.requested, ended |-> q.ended]
      BY <2>10, <3>1
    <3> QED
      BY <3>1, <3>2, <3>3, <3>4
  <2>13. rows' = [rows EXCEPT ![c] = q]
    BY <1>3, <2>10
  <2>14. call'[c] = r /\ rows'[c] = q
    BY <2>8, <2>9, <2>12, <2>13, CallUpdate, RowsUpdate DEF IInv
  <2>15. CallInv(c)'
    BY <1>3, <2>1, <2>3, <2>4, <2>5, <2>8, <2>11, <2>12, <2>14 DEF CallInv
  <2> QED
    BY <1>1, <2>8, <2>9, <2>12, <2>13, <2>15, OutOfRow
<1> QED
  BY <1>2, <1>3 DEF Answer

\* A new run of a job: its limiter knows of no call, and none of its callers calls.
LEMMA NewRunKeeps ==
  ASSUME IInv, NEW l \in Limiters, NewRun(l)
  PROVE  IInv'
<1> USE DEF IInv
<1>1. ASSUME NEW d \in Callers
      PROVE  IF LimiterOf[d] = l THEN call'[d] = NoCall /\ rows'[d] = NoRows
                                 ELSE call'[d] = call[d] /\ rows'[d] = rows[d]
  BY DEF NewRun
<1>2. call' \in [Callers -> Calls]
  <2>1. call' = [d \in Callers |-> IF LimiterOf[d] = l THEN NoCall ELSE call[d]]
    BY DEF NewRun
  <2>2. \A d \in Callers : call[d] \in Calls
    BY DEF TypeOK
  <2> QED
    BY <2>1, <2>2, NoCallTyped
<1>3. rows' \in [Callers -> [requested : 0..Attempts, ended : 0..Attempts]]
  <2>1. rows' = [d \in Callers |-> IF LimiterOf[d] = l THEN NoRows ELSE rows[d]]
    BY DEF NewRun
  <2>2. \A d \in Callers : rows[d] \in [requested : 0..Attempts, ended : 0..Attempts]
    BY DEF TypeOK
  <2> QED
    BY <2>1, <2>2, NoCallTyped
<1>4. \A d \in Callers : rows'[d].ended <= rows'[d].requested
  BY <1>1, NoCallTyped DEF TypeOK
<1>5. PICK new : new = NoStamps
  OBVIOUS
<1>6. new \in [Budgets -> Seq(Nat)] /\ \A b \in Budgets : new[b] = <<>>
  BY <1>5 DEF NoStamps
<1>7. ASSUME NEW b \in Budgets
      PROVE  /\ Aging(new[b], Window[b]) /\ Len(new[b]) <= Limit[b]
             /\ new[b] = Recent(new[b], Window[b])
  <2>1. PICK s \in Seq(Nat) : s = new[b] /\ Len(s) = 0
    BY <1>6
  <2>2. Window[b] \in Nat /\ Limit[b] \in Nat
    BY CallAssumption
  <2>3. \A n \in 1..Len(s) : FALSE
    BY <2>1
  <2>4. Recent(s, Window[b]) = s
    BY <2>2, <2>3, RecentAll
  <2> QED
    BY <2>1, <2>2, <2>3, <2>4 DEF Aging, Sorted
<1>8. stamps' = [stamps EXCEPT ![l] = new] /\ grants' = [grants EXCEPT ![l] = new]
  BY <1>5 DEF NewRun
<1>9. /\ StampInv' /\ stamps' \in [Limiters -> [Budgets -> Seq(Nat)]]
      /\ grants' \in [Limiters -> [Budgets -> Seq(Nat)]]
      /\ \A k \in Limiters, b \in Budgets : Len(stamps'[k][b]) <= Limit[b]
  BY <1>6, <1>7, <1>8, StampsUpdate
<1>10. PICK none : none = <<>>
  OBVIOUS
<1>11. none \in Seq(Callers) /\ IsInjective(none) /\ ToSet(none) = {}
  BY <1>10 DEF IsInjective, ToSet
<1>12. /\ tail' \in [Limiters -> Seq(Callers)] /\ tail'[l] = none
       /\ \A k \in Limiters : k # l => tail'[k] = tail[k]
  <2>1. tail' = [tail EXCEPT ![l] = none]
    BY <1>10 DEF NewRun
  <2> QED
    BY <1>11, <2>1 DEF TypeOK
<1>13. ASSUME NEW k \in Limiters
       PROVE  IsInjective(tail'[k]) /\ ToSet(tail'[k]) =
                {d \in Callers : LimiterOf[d] = k /\ call'[d].pc \in {"queued", "sleeping"}}
  <2>1. CASE k = l
    <3>1. \A d \in Callers : LimiterOf[d] = k => call'[d].pc = "idle"
      BY <1>1, <2>1, NoCallTyped
    <3> QED
      BY <1>11, <1>12, <2>1, <3>1
  <2>2. CASE k # l
    <3>1. \A d \in Callers : LimiterOf[d] = k => call'[d] = call[d]
      BY <1>1, <2>2
    <3>2. IsInjective(tail[k]) /\ ToSet(tail[k]) =
            {d \in Callers : LimiterOf[d] = k /\ call[d].pc \in {"queued", "sleeping"}}
      BY DEF TypeOK
    <3>3. {d \in Callers : LimiterOf[d] = k /\ call[d].pc \in {"queued", "sleeping"}} =
          {d \in Callers : LimiterOf[d] = k /\ call'[d].pc \in {"queued", "sleeping"}}
      BY <3>1
    <3> QED
      BY <1>12, <2>2, <3>2, <3>3
  <2> QED
    BY <2>1, <2>2
<1>14. TypeOK'
  BY <1>2, <1>3, <1>4, <1>9, <1>12, <1>13 DEF TypeOK
<1>15. ASSUME NEW d \in Callers PROVE CallInv(d)'
  <2>1. CASE LimiterOf[d] = l
    BY <1>1, <2>1, NoCallTyped, EmptySeq DEF CallInv
  <2>2. CASE LimiterOf[d] # l
    <3>1. call'[d] = call[d] /\ rows'[d] = rows[d] /\ CallInv(d)
      BY <1>1, <2>2
    <3> QED
      BY <3>1 DEF CallInv
  <2> QED
    BY <2>1, <2>2
<1> QED
  BY <1>9, <1>14, <1>15

\* Time takes out of the window what the limiter ceases to remember.
LEMMA TickKeeps ==
  ASSUME IInv, Tick
  PROVE  IInv'
<1> USE DEF IInv
<1>1. ASSUME NEW l \in Limiters, NEW b \in Budgets
      PROVE  /\ stamps'[l][b] = Capped(stamps[l][b], Window[b])
             /\ grants'[l][b] = Recent(Later(grants[l][b]), Window[b])
  BY DEF Tick, Capped, Later
<1>2. ASSUME NEW l \in Limiters, NEW b \in Budgets
      PROVE  /\ Aging(stamps'[l][b], Window[b]) /\ Len(stamps'[l][b]) <= Limit[b]
             /\ grants'[l][b] = Recent(stamps'[l][b], Window[b])
  <2>1. PICK s : s = stamps[l][b]
    OBVIOUS
  <2>2. /\ Aging(s, Window[b]) /\ Len(s) <= Limit[b] /\ Window[b] \in Nat
        /\ grants[l][b] = Recent(s, Window[b])
    BY <2>1, CallAssumption DEF StampInv, Active, TypeOK
  <2>3. Aging(Capped(s, Window[b]), Window[b]) /\ Len(Capped(s, Window[b])) = Len(s)
    BY <2>2, CappedAges
  <2>4. Recent(Later(Recent(s, Window[b])), Window[b]) = Recent(Capped(s, Window[b]), Window[b])
    BY <2>2, RecentLater
  <2> QED
    BY <1>1, <2>1, <2>2, <2>3, <2>4
<1>3. stamps' \in [Limiters -> [Budgets -> Seq(Nat)]]
  <2>1. \A l \in Limiters, b \in Budgets : stamps'[l][b] \in Seq(Nat)
    BY <1>2 DEF Aging
  <2>2. PICK f : f = [l \in Limiters |-> [b \in Budgets |-> stamps'[l][b]]]
    OBVIOUS
  <2>3. stamps' = f
    BY <2>2 DEF Tick
  <2> QED
    BY <2>1, <2>2, <2>3
<1>4. grants' \in [Limiters -> [Budgets -> Seq(Nat)]]
  <2>1. ASSUME NEW l \in Limiters, NEW b \in Budgets PROVE grants'[l][b] \in Seq(Nat)
    <3>1. stamps'[l][b] \in Seq(Nat) /\ Sorted(stamps'[l][b]) /\ Window[b] \in Nat
      BY <1>2, CallAssumption DEF Aging
    <3> QED
      BY <1>2, <3>1, RecentParts
  <2>2. PICK f : f = [l \in Limiters |-> [b \in Budgets |-> grants'[l][b]]]
    OBVIOUS
  <2>3. grants' = f
    BY <2>2 DEF Tick
  <2> QED
    BY <2>1, <2>2, <2>3
<1>5. StampInv'
  BY <1>2 DEF StampInv, Active
<1>6. UNCHANGED <<tail, rows>>
  BY DEF Tick
<1>7. ASSUME NEW d \in Callers
      PROVE  /\ call'[d] \in Calls /\ call'[d].pc = call[d].pc
             /\ call'[d].endpoint = call[d].endpoint /\ call'[d].attempt = call[d].attempt
             /\ call'[d].answers = call[d].answers
             /\ call[d] = NoCall => call'[d] = NoCall
  <2>1. call[d] \in Calls /\ Longest \in Nat
    BY LongestIs DEF TypeOK
  <2>2. PICK w : w = IF call[d].wait > 0 THEN call[d].wait - 1 ELSE 0
    OBVIOUS
  <2>3. w \in 0..Longest
    BY <2>1, <2>2 DEF Calls
  <2>4. call'[d] = [call[d] EXCEPT !.wait = w]
    BY <2>2 DEF Tick
  <2>5. call'[d] \in Calls
    BY <2>1, <2>3, <2>4 DEF Calls
  <2>6. call[d] = NoCall => call'[d] = NoCall
    BY <2>2, <2>4 DEF NoCall
  <2> QED
    BY <2>1, <2>4, <2>5, <2>6 DEF Calls
<1>8. call' \in [Callers -> Calls]
  <2>1. PICK f : f = [d \in Callers |-> call'[d]]
    OBVIOUS
  <2>2. call' = f
    BY <2>1 DEF Tick
  <2> QED
    BY <1>7, <2>1, <2>2
<1>9. TypeOK'
  <2>1. \A l \in Limiters : IsInjective(tail'[l]) /\ ToSet(tail'[l]) =
          {d \in Callers : LimiterOf[d] = l /\ call'[d].pc \in {"queued", "sleeping"}}
    BY <1>6, <1>7 DEF TypeOK
  <2> QED
    BY <1>2, <1>3, <1>4, <1>6, <1>8, <2>1 DEF TypeOK
<1>10. ASSUME NEW d \in Callers PROVE CallInv(d)'
  BY <1>6, <1>7 DEF CallInv
<1> QED
  BY <1>5, <1>9, <1>10

-------------------------------------------------------------------------------
(* The theorems                                                            *)

\* At first nothing was granted, asked or put on record.
LEMMA InitHolds == Init => IInv
<1> SUFFICES ASSUME Init PROVE IInv
  OBVIOUS
<1>1. \A b \in Budgets : Window[b] \in Nat /\ Limit[b] \in Nat
  BY CallAssumption
<1>2. PICK none : none = <<>>
  OBVIOUS
<1>3. /\ none \in Seq(Nat) /\ none \in Seq(Callers) /\ Len(none) = 0
      /\ IsInjective(none) /\ ToSet(none) = {}
  BY <1>2 DEF IsInjective, ToSet
<1>4. \A w \in Nat : Aging(none, w) /\ Recent(none, w) = none
  <2>1. SUFFICES ASSUME NEW w \in Nat PROVE Aging(none, w) /\ Recent(none, w) = none
    OBVIOUS
  <2>2. \A n \in 1..Len(none) : FALSE
    BY <1>3
  <2>3. Recent(none, w) = none
    BY <1>3, <2>2, RecentAll
  <2> QED
    BY <1>3, <2>2, <2>3 DEF Aging, Sorted
<1>5. \A l \in Limiters, b \in Budgets : stamps[l][b] = none /\ grants[l][b] = none
  BY <1>2 DEF Init, NoStamps
<1>6. \A c \in Callers : call[c] = NoCall /\ rows[c] = NoRows
  BY DEF Init
<1>7. TypeOK
  <2>1. stamps \in [Limiters -> [Budgets -> Seq(Nat)]] /\ grants \in [Limiters -> [Budgets -> Seq(Nat)]]
    BY <1>2, <1>3 DEF Init, NoStamps
  <2>2. call \in [Callers -> Calls] /\ rows \in [Callers -> [requested : 0..Attempts, ended : 0..Attempts]]
    BY NoCallTyped DEF Init
  <2>3. tail \in [Limiters -> Seq(Callers)] /\ \A l \in Limiters : tail[l] = none
    BY <1>2, <1>3 DEF Init
  <2>4. \A l \in Limiters : {c \in Callers : LimiterOf[c] = l /\ call[c].pc \in {"queued", "sleeping"}} = {}
    BY <1>6, NoCallTyped
  <2>5. \A c \in Callers : rows[c].ended <= rows[c].requested
    BY <1>6, NoCallTyped
  <2> QED
    BY <1>1, <1>3, <1>5, <2>1, <2>2, <2>3, <2>4, <2>5 DEF TypeOK
<1>8. StampInv
  BY <1>1, <1>4, <1>5 DEF StampInv, Active
<1>9. \A c \in Callers : CallInv(c)
  BY <1>6, NoCallTyped, EmptySeq DEF CallInv
<1> QED
  BY <1>7, <1>8, <1>9 DEF IInv

\* No step breaks the invariant.
LEMMA NextKeeps == IInv /\ [Next]_vars => IInv'
<1> SUFFICES ASSUME IInv, [Next]_vars PROVE IInv'
  OBVIOUS
<1>1. ASSUME NEW c \in Callers, Step(c) PROVE IInv'
  BY <1>1, AcquireKeeps, WakeKeeps, TryAgainKeeps, AnswerKeeps DEF Step
<1>2. ASSUME NEW c \in Callers, NEW e \in Endpoints, Start(c, e) PROVE IInv'
  BY <1>2, StartKeeps
<1>3. ASSUME NEW l \in Limiters, NewRun(l) PROVE IInv'
  BY <1>3, NewRunKeeps
<1>4. CASE Tick
  BY <1>4, TickKeeps
<1>5. CASE UNCHANGED vars
  <2>1. UNCHANGED <<call, stamps, tail, rows, grants>>
    BY <1>5 DEF vars
  <2>2. TypeOK'
    BY <2>1 DEF IInv, TypeOK
  <2>3. \A c \in Callers : CallInv(c)'
    BY <2>1 DEF IInv, CallInv
  <2> QED
    BY <2>1, <2>2, <2>3, StampsKept DEF IInv
<1> QED
  BY <1>1, <1>2, <1>3, <1>4, <1>5 DEF Next

\* The invariant holds in every reachable state.
LEMMA Inductive == Spec => []IInv
<1>1. Init => IInv
  BY InitHolds
<1>2. IInv /\ [Next]_vars => IInv'
  BY NextKeeps
<1> QED
  BY <1>1, <1>2, PTL DEF Spec

\* The variables keep their types, the timestamps of a budget never outgrow its
\* limit, and whoever waits is in the row of its limiter, once (rate-limiter.ts:79).
THEOREM TypeCorrect == Spec => []TypeOK
<1>1. IInv => TypeOK
  BY DEF IInv
<1> QED
  BY <1>1, Inductive, PTL

\* A limiter grants no more calls in a window than the budget allows: what it
\* remembers of the window is what it granted in it (rate-limiter.ts:79).
THEOREM LimitsHold == Spec => []GrantsWithinBudget
<1>1. ASSUME IInv PROVE GrantsWithinBudget
  <2>1. SUFFICES ASSUME NEW l \in Limiters, NEW b \in Budgets
                 PROVE  Len(grants[l][b]) <= Limit[b]
    BY DEF GrantsWithinBudget
  <2>2. PICK s : s = stamps[l][b]
    OBVIOUS
  <2>3. /\ s \in Seq(Nat) /\ Sorted(s) /\ Len(s) <= Limit[b]
        /\ grants[l][b] = Recent(s, Window[b])
    BY <1>1, <2>2 DEF IInv, TypeOK, StampInv, Aging, Active
  <2>4. Window[b] \in Nat /\ Limit[b] \in Nat
    BY CallAssumption
  <2>5. Recent(s, Window[b]) \in Seq(Nat) /\ Len(Recent(s, Window[b])) <= Len(s)
    BY <2>3, <2>4, RecentParts
  <2> QED
    BY <2>3, <2>4, <2>5
<1> QED
  BY <1>1, Inductive, PTL

\* Nothing is sent again whose fate is unknown: every earlier attempt was refused,
\* the refusal is on record, and the endpoint is no invitation (request.ts:454).
THEOREM NothingSentBlind == Spec => []NeverSentBlind
<1>1. ASSUME IInv PROVE NeverSentBlind
  <2>1. SUFFICES ASSUME NEW c \in Callers, call[c].pc \in {"queued", "sleeping", "sent"},
                        Len(call[c].answers) > 0
                 PROVE  /\ call[c].endpoint # "create_invite"
                        /\ ToSet(call[c].answers) \subseteq {"rate_limited", "provider_error"}
                        /\ rows[c].ended = Len(call[c].answers)
    BY DEF NeverSentBlind
  <2>2. CallInv(c) /\ call[c].answers \in Seq(Classes)
    BY <1>1 DEF IInv, TypeOK, Calls
  <2>3. call[c].endpoint # "create_invite" /\ rows[c].ended = Len(call[c].answers)
    BY <2>1, <2>2 DEF CallInv
  <2>4. \A n \in DOMAIN call[c].answers : call[c].answers[n] \in {"rate_limited", "provider_error"}
    BY <2>1, <2>2 DEF CallInv
  <2> QED
    BY <2>3, <2>4 DEF ToSet
<1> QED
  BY <1>1, Inductive, PTL

-------------------------------------------------------------------------------
(* SchemaMigrations                                                        *)

\* A release is a directory: one file of a name, and names are in order.
Numbered ==
  \A release \in Releases : \A m, n \in release :
    m.file \in Int /\ (m.file = n.file => m = n)

\* The lock is held by one runner.
OneRunner == \A r, q \in Runners : runner[r].pc # "idle" /\ runner[q].pc # "idle" => r = q

\* What a runner remembers of the one comparison it made is still so.
Remembered ==
  \A r \in Runners :
    /\ runner[r].pc # "idle" => runner[r].release \in Releases
    /\ runner[r].pc = "applying" =>
         Begins(ledger, runner[r].release) /\ runner[r].todo = runner[r].release \ ledger

HistoryInv == SchemaTypeOK /\ OneRunner /\ Remembered /\ HistoryIsPrefix

\* The lowest of the missing files is the next one.
LEMMA NextFileExtends ==
  ASSUME Numbered, NEW release \in Releases, NEW done, Begins(done, release),
         NEW m \in release \ done, \A n \in release \ done : m.file <= n.file
  PROVE  Begins(done \cup {m}, release)
BY DEF Begins, Numbered

\* An empty database is on the way of every release.
LEMMA HistoryBegins ==
  ASSUME Releases # {}, SchemaInit
  PROVE  HistoryInv
<1>1. SchemaTypeOK
  BY DEF SchemaInit, SchemaTypeOK, Unborn
<1>2. OneRunner /\ Remembered
  BY DEF SchemaInit, OneRunner, Remembered, Unborn
<1>3. HistoryIsPrefix
  BY DEF SchemaInit, HistoryIsPrefix, Begins
<1> QED
  BY <1>1, <1>2, <1>3 DEF HistoryInv

\* A runner takes the lock only when nobody has it.
LEMMA LockKeeps ==
  ASSUME HistoryInv, NEW r \in Runners, Lock(r)
  PROVE  HistoryInv'
<1>1. PICK release \in Releases :
        runner' = [runner EXCEPT ![r] = [pc |-> "locked", release |-> release, todo |-> {}]]
  BY DEF Lock
<1>2. \A q \in Runners : runner[q].pc = "idle"
  BY DEF Lock, LockFree
<1>3. ledger' = ledger
  BY DEF Lock
<1>4. SchemaTypeOK'
  BY <1>1, <1>3 DEF HistoryInv, SchemaTypeOK
<1>5. \A q \in Runners : q # r => runner'[q].pc = "idle"
  BY <1>1, <1>2 DEF HistoryInv, SchemaTypeOK
<1>6. runner'[r] = [pc |-> "locked", release |-> release, todo |-> {}]
  BY <1>1 DEF HistoryInv, SchemaTypeOK
<1>7. OneRunner' /\ Remembered'
  BY <1>5, <1>6 DEF OneRunner, Remembered
<1> QED
  BY <1>3, <1>4, <1>7 DEF HistoryInv, HistoryIsPrefix, Begins

\* A runner that ends, or is refused, leaves the others and the history as they are.
LEMMA UnbornKeeps ==
  ASSUME HistoryInv, NEW r \in Runners, runner' = [runner EXCEPT ![r] = Unborn], ledger' = ledger
  PROVE  HistoryInv'
<1>1. SchemaTypeOK'
  BY DEF HistoryInv, SchemaTypeOK, Unborn
<1>2. runner'[r].pc = "idle" /\ \A q \in Runners : q # r => runner'[q] = runner[q]
  BY DEF HistoryInv, SchemaTypeOK, Unborn
<1>3. OneRunner' /\ Remembered'
  BY <1>2 DEF HistoryInv, OneRunner, Remembered, Begins
<1> QED
  BY <1>1, <1>3 DEF HistoryInv, HistoryIsPrefix, Begins

\* The comparison looks at the history that is there when the runner starts to apply.
LEMMA CompareKeeps ==
  ASSUME HistoryInv, NEW r \in Runners, Compare(r)
  PROVE  HistoryInv'
<1> DEFINE release == runner[r].release
<1>1. release \in Releases /\ ledger' = ledger
  BY DEF Compare, HistoryInv, Remembered
<1>2. CASE ~Begins(ledger, release)
  <2>1. runner' = [runner EXCEPT ![r] = Unborn]
    BY <1>2 DEF Compare
  <2> QED
    BY <1>1, <2>1, UnbornKeeps
<1>3. CASE Begins(ledger, release)
  <2>1. runner' = [runner EXCEPT ![r] =
          [pc |-> "applying", release |-> release, todo |-> release \ ledger]]
    BY <1>3 DEF Compare
  <2>2. SchemaTypeOK'
    BY <1>1, <2>1 DEF HistoryInv, SchemaTypeOK
  <2>3. runner'[r] = [pc |-> "applying", release |-> release, todo |-> release \ ledger]
    BY <2>1 DEF HistoryInv, SchemaTypeOK
  <2>4. \A q \in Runners : q # r => runner'[q] = runner[q] /\ runner[q].pc = "idle"
    BY <2>1 DEF HistoryInv, SchemaTypeOK, OneRunner, Compare
  <2>5. OneRunner' /\ Remembered'
    BY <1>1, <1>3, <2>3, <2>4 DEF OneRunner, Remembered, Begins
  <2> QED
    BY <1>1, <2>2, <2>5 DEF HistoryInv, HistoryIsPrefix, Begins
<1> QED
  BY <1>2, <1>3

\* The file that is applied is the next one of the release the runner compared with.
LEMMA ApplyKeeps ==
  ASSUME Numbered, HistoryInv, NEW r \in Runners, NEW m \in runner[r].todo, Apply(r, m)
  PROVE  HistoryInv'
<1> DEFINE release == runner[r].release
<1>1. CASE \E n \in ledger : n.file = m.file
  BY <1>1, UnbornKeeps DEF Apply
<1>2. CASE ~\E n \in ledger : n.file = m.file
  <2>1. /\ runner' = [runner EXCEPT ![r].todo = @ \ {m}]
        /\ ledger' = ledger \cup {m}
    BY <1>2 DEF Apply
  <2>2. /\ release \in Releases /\ Begins(ledger, release)
        /\ runner[r].pc = "applying" /\ runner[r].todo = release \ ledger
    BY DEF Apply, HistoryInv, Remembered
  <2>3. \A n \in release \ ledger : m.file <= n.file
    BY <2>2 DEF Apply
  <2>4. Begins(ledger', release)
    BY <2>1, <2>2, <2>3, NextFileExtends
  <2>5. runner'[r] = [runner[r] EXCEPT !.todo = @ \ {m}]
    BY <2>1 DEF HistoryInv, SchemaTypeOK
  <2>6. /\ runner'[r].pc = "applying" /\ runner'[r].release = release
        /\ runner'[r].todo = release \ ledger'
    BY <2>1, <2>2, <2>5 DEF HistoryInv, SchemaTypeOK
  <2>7. \A q \in Runners : q # r => runner'[q] = runner[q] /\ runner[q].pc = "idle"
    BY <2>1, <2>2 DEF HistoryInv, SchemaTypeOK, OneRunner
  <2>8. SchemaTypeOK'
    <3>1. ledger' \in SUBSET UNION Releases
      BY <2>1, <2>2 DEF HistoryInv, SchemaTypeOK
    <3>2. runner' \in [Runners -> [pc : {"idle", "locked", "applying"},
                         release : Releases \cup {{}}, todo : SUBSET UNION Releases]]
      BY <2>1 DEF HistoryInv, SchemaTypeOK
    <3> QED
      BY <3>1, <3>2 DEF SchemaTypeOK
  <2>9. OneRunner'
    BY <2>7 DEF OneRunner
  <2>10. Remembered'
    BY <2>2, <2>4, <2>6, <2>7 DEF Remembered, Begins
  <2>11. HistoryIsPrefix'
    BY <2>2, <2>4 DEF HistoryIsPrefix, Begins
  <2> QED
    BY <2>8, <2>9, <2>10, <2>11 DEF HistoryInv
<1> QED
  BY <1>1, <1>2

\* Runners of whichever releases, overlapping, failing and dying, leave a history
\* that is the beginning of some release's (apply-migrations.mjs:72).
THEOREM HistoryStaysPrefix ==
  ASSUME Releases # {}, Numbered
  PROVE  SchemaSpec => []HistoryIsPrefix
<1>1. SchemaInit => HistoryInv
  BY HistoryBegins
<1>2. HistoryInv /\ [SchemaNext]_schemaVars => HistoryInv'
  <2> SUFFICES ASSUME HistoryInv, [SchemaNext]_schemaVars PROVE HistoryInv'
    OBVIOUS
  <2>1. CASE UNCHANGED schemaVars
    BY <2>1 DEF schemaVars, HistoryInv, SchemaTypeOK, OneRunner, Remembered, HistoryIsPrefix, Begins
  <2>2. CASE SchemaNext
    <3>1. PICK r \in Runners :
            Lock(r) \/ Compare(r) \/ EndRun(r) \/ \E m \in runner[r].todo : Apply(r, m)
      BY <2>2 DEF SchemaNext
    <3>2. CASE Lock(r)
      BY <3>2, LockKeeps
    <3>3. CASE Compare(r)
      BY <3>3, CompareKeeps
    <3>4. CASE EndRun(r)
      BY <3>4, UnbornKeeps DEF EndRun
    <3>5. CASE \E m \in runner[r].todo : Apply(r, m)
      BY <3>5, ApplyKeeps
    <3> QED
      BY <3>1, <3>2, <3>3, <3>4, <3>5
  <2> QED
    BY <2>1, <2>2
<1>3. HistoryInv => HistoryIsPrefix
  BY DEF HistoryInv
<1> QED
  BY <1>1, <1>2, <1>3, PTL DEF SchemaSpec

-------------------------------------------------------------------------------
(* BackupRestore: the invariant                                            *)

\* A run holds the lock of the directory from the moment it takes it until it ends;
\* nothing has been published before it publishes.
AtWork == {"waiting", "identifying", "dumping", "publishing", "removing"}

MutexInv ==
  \A b \in Backups :
    /\ backup[b].pc \in AtWork <=> mutex = b
    /\ backup[b].pc \in {"idle", "named", "waiting", "identifying", "dumping", "removing"} =>
         backup[b].count = 0

\* A file bears the name of the run that made it, which has published.
OwnInv ==
  \A b \in Backups, k \in Parts :
    LET c == Files(b)[k] IN
    c # Nil => /\ NameOf[c] = NameOf[b]
               /\ backup[c].pc \in {"publishing", "removing", "succeeded", "killed", "torn"}

\* While it publishes, its files are those it has counted.
CountInv ==
  \A b \in Backups : backup[b].pc = "publishing" =>
    \A k \in Parts : Files(b)[k] = b <=> k <= backup[b].count

Whole(b) ==
  Files(b)[Ciphertext] = b /\ backup[b].pc \notin {"removing", "torn"} /\ Unrivalled(b)
    => \A k \in Parts : Files(b)[k] = b

WholeInv == \A b \in Backups : Whole(b)

\* What is restored was verified.
Verified == {"staged", "opening", "preparing", "prepared", "connecting"} \cup Connected
Uniform(copy) == \A k \in Parts : copy[k] = copy[Ciphertext]

CopyInv ==
  /\ \A r \in Restores : restore[r].pc \in Verified => Uniform(restore[r].copy)
  /\ Uniform(restored.from)

Holding == {"opening", "preparing"} \cup Connected
Unanswered == {"abandoned", "unclosed"}

\* Who loads or promotes has the authority that is granted, and so has who connects or
\* has the lock, unless its session outlived its window; one restore has the lock.
RoleInv ==
  /\ role.member <=> role.by # Nil
  /\ role.member => restore[role.by].pc \in Answering \cup Unanswered
  /\ \A r \in Restores : restore[r].pc \in {"loaded", "renamed"} => role.by = r
  /\ \A r \in Restores :
       restore[r].pc \in {"connecting", "locked"} /\ r \notin outlived => role.by = r
  /\ \A r, s \in Restores : restore[r].pc \in Holding /\ restore[s].pc \in Holding => r = s

CopiesInv == CopiesTypeOK /\ MutexInv /\ OwnInv /\ CountInv /\ WholeInv /\ CopyInv /\ RoleInv

-------------------------------------------------------------------------------
(* BackupRestore: types                                                    *)

LEMMA CopiesTypeInit == CopiesInit => CopiesTypeOK
<1> SUFFICES ASSUME CopiesInit PROVE CopiesTypeOK
  OBVIOUS
<1>1. NoFiles \in [Parts -> Backups \cup {Nil}]
  BY DEF NoFiles
<1>2. (CHOOSE b \in Backups : TRUE) \in Backups
  BY CopiesAssumption
<1>3. dir \in [{NameOf[b] : b \in Backups} -> [Parts -> Backups \cup {Nil}]]
  BY <1>1 DEF CopiesInit
<1> QED
  BY <1>1, <1>2, <1>3, CopiesAssumption
  DEF CopiesInit, CopiesTypeOK, NoDatabase, Closed, Running, Answering, Connected

\* A file of a name is put there, or taken away.
Puts(b, k, f) == dir' = [dir EXCEPT ![NameOf[b]][k] = f]

LEMMA DirStep ==
  ASSUME CopiesTypeOK, NEW b \in Backups, NEW k \in Parts, NEW f \in Backups \cup {Nil},
         Puts(b, k, f)
  PROVE  dir' \in [{NameOf[c] : c \in Backups} -> [Parts -> Backups \cup {Nil}]]
<1>1. dir \in [{NameOf[c] : c \in Backups} -> [Parts -> Backups \cup {Nil}]]
  BY DEF CopiesTypeOK
<1>2. NameOf[b] \in {NameOf[c] : c \in Backups}
  OBVIOUS
<1>3. [dir[NameOf[b]] EXCEPT ![k] = f] \in [Parts -> Backups \cup {Nil}]
  BY <1>1, <1>2
<1>4. dir' = [dir EXCEPT ![NameOf[b]] = [dir[NameOf[b]] EXCEPT ![k] = f]]
  BY DEF Puts
<1> QED
  BY <1>1, <1>2, <1>3, <1>4

LEMMA FilesAfter ==
  ASSUME CopiesTypeOK, NEW b \in Backups, NEW k \in Parts, NEW f \in Backups \cup {Nil},
         Puts(b, k, f), NEW c \in Backups, NEW i \in Parts
  PROVE  dir'[NameOf[c]][i] = IF NameOf[c] = NameOf[b] /\ i = k THEN f ELSE dir[NameOf[c]][i]
<1>1. dir \in [{NameOf[e] : e \in Backups} -> [Parts -> Backups \cup {Nil}]]
  BY DEF CopiesTypeOK
<1>2. NameOf[b] \in {NameOf[e] : e \in Backups} /\ NameOf[c] \in {NameOf[e] : e \in Backups}
  OBVIOUS
<1>3. dir' = [dir EXCEPT ![NameOf[b]] = [dir[NameOf[b]] EXCEPT ![k] = f]]
  BY DEF Puts
<1> QED
  BY <1>1, <1>2, <1>3

LEMMA FilesTyped ==
  ASSUME CopiesTypeOK, NEW b \in Backups, NEW k \in Parts
  PROVE  Files(b)[k] \in Backups \cup {Nil}
<1>1. NameOf[b] \in {NameOf[c] : c \in Backups}
  OBVIOUS
<1> QED
  BY <1>1 DEF CopiesTypeOK, Files

\* What is left to remove or to copy has a first.
LEMMA FirstOf ==
  ASSUME NEW S, S \subseteq Parts, S # {}
  PROVE  (CHOOSE i \in S : \A j \in S : i <= j) \in S
<1>1. \E i \in S : \A j \in S : i <= j
  <2>1. CASE 1 \in S
    BY <2>1 DEF Parts
  <2>2. CASE 1 \notin S /\ 2 \in S
    BY <2>2 DEF Parts
  <2>3. CASE 1 \notin S /\ 2 \notin S /\ 3 \in S
    BY <2>3 DEF Parts
  <2>4. CASE 1 \notin S /\ 2 \notin S /\ 3 \notin S
    <3>1. \A j \in S : j = 4
      BY <2>4 DEF Parts
    <3> QED
      BY <3>1
  <2> QED
    BY <2>1, <2>2, <2>3, <2>4
<1> QED
  BY <1>1

\* A removal takes away one file that is there.
LEMMA RemovesOne ==
  ASSUME CopiesTypeOK, NEW b \in Backups, RemoveFile(b), Files(b) # NoFiles
  PROVE  /\ UNCHANGED <<mutex, backup>>
         /\ \E k \in Parts : Puts(b, k, Nil)
<1>1. PICK order \in {<<Checksum, Manifest, Signature, Ciphertext>>,
                      <<Ciphertext, Checksum, Manifest, Signature>>} :
        LET there == {i \in Parts : Files(b)[order[i]] # Nil}
            first == CHOOSE i \in there : \A j \in there : i <= j
        IN  dir' = [dir EXCEPT ![NameOf[b]][order[first]] = Nil]
  BY DEF RemoveFile
<1> DEFINE there == {i \in Parts : Files(b)[order[i]] # Nil}
           first == CHOOSE i \in there : \A j \in there : i <= j
<1>2. \A k \in Parts : \E i \in Parts : order[i] = k
  BY <1>1 DEF Parts, Checksum, Manifest, Signature, Ciphertext
<1>3. \A i \in Parts : order[i] \in Parts
  BY <1>1 DEF Parts, Checksum, Manifest, Signature, Ciphertext
<1>4. \E k \in Parts : Files(b)[k] # Nil
  <2>1. NameOf[b] \in {NameOf[c] : c \in Backups}
    OBVIOUS
  <2>2. Files(b) \in [Parts -> Backups \cup {Nil}]
    BY <2>1 DEF CopiesTypeOK, Files
  <2> QED
    BY <2>2 DEF NoFiles
<1>5. there # {} /\ there \subseteq Parts
  BY <1>2, <1>4
<1> HIDE DEF there
<1>6. first \in there
  BY <1>5, FirstOf
<1>7. order[first] \in Parts
  BY <1>3, <1>5, <1>6
<1>8. Puts(b, order[first], Nil)
  BY <1>1 DEF there, Puts
<1> HIDE DEF first
<1> QED
  BY <1>7, <1>8 DEF RemoveFile

-------------------------------------------------------------------------------
(* BackupRestore: the directory                                            *)

DirInv == MutexInv /\ OwnInv /\ CountInv /\ WholeInv

LEMMA NilIsNobody == Nil \notin Backups /\ Nil \notin Restores
BY CopiesAssumption

\* One run at most works.
LEMMA OneAtWork ==
  ASSUME MutexInv, NEW b \in Backups, NEW c \in Backups,
         backup[b].pc \in AtWork, backup[c].pc \in AtWork
  PROVE  b = c
BY DEF MutexInv

\* Steps that leave the files alone: the run goes on, and if it is no rival after
\* the step, it was none before, or there is no file of the name.
LEMMA QuietStep ==
  ASSUME CopiesTypeOK, DirInv, NEW b \in Backups, UNCHANGED dir,
         \A c \in Backups \ {b} : backup'[c] = backup[c],
         backup'[b].pc \in {"idle", "named", "failed"} =>
           backup[b].pc \in {"idle", "named", "failed"} \/ Files(b) = NoFiles,
         backup[b].pc \in {"publishing", "removing", "succeeded", "killed", "torn"} =>
           \/ backup'[b].pc \in {"publishing", "removing", "succeeded", "killed", "torn"}
           \/ Files(b) = NoFiles,
         backup[b].pc \in {"removing", "torn"} =>
           backup'[b].pc \in {"removing", "torn"} \/ Files(b) = NoFiles
  PROVE  OwnInv' /\ WholeInv'
<1>1. \A c \in Backups : Files(c)' = Files(c)
  BY DEF Files
<1>2. OwnInv'
  <2> SUFFICES ASSUME NEW c \in Backups, NEW k \in Parts, Files(c)[k] # Nil
               PROVE  /\ NameOf[Files(c)[k]] = NameOf[c]
                      /\ backup'[Files(c)[k]].pc \in
                           {"publishing", "removing", "succeeded", "killed", "torn"}
    BY <1>1 DEF OwnInv
  <2>1. /\ NameOf[Files(c)[k]] = NameOf[c] /\ Files(c)[k] \in Backups
        /\ backup[Files(c)[k]].pc \in {"publishing", "removing", "succeeded", "killed", "torn"}
    BY FilesTyped DEF DirInv, OwnInv
  <2>2. CASE Files(c)[k] = b /\ Files(b) = NoFiles
    <3>1. Files(c) = Files(b)
      BY <2>1, <2>2 DEF Files
    <3> QED
      BY <3>1, <2>2 DEF NoFiles
  <2> QED
    BY <2>1, <2>2
<1>3. WholeInv'
  <2> SUFFICES ASSUME NEW c \in Backups, Files(c)[Ciphertext] = c,
                      backup'[c].pc \notin {"removing", "torn"}, Unrivalled(c)'
               PROVE  \A k \in Parts : Files(c)[k] = c
    BY <1>1 DEF WholeInv, Whole
  <2>1. NameOf[c] = NameOf[b] => Files(b) # NoFiles
    BY NilIsNobody DEF Files, NoFiles, Parts, Ciphertext
  <2>2. backup[c].pc \notin {"removing", "torn"}
    BY <2>1
  <2>3. Unrivalled(c)
    BY <2>1 DEF Unrivalled
  <2> QED
    BY <2>2, <2>3 DEF DirInv, WholeInv, Whole
<1> QED
  BY <1>2, <1>3

\* Steps that put or remove a file of their own name, while the run works.
LEMMA FileStep ==
  ASSUME CopiesTypeOK, DirInv, NEW b \in Backups, NEW k \in Parts, NEW f \in {b, Nil},
         Puts(b, k, f),
         \A c \in Backups \ {b} : backup'[c] = backup[c],
         backup[b].pc \in {"publishing", "removing"}, backup'[b].pc = backup[b].pc,
         backup[b].pc = "removing" => f = Nil
  PROVE  /\ OwnInv'
         /\ \A c \in Backups \ {b} : Whole(c)'
<1>0. f \in Backups \cup {Nil}
  OBVIOUS
<1>1. \A c \in Backups, i \in Parts :
        Files(c)'[i] = IF NameOf[c] = NameOf[b] /\ i = k THEN f ELSE Files(c)[i]
  BY <1>0, FilesAfter DEF Files
<1>2. OwnInv'
  <2> SUFFICES ASSUME NEW c \in Backups, NEW i \in Parts, Files(c)'[i] # Nil
               PROVE  /\ NameOf[Files(c)'[i]] = NameOf[c]
                      /\ backup'[Files(c)'[i]].pc \in
                           {"publishing", "removing", "succeeded", "killed", "torn"}
    BY DEF OwnInv
  <2>1. CASE NameOf[c] = NameOf[b] /\ i = k
    BY <1>1, <2>1
  <2>2. CASE ~(NameOf[c] = NameOf[b] /\ i = k)
    <3>1. Files(c)'[i] = Files(c)[i]
      BY <1>1, <2>2
    <3>2. /\ NameOf[Files(c)[i]] = NameOf[c] /\ Files(c)[i] \in Backups
          /\ backup[Files(c)[i]].pc \in {"publishing", "removing", "succeeded", "killed", "torn"}
      BY <3>1, FilesTyped DEF DirInv, OwnInv
    <3> QED
      BY <3>1, <3>2
  <2> QED
    BY <2>1, <2>2
<1>3. ASSUME NEW c \in Backups \ {b}
      PROVE  Whole(c)'
  <2>1. CASE NameOf[c] = NameOf[b]
    BY <2>1 DEF Whole, Unrivalled
  <2>2. CASE NameOf[c] # NameOf[b]
    <3>1. \A i \in Parts : Files(c)'[i] = Files(c)[i]
      BY <1>1, <2>2
    <3>2. Unrivalled(c)' => Unrivalled(c)
      BY <2>2 DEF Unrivalled
    <3> QED
      BY <3>1, <3>2 DEF Whole, DirInv, WholeInv, Parts, Ciphertext
  <2> QED
    BY <2>1, <2>2
<1> QED
  BY <1>2, <1>3

LEMMA PublishesOne ==
  ASSUME CopiesTypeOK, DirInv, NEW b \in Backups, Publish(b), backup[b].count + 1 \in Parts
  PROVE  /\ UNCHANGED mutex
         /\ Puts(b, backup[b].count + 1, b)
         /\ backup' = [backup EXCEPT ![b].count = backup[b].count + 1]
         /\ backup[b].pc = "publishing"
BY DEF Publish, Publication, Puts

LEMMA PublishKeeps ==
  ASSUME CopiesTypeOK, DirInv, NEW b \in Backups, Publish(b)
  PROVE  DirInv'
<1>1. CASE backup[b].count + 1 \in Parts
  <2> DEFINE k == backup[b].count + 1
  <2>1. /\ UNCHANGED mutex /\ Puts(b, k, b)
        /\ backup' = [backup EXCEPT ![b].count = k] /\ backup[b].pc = "publishing"
        /\ k \in Parts
    BY <1>1, PublishesOne
  <2>2. backup[b].count \in Nat /\ backup[b].count = k - 1
    <3>1. backup[b].count \in 0..4
      BY DEF CopiesTypeOK
    <3> QED
      BY <3>1
  <2> HIDE DEF k
  <2>2a. /\ \A c \in Backups \ {b} : backup'[c] = backup[c]
         /\ backup'[b].pc = "publishing" /\ backup'[b].count = k
    BY <2>1 DEF CopiesTypeOK
  <2>3. OwnInv' /\ \A c \in Backups \ {b} : Whole(c)'
    BY <2>1, <2>2, <2>2a, FileStep
  <2>4. MutexInv'
    BY <2>1, <2>2, <2>2a DEF DirInv, MutexInv, AtWork
  <2>5. \A c \in Backups, i \in Parts :
          Files(c)'[i] = IF NameOf[c] = NameOf[b] /\ i = k THEN b ELSE Files(c)[i]
    BY <2>1, FilesAfter DEF Files
  <2>6. \A c \in Backups : backup'[c].pc = "publishing" => c = b
    BY <2>1, <2>2, <2>2a, OneAtWork DEF DirInv, AtWork
  <2>7. CountInv'
    <3>1. \A i \in Parts : Files(b)[i] = b <=> i <= k - 1
      BY <2>1, <2>2, <2>2a DEF DirInv, CountInv
    <3>2. \A i \in Parts : Files(b)'[i] = b <=> i <= k
      BY <2>1, <2>5, <3>1 DEF Parts
    <3> QED
      BY <2>2, <2>2a, <2>6, <3>2 DEF CountInv
  <2>8. Whole(b)'
    <3>1. \A i \in Parts : Files(b)'[i] = b <=> i <= k
      BY <2>2, <2>2a, <2>7 DEF CountInv
    <3> QED
      BY <2>1, <3>1 DEF Whole, Parts, Ciphertext
  <2> QED
    BY <2>3, <2>4, <2>7, <2>8 DEF DirInv, WholeInv
<1>2. CASE backup[b].count + 1 \notin Parts
  <2>1. /\ backup' = [backup EXCEPT ![b].pc = "succeeded", ![b].shares = FALSE]
        /\ mutex' = Nil /\ UNCHANGED dir /\ backup[b].pc = "publishing"
    BY <1>2 DEF Publish
  <2>2. /\ \A c \in Backups \ {b} : backup'[c] = backup[c]
        /\ backup'[b].pc = "succeeded" /\ backup'[b].count = backup[b].count
    BY <2>1 DEF CopiesTypeOK
  <2>3. OwnInv' /\ WholeInv'
    BY <2>1, <2>2, QuietStep
  <2>4. \A c \in Backups : backup'[c].pc \notin AtWork
    BY <2>1, <2>2, OneAtWork DEF DirInv, AtWork
  <2>5. MutexInv'
    BY <2>1, <2>2, <2>4, NilIsNobody DEF DirInv, MutexInv
  <2>6. CountInv'
    BY <2>4 DEF CountInv, AtWork
  <2> QED
    BY <2>3, <2>5, <2>6 DEF DirInv
<1> QED
  BY <1>1, <1>2

LEMMA RemoveKeeps ==
  ASSUME CopiesTypeOK, DirInv, NEW b \in Backups, RemoveFile(b)
  PROVE  DirInv'
<1>0. backup[b].pc = "removing"
  BY DEF RemoveFile
<1>1. CASE Files(b) # NoFiles
  <2>1. PICK k \in Parts : Puts(b, k, Nil)
    BY <1>1, RemovesOne
  <2>2. UNCHANGED <<mutex, backup>>
    BY <1>1, RemovesOne
  <2>3. OwnInv' /\ \A c \in Backups \ {b} : Whole(c)'
    BY <1>0, <2>1, <2>2, FileStep
  <2>4. MutexInv'
    BY <2>2 DEF DirInv, MutexInv
  <2>5. CountInv'
    BY <1>0, <2>2, OneAtWork DEF DirInv, CountInv, AtWork
  <2>6. Whole(b)'
    BY <1>0, <2>2 DEF Whole
  <2> QED
    BY <2>3, <2>4, <2>5, <2>6 DEF DirInv, WholeInv
<1>2. CASE Files(b) = NoFiles
  <2>1. /\ backup' = [backup EXCEPT ![b].pc = backup[b].then]
        /\ mutex' = IF backup[b].then = "identifying" THEN b ELSE Nil
        /\ UNCHANGED dir
    BY <1>2 DEF RemoveFile
  <2>2. /\ \A c \in Backups \ {b} : backup'[c] = backup[c]
        /\ backup'[b].pc = backup[b].then /\ backup'[b].count = backup[b].count
        /\ backup[b].then \in {"failed", "identifying", "succeeded"}
    BY <2>1 DEF CopiesTypeOK
  <2>3. OwnInv' /\ WholeInv'
    BY <1>0, <1>2, <2>1, <2>2, QuietStep
  <2>4. \A c \in Backups \ {b} : backup'[c].pc \notin AtWork
    BY <1>0, <2>1, <2>2, OneAtWork DEF DirInv, AtWork
  <2>5. MutexInv'
    BY <1>0, <2>1, <2>2, <2>4, NilIsNobody DEF DirInv, MutexInv, AtWork
  <2>6. CountInv'
    BY <2>2, <2>4 DEF CountInv, AtWork
  <2> QED
    BY <2>3, <2>5, <2>6 DEF DirInv
<1> QED
  BY <1>1, <1>2

\* The other steps of a run leave the files alone.
LEMMA RunKeeps ==
  ASSUME CopiesTypeOK, DirInv, NEW b \in Backups,
         LookForName(b) \/ TakeDirectory(b) \/ ShareLock(b) \/ Dump(b) \/ StopBackup(b)
           \/ KillBackup(b)
  PROVE  DirInv'
<1>0. UNCHANGED dir
  BY DEF LookForName, TakeDirectory, ShareLock, Dump, StopBackup, KillBackup
<1>1. \A c \in Backups \ {b} : backup'[c] = backup[c]
  BY DEF LookForName, TakeDirectory, ShareLock, Dump, StopBackup, KillBackup, CopiesTypeOK
<1>2. OwnInv' /\ WholeInv'
  <2>1. backup[b].pc \in {"removing", "torn"} => backup'[b].pc \in {"removing", "torn"}
    BY DEF LookForName, TakeDirectory, ShareLock, Dump, StopBackup, KillBackup, CopiesTypeOK, Running
  <2>2. backup[b].pc \in {"publishing", "removing", "succeeded", "killed", "torn"} =>
          backup'[b].pc \in {"publishing", "removing", "succeeded", "killed", "torn"}
    BY DEF LookForName, TakeDirectory, ShareLock, Dump, StopBackup, KillBackup, CopiesTypeOK, Running
  <2>3. backup'[b].pc \in {"idle", "named", "failed"} => backup[b].pc \in {"idle", "named", "failed"}
    BY DEF LookForName, TakeDirectory, ShareLock, Dump, StopBackup, KillBackup, CopiesTypeOK, Running
  <2> QED
    BY <1>0, <1>1, <2>1, <2>2, <2>3, QuietStep
<1>3. MutexInv'
  <2>1. CASE LookForName(b)
    BY <2>1, <1>1 DEF LookForName, CopiesTypeOK, DirInv, MutexInv, AtWork
  <2>2. CASE TakeDirectory(b)
    BY <2>2, <1>1, NilIsNobody DEF TakeDirectory, CopiesTypeOK, DirInv, MutexInv, AtWork
  <2>3. CASE ShareLock(b)
    BY <2>3, <1>1 DEF ShareLock, CopiesTypeOK, DirInv, MutexInv, AtWork
  <2>4. CASE Dump(b)
    BY <2>4, <1>1 DEF Dump, CopiesTypeOK, DirInv, MutexInv, AtWork
  <2>5. CASE StopBackup(b)
    BY <2>5, <1>1 DEF StopBackup, CopiesTypeOK, DirInv, MutexInv, AtWork
  <2>6. CASE KillBackup(b)
    BY <2>6, <1>1, NilIsNobody DEF KillBackup, CopiesTypeOK, DirInv, MutexInv, AtWork, Running
  <2> QED
    BY <2>1, <2>2, <2>3, <2>4, <2>5, <2>6
<1>4. CountInv'
  <2> SUFFICES ASSUME NEW c \in Backups, backup'[c].pc = "publishing", NEW k \in Parts
               PROVE  Files(c)[k] = c <=> k <= backup'[c].count
    BY <1>0 DEF CountInv, Files
  <2>1. CASE c # b \/ (backup[c].pc = "publishing" /\ backup'[c].count = backup[c].count)
    BY <1>1, <2>1 DEF DirInv, CountInv
  <2>2. CASE c = b /\ ~(backup[c].pc = "publishing" /\ backup'[c].count = backup[c].count)
    <3>1. backup[b].pc = "dumping" /\ backup'[b].count = backup[b].count
      BY <2>2 DEF LookForName, TakeDirectory, ShareLock, Dump, StopBackup, KillBackup,
                  CopiesTypeOK, Running
    <3>2. backup'[b].count = 0
      BY <3>1 DEF DirInv, MutexInv
    <3>3. Files(b)[k] # b
      BY <3>1, NilIsNobody DEF DirInv, OwnInv
    <3> QED
      BY <2>2, <3>2, <3>3 DEF Parts
  <2> QED
    BY <2>1, <2>2
<1> QED
  BY <1>2, <1>3, <1>4 DEF DirInv

-------------------------------------------------------------------------------
(* BackupRestore: restores                                                 *)

Phases == Answering \cup {"idle", "copying", "staged", "ended", "unclosed", "abandoned"}
Copies == [Parts -> Backups \cup {Nil}]

RestoreTyped == restore \in [Restores -> [pc : Phases, copy : Copies, of : Backups]]
RoleTyped    == /\ role \in [by : Restores \cup {Nil}, login : BOOLEAN, member : BOOLEAN]
                /\ outlived \subseteq Restores
RestoredTyped  == restored \in [from : Copies, owner : {Nil, "restore_admin", "owner"}]

WindowTyped == RestoreTyped /\ RoleTyped /\ RestoredTyped
WindowInv   == WindowTyped /\ CopyInv /\ RoleInv

LEMMA TypedParts == CopiesTypeOK => WindowTyped
BY DEF CopiesTypeOK, WindowTyped, RestoreTyped, RoleTyped, RestoredTyped, Phases, Copies

\* A restore moves on by itself.
LEMMA GotoStep ==
  ASSUME RestoreTyped, NEW r \in Restores, NEW pc \in Phases, Goto(r, pc)
  PROVE  /\ RestoreTyped'
         /\ restore'[r].pc = pc /\ restore'[r].copy = restore[r].copy
         /\ \A s \in Restores \ {r} : restore'[s] = restore[s]
BY DEF RestoreTyped, Goto

\* It moves on and ends the sessions of the others.
LEMMA TerminateStep ==
  ASSUME RestoreTyped, NEW r \in Restores, NEW pc \in Phases, Terminate(r, pc)
  PROVE  /\ RestoreTyped'
         /\ restore'[r].pc = pc /\ restore'[r].copy = restore[r].copy
         /\ \A s \in Restores \ {r} :
              /\ restore'[s].copy = restore[s].copy
              /\ restore'[s].pc = IF restore[s].pc \in {"connecting"} \cup Connected
                                   THEN "finalizing" ELSE restore[s].pc
<1>1. "finalizing" \in Phases
  BY DEF Phases, Answering
<1> QED
  BY <1>1 DEF RestoreTyped, Terminate

\* A step of one restore that leaves the role alone.
LEMMA OwnStepKeeps ==
  ASSUME WindowInv, NEW r \in Restores, RestoreTyped', UNCHANGED <<role, outlived, restored>>,
         restore'[r].copy = restore[r].copy,
         \A s \in Restores \ {r} : restore'[s] = restore[s],
         restore[r].pc \in Answering => restore'[r].pc \in Answering \cup Unanswered,
         restore[r].pc \notin Unanswered,
         restore'[r].pc \in Verified => restore[r].pc \in Verified \/ Uniform(restore[r].copy),
         restore'[r].pc \in {"loaded", "renamed"} => role.by = r,
         restore'[r].pc \in {"connecting", "locked"} /\ r \notin outlived => role.by = r,
         restore'[r].pc \in Holding => restore[r].pc \in Holding \/ Unlocked
  PROVE  WindowInv'
<1>1. CopyInv'
  <2> SUFFICES ASSUME NEW s \in Restores, restore'[s].pc \in Verified
               PROVE  Uniform(restore'[s].copy)
    BY DEF WindowInv, CopyInv
  <2> QED
    BY DEF WindowInv, CopyInv
<1>2. RoleInv'
  <2>1. role.member => role.by \in Restores
    BY DEF WindowInv, WindowTyped, RoleTyped, RoleInv
  <2>2. Unlocked => \A s \in Restores : restore[s].pc \notin Holding
    BY DEF Unlocked, Alone, Holding
  <2>3. \A q, s \in Restores : restore'[q].pc \in Holding /\ restore'[s].pc \in Holding => q = s
    BY <2>2 DEF WindowInv, RoleInv
  <2> QED
    BY <2>1, <2>3 DEF WindowInv, RoleInv
<1>3. WindowTyped'
  BY DEF WindowInv, WindowTyped, RoleTyped, RestoredTyped
<1> QED
  BY <1>1, <1>2, <1>3 DEF WindowInv

LEMMA UniformWhole ==
  ASSUME NEW copy, \A k \in Parts : copy[k] = copy[Ciphertext]
  PROVE  Uniform(copy)
BY DEF Uniform

LEMMA CopyFileKeeps ==
  ASSUME CopiesTypeOK, WindowInv, NEW r \in Restores, CopyFile(r)
  PROVE  WindowInv'
<1>0. RestoreTyped /\ UNCHANGED <<role, outlived, restored>>
  BY DEF WindowInv, WindowTyped, CopyFile
<1>1. CASE restore[r].pc = "idle"
  <2>1. PICK b \in Backups : restore' = [restore EXCEPT ![r] =
          [pc |-> "copying", of |-> b,
           copy |-> [NoFiles EXCEPT ![Ciphertext] = Files(b)[Ciphertext]]]]
    BY <1>1 DEF CopyFile
  <2>2. [NoFiles EXCEPT ![Ciphertext] = Files(b)[Ciphertext]] \in Copies
    <3>1. Files(b)[Ciphertext] \in Backups \cup {Nil}
      BY FilesTyped DEF Parts, Ciphertext
    <3> QED
      BY <3>1 DEF NoFiles, Copies
  <2>3. /\ restore' \in [Restores -> [pc : Phases, copy : Copies, of : Backups]]
        /\ restore'[r].pc = "copying" /\ \A s \in Restores \ {r} : restore'[s] = restore[s]
    BY <1>0, <2>1, <2>2 DEF RestoreTyped, Phases
  <2> QED
    BY <1>0, <1>1, <2>3 DEF WindowInv, WindowTyped, RestoreTyped, RoleTyped, RestoredTyped,
       CopyInv, RoleInv, Verified, Answering, Connected, Holding, Unanswered
<1>2. CASE restore[r].pc = "copying"
  <2> DEFINE c == restore[r]
             left == {k \in Parts : c.copy[k] = Nil}
             k == CHOOSE i \in left : \A j \in left : i <= j
  <2>1. /\ left # {}
        /\ IF Files(c.of)[k] = Nil THEN Goto(r, "ended")
           ELSE restore' = [restore EXCEPT ![r].copy[k] = Files(c.of)[k]]
    BY <1>2 DEF CopyFile
  <2>2. k \in Parts
    <3>1. left \subseteq Parts
      OBVIOUS
    <3> HIDE DEF left
    <3> QED
      BY <2>1, <3>1, FirstOf
  <2> HIDE DEF k
  <2>3. CASE Files(c.of)[k] = Nil
    <3>1. "ended" \in Phases
      BY DEF Phases
    <3>2. Goto(r, "ended")
      BY <2>1, <2>3
    <3>3. /\ RestoreTyped' /\ restore'[r].pc = "ended" /\ restore'[r].copy = restore[r].copy
          /\ \A s \in Restores \ {r} : restore'[s] = restore[s]
      BY <1>0, <3>1, <3>2, GotoStep
    <3> QED
      BY <1>0, <1>2, <3>3, OwnStepKeeps DEF Answering, Verified, Connected, Holding, Unanswered
  <2>4. CASE Files(c.of)[k] # Nil
    <3>1. c.of \in Backups /\ c.copy \in Copies
      BY <1>0 DEF RestoreTyped
    <3>2. Files(c.of)[k] \in Backups \cup {Nil}
      BY <2>2, <3>1, FilesTyped
    <3>3. restore' = [restore EXCEPT ![r] = [restore[r] EXCEPT !.copy = [c.copy EXCEPT ![k] = Files(c.of)[k]]]]
      BY <2>1, <2>4
    <3>4. [c.copy EXCEPT ![k] = Files(c.of)[k]] \in Copies
      BY <2>2, <3>1, <3>2 DEF Copies
    <3>5. /\ restore' \in [Restores -> [pc : Phases, copy : Copies, of : Backups]]
          /\ restore'[r].pc = "copying" /\ \A s \in Restores \ {r} : restore'[s] = restore[s]
      BY <1>0, <1>2, <3>3, <3>4 DEF RestoreTyped
    <3> QED
      BY <1>0, <1>2, <3>5 DEF WindowInv, WindowTyped, RestoreTyped, RoleTyped, RestoredTyped,
         CopyInv, RoleInv, Verified, Answering, Connected, Holding, Unanswered
  <2> QED
    BY <2>3, <2>4
<1> QED
  BY <1>1, <1>2 DEF CopyFile

\* The steps a restore makes by itself.
LEMMA AloneKeeps ==
  ASSUME WindowInv, NEW r \in Restores,
         \/ Verify(r) \/ CheckPrepared(r) \/ Connect(r) \/ LockAdmin(r) \/ Load(r)
         \/ StopRestore(r) \/ KillRestore(r)
         \/ FailToClose(r) /\ Goto(r, "unclosed") /\ UNCHANGED <<role, outlived>>
  PROVE  WindowInv'
<1>1. PICK pc \in Phases :
        /\ Goto(r, pc)
        /\ restore[r].pc \in Answering => pc \in Answering \cup Unanswered
        /\ restore[r].pc \notin Unanswered
        /\ pc \in Verified => restore[r].pc \in Verified \/ Uniform(restore[r].copy)
        /\ pc \in {"loaded", "renamed"} => role.by = r
        /\ pc \in {"connecting", "locked"} /\ r \notin outlived => role.by = r
        /\ pc \in Holding => restore[r].pc \in Holding \/ Unlocked
  <2>1. CASE Verify(r)
    BY <2>1 DEF WindowInv, RoleInv, Verify, Uniform, Phases, Answering, Verified, Connected,
       Holding, Unanswered
  <2>2. CASE CheckPrepared(r)
    BY <2>2 DEF WindowInv, RoleInv, CheckPrepared, AfterFailure, Phases, Answering, Verified, Connected,
       Holding, Unanswered
  <2>3. CASE Connect(r)
    BY <2>3 DEF WindowInv, RoleInv, Connect, LogsIn, Phases, Answering, Verified, Connected,
       Holding, Unanswered
  <2>4. CASE LockAdmin(r)
    BY <2>4 DEF WindowInv, RoleInv, LockAdmin, Phases, Answering, Verified, Connected,
       Holding, Unanswered
  <2>5. CASE Load(r)
    BY <2>5 DEF WindowInv, RoleInv, Load, LogsIn, Phases, Answering, Verified, Connected,
       Holding, Unanswered
  <2>6. CASE StopRestore(r)
    BY <2>6 DEF WindowInv, RoleInv, StopRestore, Phases, Answering, Verified, Connected,
       Holding, Unanswered
  <2>7. CASE KillRestore(r)
    BY <2>7 DEF WindowInv, RoleInv, KillRestore, Phases, Answering, Verified, Connected,
       Holding, Unanswered
  <2>8. CASE FailToClose(r) /\ Goto(r, "unclosed")
    BY <2>8 DEF WindowInv, RoleInv, FailToClose, Phases, Answering, Verified, Connected,
       Holding, Unanswered
  <2> QED
    BY <2>1, <2>2, <2>3, <2>4, <2>5, <2>6, <2>7, <2>8
<1>2. UNCHANGED <<role, outlived, restored>>
  BY DEF Verify, CheckPrepared, Connect, LockAdmin, Load, StopRestore, KillRestore, FailToClose
<1>3. /\ RestoreTyped' /\ restore'[r].pc = pc /\ restore'[r].copy = restore[r].copy
      /\ \A s \in Restores \ {r} : restore'[s] = restore[s]
  BY <1>1, GotoStep DEF WindowInv, WindowTyped
<1> QED
  BY <1>1, <1>2, <1>3, OwnStepKeeps

\* A name, then an owner, for what was verified.
LEMMA PromoteKeeps ==
  ASSUME WindowInv, NEW r \in Restores, Promote(r)
  PROVE  WindowInv'
<1>1. UNCHANGED <<role, outlived>>
  BY DEF Promote
<1>2. PICK pc \in {"renamed", "finalizing"} :
        Goto(r, pc) /\ restore[r].pc \in {"loaded", "renamed"}
  BY DEF Promote
<1>3. pc \in Phases /\ RestoreTyped
  BY DEF Phases, Answering, Connected, WindowInv, WindowTyped
<1>4. /\ RestoreTyped' /\ restore'[r].pc = pc /\ restore'[r].copy = restore[r].copy
      /\ \A s \in Restores \ {r} : restore'[s] = restore[s]
  BY <1>2, <1>3, GotoStep
<1>5. RestoredTyped' /\ Uniform(restored.from)'
  <2>1. restore[r].copy \in Copies /\ restored \in [from : Copies, owner : {Nil, "restore_admin", "owner"}]
    BY DEF WindowInv, WindowTyped, RestoreTyped, RestoredTyped
  <2>2. Uniform(restore[r].copy) /\ Uniform(restored.from)
    BY <1>2 DEF WindowInv, CopyInv, Verified, Connected
  <2>3. restored' = [from |-> restore[r].copy, owner |-> "restore_admin"]
          \/ restored' = [restored EXCEPT !.owner = "owner"]
    BY DEF Promote
  <2>4. restored'.from \in {restore[r].copy, restored.from}
    BY <2>1, <2>3
  <2> QED
    BY <2>1, <2>2, <2>3, <2>4 DEF RestoredTyped
<1>6. CopyInv'
  <2> SUFFICES ASSUME NEW s \in Restores, restore'[s].pc \in Verified
               PROVE  Uniform(restore'[s].copy)
    BY <1>5 DEF CopyInv
  <2> QED
    BY <1>2, <1>4 DEF WindowInv, CopyInv, Verified, Connected
<1>7. RoleInv'
  <2>1. role.member => role.by \in Restores
    BY DEF WindowInv, WindowTyped, RoleTyped, RoleInv
  <2> QED
    BY <1>1, <1>2, <1>4, <2>1 DEF WindowInv, RoleInv, Answering, Connected, Holding
<1> QED
  BY <1>1, <1>4, <1>5, <1>6, <1>7 DEF WindowInv, WindowTyped, RoleTyped

\* Nobody else has the lock when a window is opened or closed; who is logged in then
\* is sent away.
LEMMA WindowKeeps ==
  ASSUME WindowInv, NEW r \in Restores, Prepare(r) \/ CloseWindow(r)
  PROVE  WindowInv'
<1>1. \A s \in Restores : restore[s].pc \notin Holding
  BY DEF Prepare, CloseWindow, Unlocked, Alone, Holding
<1>2. PICK pc \in Phases :
        /\ Terminate(r, pc)
        /\ \/ pc = "opening" /\ UNCHANGED role /\ restore[r].pc = "staged"
           \/ pc = "ended" /\ role' = Closed
  BY DEF Prepare, CloseWindow, Phases, Answering
<1>3. /\ RestoreTyped' /\ restore'[r].pc = pc /\ restore'[r].copy = restore[r].copy
      /\ \A s \in Restores \ {r} :
           /\ restore'[s].copy = restore[s].copy
           /\ restore'[s].pc = IF restore[s].pc \in {"connecting"} \cup Connected
                                THEN "finalizing" ELSE restore[s].pc
  BY <1>2, TerminateStep DEF WindowInv, WindowTyped
<1>4. UNCHANGED <<restored, outlived>>
  BY DEF Prepare, CloseWindow
<1>5. RoleTyped' /\ RoleInv'
  <2>1. \A s \in Restores : restore'[s].pc \notin Connected \cup {"connecting"}
    BY <1>1, <1>2, <1>3 DEF Connected, Holding
  <2>2. \A q, s \in Restores : restore'[q].pc \in Holding /\ restore'[s].pc \in Holding => q = s
    <3>1. \A s \in Restores \ {r} : restore'[s].pc \notin Holding
      BY <1>1, <1>3 DEF Holding, Connected
    <3> QED
      BY <3>1
  <2>3. CASE role' = Closed
    <3>1. role'.by = Nil /\ role'.member = FALSE /\ role'.login = FALSE
      BY <2>3 DEF Closed
    <3> QED
      BY <1>4, <2>1, <2>2, <2>3, <3>1 DEF WindowInv, WindowTyped, RoleTyped, RoleInv, Closed, Connected
  <2>4. CASE pc = "opening" /\ UNCHANGED role /\ restore[r].pc = "staged"
    <3>1. RoleTyped'
      BY <1>4, <2>4 DEF WindowInv, WindowTyped, RoleTyped
    <3>2. role.member => role.by \in Restores
      BY DEF WindowInv, WindowTyped, RoleTyped, RoleInv
    <3>3. role.member => restore'[role.by].pc \in Answering \cup Unanswered
      BY <1>3, <2>4, <3>2 DEF WindowInv, RoleInv, Answering, Unanswered, Connected
    <3> QED
      BY <2>1, <2>2, <2>4, <3>1, <3>3 DEF WindowInv, RoleInv, Connected
  <2> QED
    BY <1>2, <2>3, <2>4
<1>6. CopyInv'
  <2> SUFFICES ASSUME NEW s \in Restores, restore'[s].pc \in Verified
               PROVE  Uniform(restore'[s].copy)
    BY <1>4 DEF WindowInv, CopyInv
  <2> QED
    BY <1>2, <1>3 DEF WindowInv, CopyInv, Verified, Connected
<1> QED
  BY <1>3, <1>4, <1>5, <1>6 DEF WindowInv, WindowTyped, RestoredTyped

\* When the role changes without its sessions being terminated, those that wait for
\* the lock outlive their window.
LEMMA OutlivedKeeps ==
  ASSUME WindowInv, NEW r \in Restores, Outlive, UNCHANGED restored, RoleTyped',
         \A s \in Restores \ {r} : restore[s].pc \notin Holding,
         \/ /\ restore[r].pc = "opening" /\ Goto(r, "preparing")
            /\ role'.by = r /\ role'.member
         \/ restore[r].pc = "finalizing" /\ Goto(r, "ended") /\ role' = Closed
  PROVE  WindowInv'
<1>1. PICK pc \in {"preparing", "ended"} :
        /\ Goto(r, pc)
        /\ \/ pc = "preparing" /\ restore[r].pc = "opening" /\ role'.by = r /\ role'.member
           \/ pc = "ended" /\ restore[r].pc = "finalizing" /\ role' = Closed
  OBVIOUS
<1>2. pc \in Phases
  BY <1>1 DEF Phases, Answering
<1>3. /\ RestoreTyped' /\ restore'[r].pc = pc /\ restore'[r].copy = restore[r].copy
      /\ \A s \in Restores \ {r} : restore'[s] = restore[s]
  BY <1>1, <1>2, GotoStep DEF WindowInv, WindowTyped
<1>4. CopyInv'
  <2> SUFFICES ASSUME NEW s \in Restores, restore'[s].pc \in Verified
               PROVE  Uniform(restore'[s].copy)
    BY DEF WindowInv, CopyInv
  <2> QED
    BY <1>1, <1>3 DEF WindowInv, CopyInv, Verified, Connected
<1>5. \A s \in Restores : restore'[s].pc \notin Connected
  BY <1>1, <1>3 DEF Holding, Connected
<1>6. \A s \in Restores : restore'[s].pc = "connecting" => s \in outlived'
  BY <1>1, <1>3 DEF Outlive
<1>7. \A q, s \in Restores : restore'[q].pc \in Holding /\ restore'[s].pc \in Holding => q = s
  BY <1>3
<1>8. role'.member <=> role'.by # Nil
  BY <1>1, NilIsNobody DEF Closed
<1>9. role'.member => restore'[role'.by].pc \in Answering \cup Unanswered
  BY <1>1, <1>3 DEF Closed, Answering
<1>10. RoleInv'
  BY <1>5, <1>6, <1>7, <1>8, <1>9 DEF RoleInv, Connected
<1> QED
  BY <1>3, <1>4, <1>10 DEF WindowInv, WindowTyped, RestoredTyped

LEMMA CommitKeeps ==
  ASSUME WindowInv, NEW r \in Restores, CommitWindow(r)
  PROVE  WindowInv'
<1>1. \A s \in Restores \ {r} : restore[s].pc \notin Holding
  BY DEF CommitWindow, WindowInv, RoleInv, Holding
<1>2. role'.by = r /\ role'.member /\ RoleTyped'
  BY DEF CommitWindow, Outlive, WindowInv, WindowTyped, RoleTyped
<1> QED
  BY <1>1, <1>2, OutlivedKeeps DEF CommitWindow

LEMMA FailKeeps ==
  ASSUME WindowInv, NEW r \in Restores, FailToClose(r)
  PROVE  WindowInv'
<1>1. CASE Goto(r, "unclosed") /\ UNCHANGED <<role, outlived>>
  BY <1>1, AloneKeeps
<1>2. CASE Unlocked /\ role' = Closed /\ Outlive /\ Goto(r, "ended")
  <2>1. \A s \in Restores \ {r} : restore[s].pc \notin Holding
    BY <1>2 DEF Unlocked, Alone, Holding
  <2>2. RoleTyped'
    BY <1>2 DEF Outlive, Closed, WindowInv, WindowTyped, RoleTyped
  <2> QED
    BY <1>2, <2>1, <2>2, OutlivedKeeps DEF FailToClose
<1> QED
  BY <1>1, <1>2 DEF FailToClose

LEMMA ExpireKeeps ==
  ASSUME WindowInv, Expire
  PROVE  WindowInv'
<1>1. UNCHANGED <<restore, outlived, restored>> /\ role' = [role EXCEPT !.login = FALSE]
  BY DEF Expire
<1>2. RoleTyped' /\ role'.by = role.by /\ role'.member = role.member
  BY <1>1 DEF WindowInv, WindowTyped, RoleTyped
<1> QED
  BY <1>1, <1>2 DEF WindowInv, WindowTyped, RestoreTyped, RestoredTyped, CopyInv, RoleInv

-------------------------------------------------------------------------------
(* BackupRestore: the invariant is inductive                               *)

LEMMA BackupStepTyped ==
  ASSUME CopiesTypeOK, DirInv, NEW b \in Backups,
         LookForName(b) \/ TakeDirectory(b) \/ ShareLock(b) \/ Dump(b) \/ StopBackup(b)
           \/ KillBackup(b) \/ Publish(b) \/ RemoveFile(b)
  PROVE  CopiesTypeOK' /\ UNCHANGED <<restore, role, outlived, restored>>
<1> DEFINE set == [pc : Running \cup {"idle", "succeeded", "failed", "killed", "torn"},
                    count : 0..4, shares : BOOLEAN,
                    then : {"failed", "identifying", "succeeded"}]
<1>0. UNCHANGED <<restore, role, outlived, restored>>
  BY DEF LookForName, TakeDirectory, ShareLock, Dump, StopBackup, KillBackup, Publish, RemoveFile
<1>1. mutex' \in Backups \cup {Nil}
  BY DEF LookForName, TakeDirectory, ShareLock, Dump, StopBackup, KillBackup, Publish, RemoveFile,
     CopiesTypeOK
<1>2. stops' \in 0..MaxStops
  BY CopiesAssumption
  DEF LookForName, TakeDirectory, ShareLock, Dump, StopBackup, KillBackup, Publish, RemoveFile,
     CopiesTypeOK
<1>3. dir' \in [{NameOf[c] : c \in Backups} -> [Parts -> Backups \cup {Nil}]]
  <2>1. CASE UNCHANGED dir
    BY <2>1 DEF CopiesTypeOK
  <2>2. ASSUME NEW k \in Parts, NEW f \in Backups \cup {Nil}, Puts(b, k, f)
        PROVE  dir' \in [{NameOf[c] : c \in Backups} -> [Parts -> Backups \cup {Nil}]]
    BY <2>2, DirStep
  <2>3. CASE Publish(b)
    <3>1. CASE backup[b].count + 1 \in Parts
      BY <2>2, <2>3, <3>1, PublishesOne
    <3>2. CASE backup[b].count + 1 \notin Parts
      BY <2>1, <2>3, <3>2 DEF Publish
    <3> QED
      BY <3>1, <3>2
  <2>4. CASE RemoveFile(b)
    <3>1. CASE Files(b) # NoFiles
      BY <2>2, <2>4, <3>1, RemovesOne
    <3>2. CASE Files(b) = NoFiles
      BY <2>1, <2>4, <3>2 DEF RemoveFile
    <3> QED
      BY <3>1, <3>2
  <2> QED
    BY <2>1, <2>3, <2>4 DEF LookForName, TakeDirectory, ShareLock, Dump, StopBackup, KillBackup
<1>4. backup' \in [Backups -> set]
  <2>0. backup \in [Backups -> set]
    BY DEF CopiesTypeOK
  <2>1. CASE LookForName(b)
    BY <2>0, <2>1 DEF LookForName, Running
  <2>2. CASE TakeDirectory(b)
    BY <2>0, <2>2 DEF TakeDirectory, Running
  <2>3. CASE ShareLock(b)
    BY <2>0, <2>3 DEF ShareLock, Running
  <2>4. CASE Dump(b)
    BY <2>0, <2>4 DEF Dump, Running
  <2>5. CASE StopBackup(b)
    <3>1. Outcomes(b) \subseteq {"failed", "identifying", "succeeded"}
      BY DEF Outcomes
    <3>2. PICK then \in {"failed", "identifying", "succeeded"} :
            backup' = [backup EXCEPT ![b] = [pc |-> "removing", count |-> 0, shares |-> FALSE,
                                             then |-> then]]
      BY <2>5, <3>1 DEF StopBackup
    <3> QED
      BY <2>0, <3>2 DEF Running
  <2>6. CASE KillBackup(b)
    BY <2>0, <2>6 DEF KillBackup, Running
  <2>7. CASE Publish(b)
    <3>1. backup[b].count \in 0..4
      BY <2>0
    <3>2. backup[b].count + 1 \in Parts => backup[b].count + 1 \in 0..4
      BY <3>1 DEF Parts
    <3>3. CASE backup[b].count + 1 \in Parts
      BY <2>0, <2>7, <3>2, <3>3, PublishesOne
    <3>4. CASE backup[b].count + 1 \notin Parts
      BY <2>0, <2>7, <3>4 DEF Publish
    <3> QED
      BY <3>3, <3>4
  <2>8. CASE RemoveFile(b)
    <3>1. CASE Files(b) # NoFiles
      BY <2>0, <2>8, <3>1, RemovesOne
    <3>2. CASE Files(b) = NoFiles
      BY <2>0, <2>8, <3>2 DEF RemoveFile, Running
    <3> QED
      BY <3>1, <3>2
  <2> QED
    BY <2>1, <2>2, <2>3, <2>4, <2>5, <2>6, <2>7, <2>8
<1> QED
  BY <1>0, <1>1, <1>2, <1>3, <1>4 DEF CopiesTypeOK

LEMMA WindowTypes ==
  ASSUME CopiesTypeOK, WindowTyped', UNCHANGED <<dir, mutex, backup>>, stops' \in 0..MaxStops
  PROVE  CopiesTypeOK'
BY DEF CopiesTypeOK, WindowTyped, RestoreTyped, RoleTyped, RestoredTyped, Phases, Copies

LEMMA CopiesInvParts == CopiesInv <=> CopiesTypeOK /\ DirInv /\ CopyInv /\ RoleInv
BY DEF CopiesInv, DirInv

LEMMA CopiesInvInit == CopiesInit => CopiesInv
<1> SUFFICES ASSUME CopiesInit PROVE CopiesInv
  OBVIOUS
<1>1. CopiesTypeOK
  BY CopiesTypeInit
<1>2. \A b \in Backups, k \in Parts : Files(b)[k] = Nil
  BY DEF CopiesInit, Files, NoFiles
<1>3. \A b \in Backups : backup[b].pc = "idle" /\ backup[b].count = 0
  BY DEF CopiesInit
<1>4. MutexInv
  BY <1>3, NilIsNobody DEF MutexInv, AtWork, CopiesInit
<1>5. OwnInv
  BY <1>2 DEF OwnInv
<1>6. CountInv
  BY <1>3 DEF CountInv
<1>7. WholeInv
  BY <1>2, NilIsNobody DEF WholeInv, Whole, Parts, Ciphertext
<1>8. CopyInv
  <2>1. Uniform(restored.from)
    BY DEF CopiesInit, NoDatabase, NoFiles, Uniform, Parts, Ciphertext
  <2> QED
    BY <2>1 DEF CopiesInit, CopyInv, Verified, Connected
<1>9. RoleInv
  BY DEF CopiesInit, RoleInv, Closed, Connected, Holding
<1> QED
  BY <1>1, <1>4, <1>5, <1>6, <1>7, <1>8, <1>9 DEF CopiesInv

LEMMA CopiesInvStep == CopiesInv /\ [CopiesNext]_copiesVars => CopiesInv'
<1> SUFFICES ASSUME CopiesInv, [CopiesNext]_copiesVars PROVE CopiesInv'
  OBVIOUS
<1>0. CopiesTypeOK /\ DirInv /\ WindowInv
  BY CopiesInvParts, TypedParts DEF WindowInv
<1>1. ASSUME NEW b \in Backups,
             LookForName(b) \/ TakeDirectory(b) \/ ShareLock(b) \/ Dump(b) \/ StopBackup(b)
               \/ KillBackup(b) \/ Publish(b) \/ RemoveFile(b)
      PROVE  CopiesInv'
  <2>1. DirInv'
    BY <1>0, <1>1, RunKeeps, PublishKeeps, RemoveKeeps
  <2>2. CopiesTypeOK' /\ UNCHANGED <<restore, role, outlived, restored>>
    BY <1>0, <1>1, BackupStepTyped
  <2>3. CopyInv' /\ RoleInv'
    BY <1>0, <2>2 DEF WindowInv, CopyInv, RoleInv
  <2> QED
    BY <2>1, <2>2, <2>3 DEF CopiesInv, DirInv
<1>2. ASSUME WindowInv', UNCHANGED <<dir, mutex, backup>>, stops' \in 0..MaxStops
      PROVE  CopiesInv'
  <2>1. CopiesTypeOK'
    BY <1>0, <1>2, WindowTypes DEF WindowInv
  <2>2. DirInv'
    BY <1>0, <1>2 DEF DirInv, MutexInv, OwnInv, CountInv, WholeInv, Whole, Unrivalled, Files
  <2> QED
    BY <1>2, <2>1, <2>2 DEF CopiesInv, DirInv, WindowInv
<1>3. ASSUME NEW r \in Restores,
             CopyFile(r) \/ Verify(r) \/ Prepare(r) \/ CommitWindow(r) \/ CheckPrepared(r)
               \/ Connect(r) \/ LockAdmin(r) \/ Load(r) \/ Promote(r) \/ StopRestore(r)
               \/ CloseWindow(r) \/ FailToClose(r) \/ KillRestore(r)
      PROVE  CopiesInv'
  <2>1. WindowInv'
    BY <1>0, <1>3, CopyFileKeeps, AloneKeeps, PromoteKeeps, WindowKeeps, CommitKeeps, FailKeeps
  <2>2. UNCHANGED <<dir, mutex, backup>>
    BY <1>3 DEF CopyFile, Verify, Prepare, CommitWindow, CheckPrepared, Connect, LockAdmin,
       Load, Promote, StopRestore, CloseWindow, FailToClose, KillRestore
  <2>3. stops' = stops \/ (stops < MaxStops /\ stops' = stops + 1)
    BY <1>3 DEF CopyFile, Verify, Prepare, CommitWindow, CheckPrepared, Connect, LockAdmin,
       Load, Promote, StopRestore, CloseWindow, FailToClose, KillRestore
  <2>4. stops' \in 0..MaxStops
    BY <1>0, <2>3, CopiesAssumption DEF CopiesTypeOK
  <2> QED
    BY <1>2, <2>1, <2>2, <2>4
<1>4. CASE Expire
  BY <1>0, <1>2, <1>4, ExpireKeeps DEF Expire, CopiesTypeOK
<1>5. CASE UNCHANGED copiesVars
  BY <1>5 DEF copiesVars, CopiesInv, CopiesTypeOK, MutexInv, OwnInv, CountInv, WholeInv, Whole,
     Unrivalled, Files, CopyInv, RoleInv
<1> QED
  BY <1>1, <1>3, <1>4, <1>5 DEF CopiesNext

LEMMA CopiesInvAlways == CopiesSpec => []CopiesInv
BY CopiesInvInit, CopiesInvStep, PTL DEF CopiesSpec

\* Files, runs, windows and the restored database keep their types.
THEOREM CopiesTypeCorrect == CopiesSpec => []CopiesTypeOK
<1>1. CopiesInv => CopiesTypeOK
  BY DEF CopiesInv
<1> QED
  BY <1>1, CopiesInvAlways, PTL

\* For any backups, names, restores, signals and kills: a ciphertext in the directory
\* has its companions unless its own run removes it or a rival worked under its name,
\* and what was restored is one backup (backup-db.sh:170, stage-restore-inputs.sh:113).
THEOREM WholeBackups == CopiesSpec => []BackupsAreWhole
<1>1. CopiesInv => BackupsAreWhole
  BY DEF CopiesInv, WholeInv, Whole, CopyInv, Uniform, BackupsAreWhole
<1> QED
  BY <1>1, CopiesInvAlways, PTL

\* An open window has a wrapper that is still to close it, unless that was killed or
\* signalled while it prepared the window, or its closing script failed
\* (run-guarded-restore.sh:29, 41).
THEOREM WindowsAnswered == CopiesSpec => []WindowIsAnswered
<1>1. CopiesInv => WindowIsAnswered
  BY DEF CopiesInv, RoleInv, Unanswered, WindowIsAnswered
<1> QED
  BY <1>1, CopiesInvAlways, PTL

\* A restore with the lock works with the window it opened until it has promoted its
\* database, however many restores open and close windows and whoever logs in while
\* they do (prepare-restore-window.sh:57-69): the one whose session outlived its own
\* window loads nothing.
THEOREM AuthorityHeld == CopiesSpec => []AuthorityLasts
<1>1. CopiesInv => AuthorityLasts
  <2> SUFFICES ASSUME CopiesInv, NEW r \in Restores
               PROVE  /\ restore[r].pc \in Connected \ {"locked"} => role.by = r /\ role.member
                      /\ restore[r].pc = "locked" /\ r \notin outlived =>
                           role.by = r /\ role.member
    BY DEF AuthorityLasts
  <2>1. role.by = r => role.member
    BY NilIsNobody DEF CopiesInv, RoleInv
  <2> QED
    BY <2>1 DEF CopiesInv, RoleInv, Connected
<1> QED
  BY <1>1, CopiesInvAlways, PTL

-------------------------------------------------------------------------------
(* IdentityOperations: the invariant                                       *)

Creating == {"find", "create", "finalize", "undo", "check", "delete", "settle"}
Steps    == Creating \cup {"idle", "checkpoint", "disable", "revoke", "list", "remove", "require",
                           "finish"}

RunTyped ==
  run \in [Sessions -> [pc : Steps, of : Ops \cup {None}, subject : Users \cup {None},
                        listed : SUBSET {"old", "new"}]]

\* What a session does fits the kind of its operation.
KindAt(s) ==
  /\ run[s].pc # "idle" => Of(s) \in Ops
  /\ run[s].pc \in Creating => Of(s) \in Creates
  /\ run[s].pc \in {"disable", "revoke"} => Of(s) \in Disables
  /\ run[s].pc \in {"list", "remove", "require"} => Of(s) \in Resets
  /\ run[s].pc = "finish" => Of(s) \notin Creates

KindRow(o) ==
  /\ op[o].status = "cleanup_pending" => o \in Creates
  /\ op[o].status \notin Open => op[o].lease = None

KindInv == (\A s \in Sessions : KindAt(s)) /\ \A o \in Ops : KindRow(o)

\* A subject is handed out once, and one that a session knows was.
UserAt(s) ==
  /\ run[s].pc = "checkpoint" /\ Of(s) \in Creates => Subject(s) \in Users
  /\ run[s].pc = "delete" => /\ Subject(s) \in Users \ unused
                             /\ user.subject = Subject(s) => Mine(s)

UserInv ==
  /\ user.subject = None => user = NoUser
  /\ user.subject \notin unused
  /\ account.subject # None => account.exists
  /\ \A s \in Sessions : UserAt(s)

\* What a change has done so far, at every step of every session, overrun or not.
Disabled == ~target.enabled /\ ~target.session
NoOld    == "old" \notin target.otp

EffectAt(s) ==
  /\ run[s].pc = "revoke" => ~target.enabled
  /\ run[s].pc = "checkpoint" /\ Of(s) \in Disables => Disabled
  /\ run[s].pc = "remove" => ("old" \in target.otp => "old" \in run[s].listed)
  /\ run[s].pc = "require" => NoOld
  /\ run[s].pc = "checkpoint" /\ Of(s) \in Resets => NoOld

EffectRow(o) ==
  /\ o \in Disables /\ op[o].status \in {"provider_applied", "completed"} => Disabled
  /\ o \in Disables /\ op[o].status = "completed" => target.status = "disabled"
  /\ o \in Resets /\ op[o].status \in {"provider_applied", "completed"} => NoOld

EffectInv == (\A s \in Sessions : EffectAt(s)) /\ \A o \in Ops : EffectRow(o)

\* Unless a session overran its lease: who works on an operation has its lease, and
\* the row is where the session left it, or was completed without an answer.
Expected(pc) ==
  IF pc \in {"finalize", "finish", "undo"} THEN "provider_applied"
  ELSE IF pc \in {"check", "delete", "settle"} THEN "cleanup_pending" ELSE "pending"

Holds(s) == op[Of(s)].lease = s /\ ~op[Of(s)].over /\ op[Of(s)].status = Expected(run[s].pc)

LeaseAt(s) ==
  run[s].pc # "idle" => Holds(s) \/ (run[s].pc = "undo" /\ op[Of(s)].status = "completed")

LeaseInv == \A s \in Sessions : LeaseAt(s)

\* And what it knows of its user is so.
MarkAt(s) ==
  /\ run[s].pc = "checkpoint" /\ Of(s) \in Creates => Mine(s) /\ user.subject = Subject(s)
  /\ run[s].pc = "delete" => (Mine(s) => user.subject = Subject(s))
  /\ run[s].pc = "settle" => ~Mine(s)

MarkRow(o) ==
  o \in Creates /\ user.marker = o =>
    /\ op[o].status \in {"provider_applied", "cleanup_pending", "completed"} =>
         user.subject = op[o].subject
    /\ op[o].status \in {"compensated", "failed"} => account.subject = user.subject

MarkInv == (\A s \in Sessions : MarkAt(s)) /\ \A o \in Ops : MarkRow(o)

InTime == late = {} => LeaseInv /\ MarkInv

IdentityInv == IdentityTypeOK /\ RunTyped /\ KindInv /\ UserInv /\ EffectInv /\ InTime

-------------------------------------------------------------------------------
(* IdentityOperations: what a step does to the row and to the session      *)

Row  == [status : Open \cup Terminal \cup {None}, lease : Sessions \cup {None},
         over : BOOLEAN, due : BOOLEAN, subject : Users \cup {None}]
Work1 == [pc : Steps, of : Ops \cup {None}, subject : Users \cup {None}, listed : SUBSET {"old", "new"}]

\* Of two functions on a set, at most the value at x differs.
OpAt(o, entry)  == op' \in [Ops -> Row] /\ op'[o] = entry /\ \A p \in Ops : p # o => op'[p] = op[p]
RunAt(s, work) == run' \in [Sessions -> Work1] /\ run'[s] = work
                  /\ \A t \in Sessions : t # s => run'[t] = run[t]

LEMMA ReleasedRow ==
  ASSUME op \in [Ops -> Row], NEW o \in Ops, NEW status \in Open \cup Terminal, NEW due \in BOOLEAN,
         Released(o, status, due)
  PROVE  /\ op' \in [Ops -> Row] /\ \A p \in Ops : p # o => op'[p] = op[p]
         /\ op'[o].status = status /\ op'[o].lease = None /\ ~op'[o].over
         /\ op'[o].subject = op[o].subject
<1> DEFINE entry == [op[o] EXCEPT !.status = status, !.lease = None, !.over = FALSE, !.due = due]
<1>1. op[o] \in Row
  OBVIOUS
<1>2. entry.status = status /\ entry.lease = None /\ ~entry.over /\ entry.subject = op[o].subject
  BY <1>1 DEF Row
<1>3. entry \in Row
  BY <1>1 DEF Row
<1>4. op' = [op EXCEPT ![o] = entry]
  BY DEF Released
<1> HIDE DEF entry
<1> QED
  BY <1>2, <1>3, <1>4

LEMMA StopRun ==
  ASSUME run \in [Sessions -> Work1], NEW s \in Sessions, Stop(s)
  PROVE  RunAt(s, Idle)
<1>1. Idle \in Work1
  BY DEF Idle, Work1, Steps, Creating
<1> QED
  BY <1>1 DEF Stop, RunAt

LEMMA GoRun ==
  ASSUME run \in [Sessions -> Work1], NEW s \in Sessions, NEW pc \in Steps, Go(s, pc)
  PROVE  RunAt(s, [run[s] EXCEPT !.pc = pc])
<1>1. run[s] \in Work1
  OBVIOUS
<1>2. [run[s] EXCEPT !.pc = pc] \in Work1
  BY <1>1 DEF Work1
<1> QED
  BY <1>2 DEF Go, RunAt
\* A session ends: it gives its row back with the status "to", or has it no longer.
Outcome(from, to) ==
  \/ from = Open /\ to = "failed"
  \/ from = {"pending"} /\ to = "pending"
  \/ from = {"cleanup_pending"} /\ to \in {"cleanup_pending", "compensated"}
  \/ from = {"provider_applied"} /\ to = "completed"

OpsFrom(s) == op' \in [Ops -> Row] /\ \A o \in Ops : o # Of(s) => op'[o] = op[o]

Returns(s, from, to) ==
  /\ RunAt(s, Idle) /\ OpsFrom(s)
  /\ \/ op'[Of(s)] = op[Of(s)]
     \/ /\ op[Of(s)].lease = s /\ op[Of(s)].status \in from
        /\ op'[Of(s)].status = to /\ op'[Of(s)].lease = None /\ ~op'[Of(s)].over
        /\ op'[Of(s)].subject = op[Of(s)].subject

Typed == op \in [Ops -> Row] /\ run \in [Sessions -> Work1]

LEMMA FailsReturns ==
  ASSUME Typed, NEW s \in Sessions, Of(s) \in Ops, Fails(s)
  PROVE  Returns(s, Open, "failed")
<1>1. RunAt(s, Idle)
  BY StopRun DEF Fails, Typed
<1>2. CASE HeldOpen(s)
  <2>1. Released(Of(s), "failed", FALSE) /\ op[Of(s)].lease = s /\ op[Of(s)].status \in Open
    BY <1>2 DEF Fails, HeldOpen, Held
  <2> QED
    BY <1>1, <2>1, ReleasedRow DEF Returns, OpsFrom, Typed, Terminal
<1>3. CASE ~HeldOpen(s)
  BY <1>1, <1>3 DEF Fails, Returns, OpsFrom, Typed
<1> QED
  BY <1>2, <1>3

LEMMA RetriesReturns ==
  ASSUME Typed, NEW s \in Sessions, Of(s) \in Ops, Retries(s)
  PROVE  Returns(s, {"pending"}, "pending")
<1>1. RunAt(s, Idle)
  BY StopRun DEF Retries, Typed
<1>2. CASE Held(s, "pending")
  <2>1. Released(Of(s), "pending", FALSE) /\ op[Of(s)].lease = s /\ op[Of(s)].status = "pending"
    BY <1>2 DEF Retries, Held
  <2> QED
    BY <1>1, <2>1, ReleasedRow DEF Returns, OpsFrom, Typed, Open
<1>3. CASE ~Held(s, "pending")
  BY <1>1, <1>3 DEF Retries, Returns, OpsFrom, Typed
<1> QED
  BY <1>2, <1>3

LEMMA PostponesReturns ==
  ASSUME Typed, NEW s \in Sessions, Of(s) \in Ops, Postpones(s)
  PROVE  Returns(s, {"cleanup_pending"}, "cleanup_pending")
<1>1. RunAt(s, Idle)
  BY StopRun DEF Postpones, Typed
<1>2. CASE Held(s, "cleanup_pending")
  <2>1. /\ Released(Of(s), "cleanup_pending", FALSE) /\ op[Of(s)].lease = s
        /\ op[Of(s)].status = "cleanup_pending"
    BY <1>2 DEF Postpones, Held
  <2> QED
    BY <1>1, <2>1, ReleasedRow DEF Returns, OpsFrom, Typed, Open
<1>3. CASE ~Held(s, "cleanup_pending")
  BY <1>1, <1>3 DEF Postpones, Returns, OpsFrom, Typed
<1> QED
  BY <1>2, <1>3

LEMMA StopReturns ==
  ASSUME Typed, NEW s \in Sessions, Of(s) \in Ops, Stop(s), UNCHANGED op, NEW from, NEW to
  PROVE  Returns(s, from, to)
BY StopRun DEF Returns, OpsFrom, Typed

LEMMA CompletesReturns ==
  ASSUME Typed, NEW s \in Sessions, Of(s) \in Ops, Stop(s),
         NEW from, NEW to, Outcome(from, to), op[Of(s)].lease = s, op[Of(s)].status \in from,
         Released(Of(s), to, FALSE)
  PROVE  Returns(s, from, to)
<1>1. to \in Open \cup Terminal
  BY DEF Outcome, Open, Terminal
<1> QED
  BY <1>1, StopRun, ReleasedRow DEF Returns, OpsFrom, Typed

-------------------------------------------------------------------------------
(* IdentityOperations: a step of one session at one row                    *)

\* The part of the type that the rows and the sessions make.
SubjectRow(o) ==
  o \in Creates /\ op[o].status \in {"provider_applied", "cleanup_pending", "completed", "compensated"}
    => op[o].subject \in Users

RowsTyped == Typed /\ \A o \in Ops : SubjectRow(o)

LEMMA IdentityTyped == IdentityTypeOK /\ RunTyped => RowsTyped
BY DEF IdentityTypeOK, RunTyped, RowsTyped, SubjectRow, Typed, Row, Work1

\* What is done at the provider stays done.
Kept ==
  /\ target'.enabled => target.enabled
  /\ Disabled => Disabled'
  /\ "old" \in target'.otp => "old" \in target.otp
  /\ target.status = "disabled" => target'.status = "disabled"

SessionStep(s, o) ==
  /\ RunAt(s, run'[s])
  /\ op' \in [Ops -> Row] /\ \A p \in Ops : p # o => op'[p] = op[p]

LEMMA StepKind ==
  ASSUME RowsTyped, KindInv, NEW s \in Sessions, NEW o \in Ops, SessionStep(s, o),
         KindAt(s)', KindRow(o)', SubjectRow(o)'
  PROVE  RowsTyped' /\ KindInv'
<1>1. Typed'
  BY DEF SessionStep, RunAt, Typed
<1>2. ASSUME NEW t \in Sessions PROVE KindAt(t)'
  BY DEF SessionStep, RunAt, KindInv, KindAt, Of
<1>3. ASSUME NEW p \in Ops PROVE KindRow(p)' /\ SubjectRow(p)'
  BY DEF SessionStep, KindInv, KindRow, RowsTyped, SubjectRow
<1> QED
  BY <1>1, <1>2, <1>3 DEF RowsTyped, KindInv

LEMMA StepLease ==
  ASSUME KindInv, LeaseInv, NEW s \in Sessions, NEW o \in Ops, SessionStep(s, o), LeaseAt(s)',
         op'[o] = op[o] \/ (op[o].status \in Open /\ (op[o].lease = s \/ Free(o)))
  PROVE  LeaseInv'
<1> SUFFICES ASSUME NEW t \in Sessions, t # s, run'[t].pc # "idle"
             PROVE  LeaseAt(t)'
  BY DEF LeaseInv, LeaseAt
<1>1. run'[t] = run[t] /\ Of(t) \in Ops
  BY DEF SessionStep, RunAt, KindInv, KindAt
<1>2. t # None
  BY IdentityAssumption
<1>3. op'[Of(t)] = op[Of(t)]
  BY <1>1, <1>2 DEF SessionStep, LeaseInv, LeaseAt, Holds, Open, Free
<1> QED
  BY <1>1, <1>3 DEF LeaseInv, LeaseAt, Holds, Of

LEMMA StepEffect ==
  ASSUME EffectInv, NEW s \in Sessions, NEW o \in Ops, SessionStep(s, o),
         Kept, EffectAt(s)', EffectRow(o)'
  PROVE  EffectInv'
<1>1. ASSUME NEW t \in Sessions PROVE EffectAt(t)'
  BY DEF SessionStep, RunAt, EffectInv, EffectAt, Kept, NoOld, Of
<1>2. ASSUME NEW p \in Ops PROVE EffectRow(p)'
  BY DEF SessionStep, EffectInv, EffectRow, Kept, NoOld
<1> QED
  BY <1>1, <1>2 DEF EffectInv

LEMMA StepUser ==
  ASSUME UserInv, NEW s \in Sessions, NEW o \in Ops, SessionStep(s, o), UNCHANGED create, UserAt(s)'
  PROVE  UserInv'
<1>1. ASSUME NEW t \in Sessions PROVE UserAt(t)'
  BY DEF SessionStep, RunAt, UserInv, UserAt, Of, Subject, Mine, create
<1> QED
  BY <1>1 DEF UserInv, create

LEMMA StepMark ==
  ASSUME MarkInv, NEW s \in Sessions, NEW o \in Ops, SessionStep(s, o), UNCHANGED create,
         MarkAt(s)', MarkRow(o)'
  PROVE  MarkInv'
<1>1. ASSUME NEW t \in Sessions PROVE MarkAt(t)'
  BY DEF SessionStep, RunAt, MarkInv, MarkAt, Of, Subject, Mine, create
<1>2. ASSUME NEW p \in Ops PROVE MarkRow(p)'
  BY DEF SessionStep, MarkInv, MarkRow, create
<1> QED
  BY <1>1, <1>2 DEF MarkInv

-------------------------------------------------------------------------------
(* IdentityOperations: the end of a session                                *)

LEMMA ReturnsStep ==
  ASSUME NEW s \in Sessions, NEW from, NEW to, Returns(s, from, to)
  PROVE  SessionStep(s, Of(s)) /\ run'[s] = Idle
BY DEF Returns, SessionStep, RunAt, OpsFrom

\* An idle session claims nothing.
LEMMA IdleAt ==
  ASSUME NEW s \in Sessions, run'[s] = Idle
  PROVE  KindAt(s)' /\ UserAt(s)' /\ EffectAt(s)' /\ LeaseAt(s)' /\ MarkAt(s)'
<1>1. run'[s].pc = "idle"
  BY DEF Idle
<1> QED
  BY <1>1 DEF KindAt, UserAt, EffectAt, LeaseAt, MarkAt, Creating

LEMMA ReturnsKind ==
  ASSUME RowsTyped, KindInv, NEW s \in Sessions, Of(s) \in Ops, NEW from, NEW to,
         Outcome(from, to), Returns(s, from, to)
  PROVE  RowsTyped' /\ KindInv'
<1>1. PICK o \in Ops : o = Of(s)
  OBVIOUS
<1>2. SessionStep(s, o) /\ KindAt(s)'
  BY <1>1, ReturnsStep, IdleAt
<1>3. KindRow(o) /\ SubjectRow(o)
  BY DEF KindInv, RowsTyped
<1>4. KindRow(o)' /\ SubjectRow(o)'
  BY <1>1, <1>3 DEF Returns, OpsFrom, Outcome, Open, KindRow, SubjectRow
<1> QED
  BY <1>2, <1>4, StepKind

LEMMA ReturnsLease ==
  ASSUME KindInv, LeaseInv, NEW s \in Sessions, Of(s) \in Ops, NEW from, NEW to,
         Outcome(from, to), Returns(s, from, to)
  PROVE  LeaseInv'
<1>1. PICK o \in Ops : o = Of(s)
  OBVIOUS
<1>2. SessionStep(s, o) /\ LeaseAt(s)'
  BY <1>1, ReturnsStep, IdleAt
<1>3. op'[o] = op[o] \/ (op[o].status \in Open /\ op[o].lease = s)
  BY <1>1 DEF Returns, Outcome, Open
<1> QED
  BY <1>2, <1>3, StepLease

LEMMA ReturnsEffect ==
  ASSUME EffectInv, NEW s \in Sessions, Of(s) \in Ops, NEW from, NEW to,
         Outcome(from, to), Returns(s, from, to), Kept,
         to = "completed" /\ Of(s) \in Disables => target'.status = "disabled" \/ op' = op
  PROVE  EffectInv'
<1>1. PICK o \in Ops : o = Of(s)
  OBVIOUS
<1>2. SessionStep(s, o) /\ EffectAt(s)'
  BY <1>1, ReturnsStep, IdleAt
<1>3. EffectRow(o)
  BY DEF EffectInv
<1>4. EffectRow(o)'
  BY <1>1, <1>3 DEF Returns, Outcome, Open, EffectRow, Kept, NoOld
<1> QED
  BY <1>2, <1>4, StepEffect

LEMMA ReturnsMark ==
  ASSUME MarkInv, NEW s \in Sessions, Of(s) \in Ops, NEW from, NEW to,
         Outcome(from, to), Returns(s, from, to), UNCHANGED create,
         to \in {"failed", "compensated"} /\ Mine(s) => account.subject = user.subject \/ op' = op
  PROVE  MarkInv'
<1>1. PICK o \in Ops : o = Of(s)
  OBVIOUS
<1>2. SessionStep(s, o) /\ MarkAt(s)'
  BY <1>1, ReturnsStep, IdleAt
<1>3. MarkRow(o)
  BY DEF MarkInv
<1>4. MarkRow(o)'
  BY <1>1, <1>3 DEF Returns, Outcome, MarkRow, Mine, create
<1> QED
  BY <1>2, <1>4, StepMark

\* A session that ends keeps the invariant, if it reports what is so.
RestTyped ==
  /\ user \in [subject : Users \cup {None}, marker : Creates \cup {None}]
  /\ unused \subseteq Users
  /\ account \in [exists : BOOLEAN, subject : Users \cup {None}, by : Creates \cup {None, "import"}]
  /\ target \in [enabled : BOOLEAN, session : BOOLEAN, otp : SUBSET {"old", "new"},
                 required : BOOLEAN, status : {"active", "disabled"}]
  /\ late \subseteq Sessions /\ faults \in 0..MaxFaults

Core == RowsTyped /\ KindInv /\ UserInv /\ EffectInv /\ InTime

LEMMA CoreEquivalent == IdentityInv <=> Core /\ RestTyped
<1>1. IdentityTypeOK /\ RunTyped <=> RowsTyped /\ RestTyped /\ (\A s \in Sessions : run[s].pc # "idle" => run[s].of \in Ops)
  BY DEF IdentityTypeOK, RunTyped, RowsTyped, SubjectRow, Typed, Row, Work1, RestTyped, Ops
<1> QED
  BY <1>1 DEF IdentityInv, Core, KindInv, KindAt, Of

LEMMA ReturnsKeeps ==
  ASSUME Core, NEW s \in Sessions, Of(s) \in Ops, NEW from, NEW to,
         Outcome(from, to), Returns(s, from, to), UNCHANGED <<create, late>>, Kept,
         to = "completed" /\ Of(s) \in Disables => target'.status = "disabled" \/ op' = op,
         late = {} /\ to \in {"failed", "compensated"} /\ Mine(s) => account.subject = user.subject \/ op' = op
  PROVE  Core'
<1>1. RowsTyped' /\ KindInv'
  BY ReturnsKind DEF Core
<1>2. EffectInv'
  BY ReturnsEffect DEF Core
<1>3. UserInv'
  BY ReturnsStep, IdleAt, StepUser DEF Core
<1>4. InTime'
  BY ReturnsLease, ReturnsMark DEF Core, InTime
<1> QED
  BY <1>1, <1>2, <1>3, <1>4 DEF Core

-------------------------------------------------------------------------------
(* IdentityOperations: a session that goes on                              *)

\* The session goes on at pc with the same operation; its row stays.
GoesOn(s, pc) ==
  /\ SessionStep(s, Of(s)) /\ op' = op
  /\ run'[s].pc = pc /\ run'[s].of = run[s].of

LEMMA GoGoesOn ==
  ASSUME Typed, NEW s \in Sessions, NEW pc \in Steps, Go(s, pc), op' = op
  PROVE  GoesOn(s, pc) /\ run'[s].subject = run[s].subject /\ run'[s].listed = run[s].listed
<1>1. run[s] \in Work1
  BY DEF Typed
<1>2. [run[s] EXCEPT !.pc = pc].pc = pc /\ [run[s] EXCEPT !.pc = pc].of = run[s].of
      /\ [run[s] EXCEPT !.pc = pc].subject = run[s].subject /\ [run[s] EXCEPT !.pc = pc].listed = run[s].listed
  BY <1>1 DEF Work1
<1>3. RunAt(s, [run[s] EXCEPT !.pc = pc])
  BY GoRun DEF Typed
<1> QED
  BY <1>2, <1>3 DEF GoesOn, SessionStep, RunAt, Typed

LEMMA SubjectGoesOn ==
  ASSUME Typed, NEW s \in Sessions, NEW pc \in Steps, NEW subject \in Users \cup {None},
         run' = [run EXCEPT ![s].pc = pc, ![s].subject = subject], op' = op
  PROVE  GoesOn(s, pc) /\ run'[s].subject = subject /\ run'[s].listed = run[s].listed
<1> DEFINE work == [run[s] EXCEPT !.pc = pc, !.subject = subject]
<1>1. run[s] \in Work1
  BY DEF Typed
<1>2. work \in Work1 /\ work.pc = pc /\ work.of = run[s].of /\ work.subject = subject /\ work.listed = run[s].listed
  BY <1>1 DEF Work1
<1>3. run' = [run EXCEPT ![s] = work]
  BY DEF Typed
<1> HIDE DEF work
<1>4. RunAt(s, work)
  BY <1>2, <1>3 DEF RunAt, Typed
<1> QED
  BY <1>2, <1>4 DEF GoesOn, SessionStep, RunAt, Typed

SetListed(s, pc, listed) == run' = [run EXCEPT ![s].pc = pc, ![s].listed = listed]

LEMMA ListedGoesOn ==
  ASSUME Typed, NEW s \in Sessions, NEW pc \in Steps, NEW listed \in SUBSET {"old", "new"},
         SetListed(s, pc, listed), op' = op
  PROVE  GoesOn(s, pc) /\ run'[s].listed = listed /\ run'[s].subject = run[s].subject
<1> DEFINE work == [run[s] EXCEPT !.pc = pc, !.listed = listed]
<1>1. run[s] \in Work1
  BY DEF Typed
<1>2. work \in Work1 /\ work.pc = pc /\ work.of = run[s].of /\ work.listed = listed /\ work.subject = run[s].subject
  BY <1>1 DEF Work1
<1>3. run' = [run EXCEPT ![s] = work]
  BY DEF Typed, SetListed
<1> HIDE DEF work
<1>4. RunAt(s, work)
  BY <1>2, <1>3 DEF RunAt, Typed
<1> QED
  BY <1>2, <1>4 DEF GoesOn, SessionStep, RunAt, Typed

\* Its place must suit its operation, the row and the user.
LEMMA GoesOnKeeps ==
  ASSUME Core, NEW s \in Sessions, Of(s) \in Ops, NEW pc, GoesOn(s, pc), UNCHANGED <<create, late>>, Kept,
         run[s].pc # "idle", pc # "idle",
         Expected(pc) = Expected(run[s].pc) \/ pc = "undo", run[s].pc = "undo" => pc = "undo",
         pc = "undo" => Expected(run[s].pc) = "provider_applied",
         KindAt(s)', UserAt(s)', EffectAt(s)', late = {} => MarkAt(s)'
  PROVE  Core'
<1>1. PICK o \in Ops : o = Of(s)
  OBVIOUS
<1>2. SessionStep(s, o) /\ op' = op
  BY <1>1 DEF GoesOn
<1>3. RowsTyped' /\ KindInv'
  BY <1>2, StepKind DEF Core, KindInv, KindRow, RowsTyped, SubjectRow
<1>4. EffectRow(o)'
  BY <1>2 DEF Core, EffectInv, EffectRow, Kept, NoOld
<1>5. UserInv' /\ EffectInv'
  BY <1>2, <1>4, StepUser, StepEffect DEF Core
<1>6. ASSUME late = {} PROVE LeaseInv' /\ MarkInv'
  <2>1. LeaseAt(s) /\ MarkRow(o)
    BY <1>6 DEF Core, InTime, LeaseInv, MarkInv
  <2>2. LeaseAt(s)'
    BY <2>1 DEF LeaseAt, Holds, GoesOn, Of, Expected
  <2>3. MarkRow(o)'
    BY <2>1, <1>2 DEF MarkRow, create
  <2> QED
    BY <1>2, <1>6, <2>2, <2>3, StepLease, StepMark DEF Core, InTime
<1> QED
  BY <1>3, <1>5, <1>6 DEF Core, InTime

-------------------------------------------------------------------------------
(* IdentityOperations: the steps of a creation                             *)

LEMMA FindCore ==
  ASSUME Core, RestTyped, NEW s \in Sessions, Find(s)
  PROVE  Core'
<1>1. Typed /\ run[s].pc = "find" /\ Of(s) \in Ops /\ Of(s) \in Creates
  BY DEF Core, RowsTyped, Find, KindInv, KindAt, Creating
<1>2. UNCHANGED <<create, late>> /\ Kept
  BY DEF Find, Kept, Disabled
<1>3. CASE ~Mine(s) /\ Fails(s)
  BY <1>1, <1>2, <1>3, FailsReturns, ReturnsKeeps DEF Outcome
<1>4. CASE Retries(s)
  BY <1>1, <1>2, <1>4, RetriesReturns, ReturnsKeeps DEF Outcome
<1>5. CASE /\ user # NoUser /\ Mine(s) /\ op' = op
           /\ run' = [run EXCEPT ![s].pc = "checkpoint", ![s].subject = user.subject]
  <2>1. user.subject \in Users
    BY <1>5 DEF Core, UserInv, RestTyped
  <2>2. GoesOn(s, "checkpoint") /\ run'[s].subject = user.subject
    BY <1>1, <1>5, <2>1, SubjectGoesOn DEF Steps, Creating
  <2>3. KindAt(s)' /\ UserAt(s)' /\ EffectAt(s)' /\ MarkAt(s)'
    BY <1>1, <1>2, <1>5, <2>1, <2>2, IdentityAssumption
       DEF GoesOn, KindAt, UserAt, EffectAt, MarkAt, Mine, Of, Subject, Creating, create
  <2> QED
    BY <1>1, <1>2, <2>2, <2>3, GoesOnKeeps DEF Expected
<1>6. CASE op' = op /\ Go(s, "create")
  <2>1. GoesOn(s, "create")
    BY <1>1, <1>6, GoGoesOn DEF Steps, Creating
  <2>2. KindAt(s)' /\ UserAt(s)' /\ EffectAt(s)' /\ MarkAt(s)'
    BY <1>1, <2>1 DEF GoesOn, KindAt, UserAt, EffectAt, MarkAt, Of, Creating
  <2> QED
    BY <1>1, <1>2, <2>1, <2>2, GoesOnKeeps DEF Expected
<1> QED
  BY <1>3, <1>4, <1>5, <1>6 DEF Find, CallFails

\* In time, one session works on an operation at once.
LEMMA OneWorks ==
  ASSUME LeaseInv, NEW s \in Sessions, NEW t \in Sessions, run[s].pc # "idle", run[t].pc # "idle",
         run[s].pc # "undo", Of(s) = Of(t)
  PROVE  s = t
<1>1. Holds(s) /\ (Holds(t) \/ op[Of(s)].status = "completed")
  BY DEF LeaseInv, LeaseAt
<1>2. op[Of(s)].status # "completed"
  BY <1>1 DEF Holds, Expected
<1> QED
  BY <1>1, <1>2 DEF Holds

LEMMA CreatesUser ==
  ASSUME Core, RestTyped, NEW s \in Sessions, run[s].pc = "create", SessionStep(s, Of(s)),
         user = NoUser, NEW u \in unused, user' = [subject |-> u, marker |-> Of(s)],
         unused' = unused \ {u}, account' = account,
         UserAt(s)', late = {} => MarkAt(s)',
         op'[Of(s)] = op[Of(s)] \/ op'[Of(s)].status \in {"pending"}
  PROVE  UserInv' /\ (late = {} => MarkInv')
<1>1. Of(s) \in Creates /\ Of(s) \in Ops /\ u \in Users /\ u # None
  BY IdentityAssumption DEF Core, KindInv, KindAt, Creating, RestTyped
<1>2. user'.subject = u /\ user'.marker = Of(s) /\ user.subject = None /\ user.marker = None
  BY DEF NoUser
<1>3. ASSUME NEW t \in Sessions PROVE UserAt(t)'
  BY <1>2, <1>3 DEF SessionStep, RunAt, Core, UserInv, UserAt, Of, Subject
<1>4. UserInv'
  BY <1>1, <1>2, <1>3 DEF UserInv, Core
<1>5. ASSUME late = {} PROVE MarkInv'
  <2>1. LeaseInv /\ MarkInv /\ LeaseAt(s)
    BY <1>5 DEF Core, InTime, LeaseInv
  <2>2. op[Of(s)].status = "pending"
    BY <2>1 DEF LeaseAt, Holds, Expected
  <2>3. ASSUME NEW t \in Sessions, t # s PROVE MarkAt(t)'
    <3>1. run'[t] = run[t] /\ MarkAt(t)
      BY <2>1, <2>3 DEF SessionStep, RunAt, MarkInv
    <3>2. run[t].pc # "idle" => Of(t) # Of(s)
      BY <2>1, <2>3, OneWorks
    <3>3. Of(t) \in Creates => Of(t) # None
      BY IdentityAssumption
    <3> QED
      BY <1>2, <3>1, <3>2, <3>3 DEF MarkAt, Mine, Of
  <2>4. ASSUME NEW p \in Ops PROVE MarkRow(p)'
    <3>1. p # Of(s) => ~(user'.marker = p)
      BY <1>2
    <3>2. op'[Of(s)].status = "pending"
      BY <2>2
    <3> QED
      BY <3>1, <3>2 DEF MarkRow
  <2> QED
    BY <1>5, <2>3, <2>4 DEF MarkInv
<1> QED
  BY <1>4, <1>5

LEMMA CreateCore ==
  ASSUME Core, RestTyped, NEW s \in Sessions, Create(s)
  PROVE  Core'
<1>1. Typed /\ run[s].pc = "create" /\ Of(s) \in Ops /\ Of(s) \in Creates
  BY DEF Core, RowsTyped, Create, KindInv, KindAt, Creating
<1>2. UNCHANGED <<account, late>> /\ Kept
  BY DEF Create, Kept, Disabled
<1>3. CASE Retries(s) /\ UNCHANGED <<user, unused>>
  BY <1>1, <1>2, <1>3, RetriesReturns, ReturnsKeeps DEF Outcome, create
<1>4. ASSUME user = NoUser, NEW u \in unused, user' = [subject |-> u, marker |-> Of(s)],
             unused' = unused \ {u},
             \/ run' = [run EXCEPT ![s].pc = "checkpoint", ![s].subject = u] /\ op' = op
             \/ Retries(s)
      PROVE  Core'
  <2>1. u \in Users
    BY <1>4 DEF RestTyped
  <2>2. CASE Retries(s)
    <3>1. Returns(s, {"pending"}, "pending") /\ Outcome({"pending"}, "pending")
      BY <1>1, <2>2, RetriesReturns DEF Outcome
    <3>2. RowsTyped' /\ KindInv' /\ EffectInv' /\ (LeaseInv => LeaseInv')
      BY <1>1, <1>2, <3>1, ReturnsKind, ReturnsEffect, ReturnsLease DEF Core
    <3>3. UserInv' /\ (late = {} => MarkInv')
      BY <1>1, <1>2, <1>4, <3>1, ReturnsStep, IdleAt, CreatesUser DEF Returns
    <3> QED
      BY <1>2, <3>2, <3>3 DEF Core, InTime
  <2>3. CASE run' = [run EXCEPT ![s].pc = "checkpoint", ![s].subject = u] /\ op' = op
    <3>1. GoesOn(s, "checkpoint") /\ run'[s].subject = u
      BY <1>1, <2>1, <2>3, SubjectGoesOn DEF Steps, Creating
    <3>2. KindAt(s)' /\ UserAt(s)' /\ EffectAt(s)' /\ MarkAt(s)'
      BY <1>1, <1>4, <2>1, <3>1, IdentityAssumption
         DEF GoesOn, KindAt, UserAt, EffectAt, MarkAt, Mine, Of, Subject, Creating
    <3>3. PICK o \in Ops : o = Of(s)
      BY <1>1
    <3>4. SessionStep(s, o) /\ op' = op
      BY <3>1, <3>3 DEF GoesOn
    <3>5. RowsTyped' /\ KindInv'
      BY <3>2, <3>4, StepKind DEF Core, KindInv, KindRow, RowsTyped, SubjectRow
    <3>6. EffectRow(o)'
      BY <1>2, <3>4 DEF Core, EffectInv, EffectRow, Kept, NoOld
    <3>7. EffectInv'
      BY <1>2, <3>2, <3>4, <3>6, StepEffect DEF Core
    <3>8. LeaseAt(s) => LeaseAt(s)'
      BY <1>1, <3>1 DEF LeaseAt, Holds, GoesOn, Of, Expected
    <3>9. LeaseInv => LeaseInv'
      BY <3>4, <3>8, StepLease DEF Core, LeaseInv
    <3>10. UserInv' /\ (late = {} => MarkInv')
      BY <1>1, <1>2, <1>4, <3>2, <3>1, <2>3, CreatesUser DEF GoesOn
    <3> QED
      BY <1>2, <3>5, <3>7, <3>9, <3>10 DEF Core, InTime
  <2> QED
    BY <1>4, <2>2, <2>3
<1> QED
  BY <1>3, <1>4 DEF Create, CallFails

\* A checkpoint and the turn to the removal change the status of the row only.
LEMMA StatusChanges ==
  ASSUME Core, NEW s \in Sessions, Of(s) \in Ops, NEW o \in Ops, o = Of(s), NEW pc, SessionStep(s, o),
         op[o].lease = s, op[o].status \in Open,
         op'[o].lease = s, op'[o].over <=> op[o].over, op'[o].status = Expected(pc),
         run'[s].pc = pc, run'[s].of = o, UNCHANGED <<create, target, late>>, run[s].pc # "idle",
         KindAt(s)', UserAt(s)', EffectAt(s)', late = {} => MarkAt(s)' /\ MarkRow(o)',
         KindRow(o)', SubjectRow(o)', EffectRow(o)'
  PROVE  Core'
<1>1. RowsTyped' /\ KindInv'
  BY StepKind DEF Core
<1>2. Kept
  BY DEF Kept, Disabled
<1>3. UserInv' /\ EffectInv'
  BY <1>2, StepUser, StepEffect DEF Core
<1>4. ASSUME late = {} PROVE LeaseInv' /\ MarkInv'
  <2>1. ~op[o].over
    BY <1>4 DEF Core, InTime, LeaseInv, LeaseAt, Holds, Open
  <2>2. LeaseAt(s)'
    BY <2>1 DEF LeaseAt, Holds, Of
  <2> QED
    BY <1>4, <2>2, StepLease, StepMark DEF Core, InTime
<1> QED
  BY <1>1, <1>3, <1>4 DEF Core, InTime

StatusSet(o, status, subject) ==
  op' = [op EXCEPT ![o] = [@ EXCEPT !.status = status, !.due = TRUE, !.subject = subject]]

LEMMA StatusRow ==
  ASSUME Typed, NEW o \in Ops, NEW status \in Open, NEW subject \in Users \cup {None},
         StatusSet(o, status, subject)
  PROVE  /\ op' \in [Ops -> Row] /\ \A p \in Ops : p # o => op'[p] = op[p]
         /\ op'[o].status = status /\ op'[o].lease = op[o].lease
         /\ (op'[o].over <=> op[o].over) /\ op'[o].subject = subject
<1> DEFINE entry == [op[o] EXCEPT !.status = status, !.due = TRUE, !.subject = subject]
<1>1. op[o] \in Row
  BY DEF Typed
<1>2. entry \in Row /\ entry.status = status /\ entry.lease = op[o].lease /\ entry.subject = subject
  BY <1>1 DEF Row
<1>3. entry.over <=> op[o].over
  BY <1>1 DEF Row
<1>4. op' = [op EXCEPT ![o] = entry]
  BY DEF StatusSet
<1> HIDE DEF entry
<1> QED
  BY <1>2, <1>3, <1>4 DEF Typed

LEMMA UndoRow ==
  ASSUME Typed, NEW o \in Ops,
         op' = [op EXCEPT ![o].status = "cleanup_pending", ![o].due = TRUE]
  PROVE  /\ op' \in [Ops -> Row] /\ \A p \in Ops : p # o => op'[p] = op[p]
         /\ op'[o].status = "cleanup_pending" /\ op'[o].lease = op[o].lease
         /\ (op'[o].over <=> op[o].over) /\ op'[o].subject = op[o].subject
<1> DEFINE entry == [op[o] EXCEPT !.status = "cleanup_pending", !.due = TRUE]
<1>1. op[o] \in Row
  BY DEF Typed
<1>2. entry \in Row /\ entry.status = "cleanup_pending" /\ entry.lease = op[o].lease /\ entry.subject = op[o].subject
  BY <1>1 DEF Row, Open
<1>3. entry.over <=> op[o].over
  BY <1>1 DEF Row
<1>4. op' = [op EXCEPT ![o] = entry]
  BY DEF Typed
<1> HIDE DEF entry
<1> QED
  BY <1>2, <1>3, <1>4 DEF Typed

LEMMA CheckpointCore ==
  ASSUME Core, RestTyped, NEW s \in Sessions, Checkpoint(s)
  PROVE  Core'
<1>1. Typed /\ run[s].pc = "checkpoint" /\ Of(s) \in Ops
  BY DEF Core, RowsTyped, Checkpoint, KindInv, KindAt
<1>2. UNCHANGED <<create, target, late>> /\ Kept
  BY DEF Checkpoint, Kept, Disabled
<1>3. CASE Stop(s) /\ UNCHANGED op
  BY <1>1, <1>2, <1>3, StopReturns, ReturnsKeeps DEF Outcome
<1>4. CASE Retries(s)
  BY <1>1, <1>2, <1>4, RetriesReturns, ReturnsKeeps DEF Outcome
<1>5. ASSUME NEW o \in Ops, o = Of(s), op[o].lease = s, op[o].status = "pending",
             op' = [op EXCEPT ![o] = [@ EXCEPT !.status = "provider_applied", !.due = TRUE,
                                               !.subject = Subject(s)]],
             NEW pc, pc = IF o \in Creates THEN "finalize" ELSE "finish", Go(s, pc)
      PROVE  Core'
  <2>1. Subject(s) \in Users \cup {None} /\ run[s] \in Work1
    BY <1>1 DEF Typed, Work1, Subject
  <2>2. /\ op' \in [Ops -> Row] /\ \A p \in Ops : p # o => op'[p] = op[p]
        /\ op'[o].status = "provider_applied" /\ op'[o].lease = op[o].lease
        /\ (op'[o].over <=> op[o].over) /\ op'[o].subject = Subject(s)
    <3>1. "provider_applied" \in Open
      BY DEF Open
    <3>2. StatusSet(o, "provider_applied", Subject(s))
      BY <1>5 DEF StatusSet
    <3> QED
      BY <1>1, <2>1, <3>1, <3>2, StatusRow
  <2>3. pc \in Steps /\ pc # "idle" /\ Expected(pc) = "provider_applied"
    BY <1>5 DEF Steps, Creating, Expected
  <2>4. RunAt(s, [run[s] EXCEPT !.pc = pc])
    BY <1>1, <1>5, <2>3, GoRun DEF Typed
  <2>5. [run[s] EXCEPT !.pc = pc].pc = pc /\ [run[s] EXCEPT !.pc = pc].of = o
    BY <1>5, <2>1 DEF Work1, Of
  <2>6. SessionStep(s, o) /\ run'[s].pc = pc /\ run'[s].of = o
    BY <2>2, <2>4, <2>5 DEF SessionStep, RunAt
  <2>7. KindAt(s)' /\ UserAt(s)' /\ EffectAt(s)' /\ MarkAt(s)'
    BY <1>5, <2>6 DEF KindAt, UserAt, EffectAt, MarkAt, Of, Creating
  <2>8. UserAt(s) /\ EffectAt(s) /\ (late = {} => MarkAt(s))
    BY DEF Core, UserInv, EffectInv, InTime, MarkInv
  <2>9. KindRow(o)' /\ SubjectRow(o)'
    BY <1>1, <1>5, <2>2, <2>8 DEF KindRow, SubjectRow, UserAt, Open
  <2>10. EffectRow(o)'
    BY <1>1, <1>2, <1>5, <2>2, <2>8 DEF EffectRow, EffectAt, Disabled, NoOld
  <2>11. late = {} => MarkRow(o)'
    BY <1>1, <1>2, <1>5, <2>2, <2>8 DEF MarkRow, MarkAt, create
  <2>12. op[o].status \in Open /\ op'[o].lease = s /\ run[s].pc # "idle"
    BY <1>1, <1>5, <2>2 DEF Open
  <2> QED
    BY <1>1, <1>2, <1>5, <2>2, <2>3, <2>6, <2>7, <2>9, <2>10, <2>11, <2>12, StatusChanges
<1> QED
  BY <1>1, <1>3, <1>4, <1>5 DEF Checkpoint, CallFails, Held

LEMMA UndoCore ==
  ASSUME Core, RestTyped, NEW s \in Sessions, Undo(s)
  PROVE  Core'
<1>1. Typed /\ run[s].pc = "undo" /\ Of(s) \in Ops /\ Of(s) \in Creates
  BY DEF Core, RowsTyped, Undo, KindInv, KindAt, Creating
<1>2. UNCHANGED <<create, target, late>> /\ Kept
  BY DEF Undo, Kept, Disabled
<1>3. CASE Stop(s) /\ UNCHANGED op
  BY <1>1, <1>2, <1>3, StopReturns, ReturnsKeeps DEF Outcome
<1>4. ASSUME NEW o \in Ops, o = Of(s), op[o].lease = s, op[o].status = "provider_applied",
             op' = [op EXCEPT ![o].status = "cleanup_pending", ![o].due = TRUE], Go(s, "check")
      PROVE  Core'
  <2>1. op[o] \in Row /\ run[s] \in Work1 /\ op[o].subject \in Users \cup {None}
    BY <1>1 DEF Typed, Row
  <2>3. /\ op' \in [Ops -> Row] /\ \A p \in Ops : p # o => op'[p] = op[p]
        /\ op'[o].status = "cleanup_pending" /\ op'[o].lease = op[o].lease
        /\ (op'[o].over <=> op[o].over) /\ op'[o].subject = op[o].subject
    BY <1>1, <1>4, UndoRow
  <2>4. RunAt(s, [run[s] EXCEPT !.pc = "check"])
    BY <1>1, <1>4, GoRun DEF Typed, Steps, Creating
  <2>5. [run[s] EXCEPT !.pc = "check"].pc = "check" /\ [run[s] EXCEPT !.pc = "check"].of = o
    BY <1>4, <2>1 DEF Work1, Of
  <2>6. SessionStep(s, o) /\ run'[s].pc = "check" /\ run'[s].of = o
    BY <2>3, <2>4, <2>5 DEF SessionStep, RunAt
  <2>7. KindAt(s)' /\ UserAt(s)' /\ EffectAt(s)' /\ MarkAt(s)'
    BY <1>1, <1>4, <2>6 DEF KindAt, UserAt, EffectAt, MarkAt, Of, Creating
  <2>8. SubjectRow(o) /\ (late = {} => MarkRow(o))
    BY DEF Core, RowsTyped, InTime, MarkInv
  <2>9. KindRow(o)' /\ SubjectRow(o)' /\ EffectRow(o)'
    BY <1>1, <1>4, <2>3, <2>8 DEF KindRow, SubjectRow, EffectRow, Open
  <2>10. late = {} => MarkRow(o)'
    BY <1>1, <1>2, <1>4, <2>3, <2>8 DEF MarkRow, create
  <2>11. op[o].status \in Open /\ op'[o].lease = s /\ run[s].pc # "idle" /\ Expected("check") = "cleanup_pending"
    BY <1>1, <1>4, <2>3 DEF Open, Expected
  <2> QED
    BY <1>1, <1>2, <1>4, <2>3, <2>6, <2>7, <2>9, <2>10, <2>11, StatusChanges
<1> QED
  BY <1>1, <1>3, <1>4 DEF Undo, Held

\* The account of a creation is made when there is none.
MadeAccount(s) ==
  /\ ~account.exists
  /\ account' = [exists |-> TRUE, subject |-> op[Of(s)].subject, by |-> Of(s)]

LEMMA MadeAccountMarks ==
  ASSUME Core, RestTyped, NEW s \in Sessions, Of(s) \in Ops, SessionStep(s, Of(s)), MadeAccount(s), UNCHANGED <<user, unused>>,
         op'[Of(s)].status = "completed", op'[Of(s)].subject = op[Of(s)].subject,
         op[Of(s)].status = "provider_applied", UserAt(s)', MarkAt(s)'
  PROVE  UserInv' /\ (late = {} => MarkInv')
<1>1. account'.exists /\ account.subject = None
  BY DEF MadeAccount, Core, UserInv, RestTyped
<1>2. ASSUME NEW t \in Sessions PROVE UserAt(t)'
  BY DEF SessionStep, RunAt, Core, UserInv, UserAt, Of, Subject, Mine
<1>3. ASSUME late = {}, NEW t \in Sessions PROVE MarkAt(t)'
  BY <1>3 DEF SessionStep, RunAt, Core, InTime, MarkInv, MarkAt, Of, Subject, Mine
<1>4. ASSUME late = {}, NEW p \in Ops PROVE MarkRow(p)'
  <2>1. MarkRow(p)
    BY <1>4 DEF Core, InTime, MarkInv
  <2>2. p \in Creates /\ user.marker = p => user.subject # None
    BY IdentityAssumption DEF Core, UserInv, NoUser
  <2>3. p # Of(s) => op'[p] = op[p]
    BY DEF SessionStep
  <2> QED
    BY <1>1, <2>1, <2>2, <2>3 DEF MarkRow
<1> QED
  BY <1>1, <1>2, <1>3, <1>4 DEF UserInv, MarkInv, Core

LEMMA MadeAccountKeeps ==
  ASSUME Core, RestTyped, NEW s \in Sessions, Of(s) \in Creates, run[s].pc = "finalize",
         RunAt(s, run'[s]), run'[s].pc \in {"idle", "undo"}, run'[s].of = Of(s) \/ run'[s].pc = "idle",
         op[Of(s)].lease = s, op[Of(s)].status = "provider_applied",
         Released(Of(s), "completed", FALSE), MadeAccount(s), UNCHANGED <<user, unused, target, late>>
  PROVE  Core'
<1>1. PICK o \in Ops : o = Of(s)
  BY DEF Ops
<1>2. /\ op' \in [Ops -> Row] /\ \A p \in Ops : p # o => op'[p] = op[p]
      /\ op'[o].status = "completed" /\ op'[o].lease = None /\ ~op'[o].over
      /\ op'[o].subject = op[o].subject
  BY <1>1, ReleasedRow DEF Core, RowsTyped, Typed, Terminal
<1>3. SessionStep(s, o) /\ o \in Creates
  BY <1>1, <1>2 DEF SessionStep
<1>4. KindAt(s)' /\ UserAt(s)' /\ EffectAt(s)' /\ MarkAt(s)' /\ LeaseAt(s)'
  <2>1. run'[s].pc = "undo" => op'[run'[s].of].status = "completed"
    BY <1>1, <1>2
  <2> QED
    BY <2>1, <1>1, <1>3 DEF KindAt, UserAt, EffectAt, MarkAt, LeaseAt, Of, Creating
<1>5. KindRow(o)' /\ SubjectRow(o)' /\ EffectRow(o)'
  <2>1. SubjectRow(o)
    BY DEF Core, RowsTyped
  <2> QED
    BY <2>1, <1>1, <1>2, <1>3, IdentityAssumption DEF KindRow, SubjectRow, EffectRow, Open
<1>6. RowsTyped' /\ KindInv'
  BY <1>3, <1>4, <1>5, StepKind DEF Core
<1>7. Kept
  BY DEF Kept, Disabled
<1>8. EffectInv'
  BY <1>3, <1>4, <1>5, <1>7, StepEffect DEF Core
<1>9. LeaseInv => LeaseInv'
  BY <1>1, <1>3, <1>4, StepLease DEF Core, Open
<1>10. UserInv' /\ (late = {} => MarkInv')
  BY <1>1, <1>2, <1>3, <1>4, MadeAccountMarks
<1> QED
  BY <1>6, <1>8, <1>9, <1>10 DEF Core, InTime

LEMMA FinalizeCore ==
  ASSUME Core, RestTyped, NEW s \in Sessions, Finalize(s)
  PROVE  Core'
<1>1. Typed /\ run[s].pc = "finalize" /\ Of(s) \in Ops /\ Of(s) \in Creates /\ run[s] \in Work1
  BY DEF Core, RowsTyped, Finalize, KindInv, KindAt, Creating, Typed
<1>2. UNCHANGED <<user, unused, target, late>> /\ Kept
  BY DEF Finalize, Kept, Disabled
<1>3. CASE Go(s, "undo") /\ UNCHANGED <<op, account>>
  <2>1. GoesOn(s, "undo")
    BY <1>1, <1>3, GoGoesOn DEF Steps, Creating
  <2>2. KindAt(s)' /\ UserAt(s)' /\ EffectAt(s)' /\ MarkAt(s)'
    BY <1>1, <2>1 DEF GoesOn, KindAt, UserAt, EffectAt, MarkAt, Of, Creating
  <2> QED
    BY <1>1, <1>2, <1>3, <2>1, <2>2, GoesOnKeeps DEF Expected, create
<1>4. CASE /\ op[Of(s)].lease = s /\ op[Of(s)].status = "provider_applied"
           /\ MadeAccount(s) /\ Released(Of(s), "completed", FALSE)
           /\ Stop(s) \/ Go(s, "undo")
  <2>1. CASE Stop(s)
    <3>1. RunAt(s, Idle) /\ Idle.pc = "idle"
      BY <1>1, <2>1, StopRun DEF Typed, Idle
    <3>2. RunAt(s, run'[s]) /\ run'[s].pc = "idle"
      BY <3>1 DEF RunAt
    <3> QED
      BY <1>1, <1>2, <1>4, <3>2, MadeAccountKeeps
  <2>2. CASE Go(s, "undo")
    <3>1. RunAt(s, [run[s] EXCEPT !.pc = "undo"])
      BY <1>1, <2>2, GoRun DEF Typed, Steps, Creating
    <3>2. [run[s] EXCEPT !.pc = "undo"].pc = "undo" /\ [run[s] EXCEPT !.pc = "undo"].of = Of(s)
      BY <1>1 DEF Work1, Of
    <3>3. RunAt(s, run'[s]) /\ run'[s].pc = "undo" /\ run'[s].of = Of(s)
      BY <3>1, <3>2 DEF RunAt
    <3> QED
      BY <1>1, <1>2, <1>4, <3>3, MadeAccountKeeps
  <2> QED
    BY <1>4, <2>1, <2>2
<1> QED
  BY <1>3, <1>4 DEF Finalize, Held, MadeAccount

LEMMA CheckCore ==
  ASSUME Core, RestTyped, NEW s \in Sessions, Check(s)
  PROVE  Core'
<1>1. Typed /\ run[s].pc = "check" /\ Of(s) \in Ops /\ Of(s) \in Creates
  BY DEF Core, RowsTyped, Check, KindInv, KindAt, Creating
<1>2. UNCHANGED <<create, target, late>> /\ Kept
  BY DEF Check, Kept, Disabled
<1>3. CASE ~Removable(s) /\ Fails(s)
  <2>1. late = {} /\ Mine(s) => account.subject = user.subject
    <3> SUFFICES ASSUME late = {}, Mine(s) PROVE account.subject = user.subject
      OBVIOUS
    <3>1. MarkRow(Of(s)) /\ LeaseAt(s)
      BY <1>1 DEF Core, InTime, MarkInv, LeaseInv
    <3>2. op[Of(s)].status = "cleanup_pending"
      BY <1>1, <3>1 DEF LeaseAt, Holds, Expected
    <3>3. user.subject = op[Of(s)].subject
      BY <1>1, <3>1, <3>2 DEF MarkRow, Mine
    <3>4. user = [subject |-> op[Of(s)].subject, marker |-> Of(s)]
      BY <3>3 DEF RestTyped, Mine
    <3> QED
      BY <1>3, <3>3, <3>4 DEF Removable
  <2> QED
    BY <1>1, <1>2, <1>3, <2>1, FailsReturns, ReturnsKeeps DEF Outcome
<1>4. CASE Stop(s) /\ UNCHANGED op
  BY <1>1, <1>2, <1>4, StopReturns, ReturnsKeeps DEF Outcome
<1>5. ASSUME Removable(s), op' = op, NEW pc, pc = IF user = NoUser THEN "settle" ELSE "delete",
             run' = [run EXCEPT ![s].pc = pc, ![s].subject = user.subject]
      PROVE  Core'
  <2>1. user.subject \in Users \cup {None} /\ pc \in Steps /\ pc # "idle" /\ pc # "undo"
        /\ Expected(pc) = "cleanup_pending"
    BY <1>5 DEF RestTyped, Steps, Creating, Expected
  <2>2. GoesOn(s, pc) /\ run'[s].subject = user.subject
    BY <1>1, <1>5, <2>1, SubjectGoesOn
  <2>3. user # NoUser => user.subject \in Users \ unused /\ Mine(s)
    BY <1>5, <2>1 DEF Core, UserInv, Removable, Mine
  <2>4. user = NoUser => ~Mine(s)
    BY <1>1, IdentityAssumption DEF NoUser, Mine
  <2>5. UserAt(s)'
    BY <1>2, <1>5, <2>2, <2>3 DEF GoesOn, UserAt, Mine, Of, Subject, create
  <2>6. KindAt(s)' /\ EffectAt(s)'
    BY <1>1, <1>5, <2>2 DEF GoesOn, KindAt, EffectAt, Of, Creating
  <2>7. MarkAt(s)'
    BY <1>2, <1>5, <2>2, <2>4 DEF GoesOn, MarkAt, Mine, Of, Subject, create
  <2> QED
    BY <1>1, <1>2, <2>1, <2>2, <2>5, <2>6, <2>7, GoesOnKeeps DEF Expected
<1> QED
  BY <1>3, <1>4, <1>5 DEF Check

LEMMA SettleCore ==
  ASSUME Core, RestTyped, NEW s \in Sessions, Settle(s)
  PROVE  Core'
<1>1. Typed /\ run[s].pc = "settle" /\ Of(s) \in Ops /\ Of(s) \in Creates
  BY DEF Core, RowsTyped, Settle, KindInv, KindAt, Creating
<1>2. UNCHANGED <<create, target, late>> /\ Kept
  BY DEF Settle, Kept, Disabled
<1>3. late = {} => ~Mine(s)
  BY <1>1 DEF Core, InTime, MarkInv, MarkAt
<1>4. CASE /\ op[Of(s)].lease = s /\ op[Of(s)].status = "cleanup_pending"
           /\ Released(Of(s), "compensated", FALSE) /\ Stop(s)
  <2>1. Returns(s, {"cleanup_pending"}, "compensated")
    BY <1>1, <1>4, CompletesReturns DEF Outcome
  <2> QED
    BY <1>1, <1>2, <1>3, <2>1, ReturnsKeeps DEF Outcome
<1>5. CASE Stop(s) /\ UNCHANGED op
  BY <1>1, <1>2, <1>5, StopReturns, ReturnsKeeps DEF Outcome
<1>6. CASE Postpones(s)
  BY <1>1, <1>2, <1>6, PostponesReturns, ReturnsKeeps DEF Outcome
<1> QED
  BY <1>4, <1>5, <1>6 DEF Settle, Held

\* The user that is removed was that of the operation.
LEMMA DeletesUser ==
  ASSUME Core, RestTyped, NEW s \in Sessions, run[s].pc = "delete", SessionStep(s, Of(s)), op' = op,
         user.subject = run[s].subject, user' = NoUser, UNCHANGED <<unused, account>>,
         UserAt(s)', late = {} => MarkAt(s)'
  PROVE  UserInv' /\ (late = {} => MarkInv')
<1>1. Of(s) \in Creates /\ Of(s) \in Ops
  BY DEF Core, KindInv, KindAt, Creating
<1>2. user'.subject = None /\ user'.marker = None /\ None \notin Creates /\ None \notin Users
  BY IdentityAssumption DEF NoUser
<1>3. Mine(s)
  BY DEF Core, UserInv, UserAt, Subject
<1>4. ASSUME NEW t \in Sessions PROVE UserAt(t)'
  BY <1>2 DEF SessionStep, RunAt, Core, UserInv, UserAt, Of, Subject
<1>5. UserInv'
  BY <1>2, <1>4 DEF UserInv, Core, RestTyped
<1>6. ASSUME late = {} PROVE MarkInv'
  <2>1. LeaseInv /\ MarkInv
    BY <1>6 DEF Core, InTime
  <2>2. ASSUME NEW t \in Sessions, t # s PROVE MarkAt(t)'
    <3>1. run'[t] = run[t] /\ MarkAt(t) /\ KindAt(t)
      BY <2>1, <2>2 DEF SessionStep, RunAt, MarkInv, Core, KindInv
    <3>2. run[t].pc # "idle" => Of(t) # Of(s)
      BY <2>1, <2>2, OneWorks
    <3> QED
      BY <1>2, <1>3, <3>1, <3>2 DEF MarkAt, KindAt, Creating, Mine, Of
  <2>3. ASSUME NEW p \in Ops PROVE MarkRow(p)'
    BY <1>2 DEF MarkRow
  <2> QED
    BY <1>6, <2>2, <2>3 DEF MarkInv
<1> QED
  BY <1>5, <1>6

LEMMA DeleteCore ==
  ASSUME Core, RestTyped, NEW s \in Sessions, Delete(s)
  PROVE  Core'
<1>1. Typed /\ run[s].pc = "delete" /\ Of(s) \in Ops /\ Of(s) \in Creates
  BY DEF Core, RowsTyped, Delete, KindInv, KindAt, Creating
<1>2. UNCHANGED <<unused, account, target, late>> /\ Kept
  BY DEF Delete, Kept, Disabled
<1>3. CASE Postpones(s) /\ UNCHANGED user
  BY <1>1, <1>2, <1>3, PostponesReturns, ReturnsKeeps DEF Outcome, create
<1>4. CASE /\ user' = IF user.subject = run[s].subject THEN NoUser ELSE user
           /\ Go(s, "settle") /\ op' = op
  <2>1. GoesOn(s, "settle")
    BY <1>1, <1>4, GoGoesOn DEF Steps, Creating
  <2>2. KindAt(s)' /\ UserAt(s)' /\ EffectAt(s)'
    BY <1>1, <2>1 DEF GoesOn, KindAt, UserAt, EffectAt, Of, Creating
  <2>3. ASSUME late = {} PROVE MarkAt(s)'
    <3>1. Mine(s) => user.subject = run[s].subject
      BY <1>1, <2>3 DEF Core, InTime, MarkInv, MarkAt, Subject
    <3>2. user'.marker # Of(s)
      BY <1>1, <1>4, <3>1, IdentityAssumption DEF NoUser, Mine
    <3> QED
      BY <2>1, <3>2 DEF GoesOn, MarkAt, Mine, Of
  <2>4. CASE user' = user
    BY <1>1, <1>2, <2>1, <2>2, <2>3, <2>4, GoesOnKeeps DEF Expected, create
  <2>5. CASE user.subject = run[s].subject /\ user' = NoUser
    <3>1. UserInv' /\ (late = {} => MarkInv')
      BY <1>1, <1>2, <1>4, <2>1, <2>2, <2>3, <2>5, DeletesUser DEF GoesOn
    <3>2. PICK o \in Ops : o = Of(s)
      BY <1>1
    <3>3. SessionStep(s, o)
      BY <2>1, <3>2 DEF GoesOn
    <3>4. RowsTyped' /\ KindInv'
      BY <1>4, <2>2, <3>3, StepKind DEF Core, KindInv, KindRow, RowsTyped, SubjectRow
    <3>5. EffectRow(o)'
      BY <1>2, <1>4 DEF Core, EffectInv, EffectRow, Kept, NoOld
    <3>6. EffectInv'
      BY <1>2, <2>2, <3>3, <3>5, StepEffect DEF Core
    <3>7. LeaseAt(s) => LeaseAt(s)'
      BY <1>1, <1>4, <2>1 DEF LeaseAt, Holds, GoesOn, Of, Expected
    <3>8. LeaseInv => LeaseInv'
      BY <1>4, <3>3, <3>7, StepLease DEF Core, LeaseInv
    <3> QED
      BY <1>2, <3>1, <3>4, <3>6, <3>8 DEF Core, InTime
  <2> QED
    BY <1>4, <2>4, <2>5
<1> QED
  BY <1>3, <1>4 DEF Delete

-------------------------------------------------------------------------------
(* IdentityOperations: the steps of a change                               *)

LEMMA EffectsKept ==
  ASSUME RestTyped, NEW pc, target' = Effects(pc)
  PROVE  /\ Kept
         /\ pc = "disable" => ~target'.enabled
         /\ pc = "revoke" => ~target'.session /\ (target'.enabled => target.enabled)
         /\ target'.otp = target.otp /\ target'.status = target.status
         /\ target' \in [enabled : BOOLEAN, session : BOOLEAN, otp : SUBSET {"old", "new"},
                         required : BOOLEAN, status : {"active", "disabled"}]
BY DEF RestTyped, Effects, Kept, Disabled

LEMMA ChangeCore ==
  ASSUME Core, RestTyped, NEW s \in Sessions, Change(s)
  PROVE  Core'
<1>1. Typed /\ run[s].pc \in {"disable", "revoke", "list", "require"} /\ Of(s) \in Ops
      /\ KindAt(s) /\ EffectAt(s)
  BY DEF Core, RowsTyped, Change, KindInv, KindAt, EffectInv
<1>2. UNCHANGED <<create, late>>
  BY DEF Change
<1>3. target' = target => Kept
  BY DEF Kept, Disabled
<1>4. target' = Effects(run[s].pc) => Kept
  BY EffectsKept
<1>5. CASE CallFails(s) /\ target' \in {target, Effects(run[s].pc)}
  <2>1. Returns(s, {"pending"}, "pending")
    BY <1>1, <1>5, RetriesReturns DEF CallFails
  <2> QED
    BY <1>1, <1>2, <1>3, <1>4, <1>5, <2>1, ReturnsKeeps DEF Outcome
<1>6. ASSUME target' = Effects(run[s].pc), op' = op,
             NEW pc, pc = After(run[s].pc),
             NEW listed, listed = IF run[s].pc = "list" THEN target.otp ELSE run[s].listed,
             SetListed(s, pc, listed)
      PROVE  Core'
  <2>1. run[s].listed \in SUBSET {"old", "new"} /\ target.otp \in SUBSET {"old", "new"}
    BY <1>1 DEF Typed, Work1, RestTyped
  <2>2. listed \in SUBSET {"old", "new"}
    BY <1>6, <2>1
  <2>3. /\ run[s].pc = "disable" => pc = "revoke"
        /\ run[s].pc = "revoke" => pc = "checkpoint"
        /\ run[s].pc = "list" => pc = "remove"
        /\ run[s].pc = "require" => pc = "checkpoint"
    BY <1>6 DEF After
  <2>4. pc \in Steps /\ pc \in {"revoke", "checkpoint", "remove"}
    BY <1>1, <2>3 DEF Steps
  <2>5. GoesOn(s, pc) /\ run'[s].listed = listed
    BY <1>1, <1>6, <2>2, <2>4, ListedGoesOn
  <2>6. /\ Kept
        /\ run[s].pc = "disable" => ~target'.enabled
        /\ run[s].pc = "revoke" => ~target'.session /\ (target'.enabled => target.enabled)
        /\ target'.otp = target.otp
    BY <1>6, EffectsKept
  <2>7. KindAt(s)'
    BY <1>1, <2>3, <2>5 DEF GoesOn, KindAt, Of, Creating
  <2>8. UserAt(s)' /\ MarkAt(s)'
    BY <1>1, <2>3, <2>5, IdentityAssumption DEF GoesOn, KindAt, UserAt, MarkAt, Of
  <2>9. EffectAt(s)'
    <3>1. CASE run[s].pc = "disable"
      BY <3>1, <2>3, <2>5, <2>6 DEF GoesOn, EffectAt
    <3>2. CASE run[s].pc = "revoke"
      <4>1. Of(s) \in Disables /\ Disabled'
        BY <3>2, <1>1, <2>6 DEF KindAt, EffectAt, Disabled
      <4> QED
        BY <3>2, <4>1, <2>3, <2>5, IdentityAssumption DEF GoesOn, EffectAt, Of
    <3>3. CASE run[s].pc = "list"
      BY <3>3, <1>6, <2>3, <2>5, <2>6 DEF GoesOn, EffectAt
    <3>4. CASE run[s].pc = "require"
      <4>1. Of(s) \in Resets /\ NoOld'
        BY <3>4, <1>1, <2>6 DEF KindAt, EffectAt, NoOld
      <4> QED
        BY <3>4, <4>1, <2>3, <2>5, IdentityAssumption DEF GoesOn, EffectAt, Of
    <3> QED
      BY <1>1, <3>1, <3>2, <3>3, <3>4
  <2>10. Expected(pc) = Expected(run[s].pc) /\ pc # "idle" /\ pc # "undo" /\ run[s].pc # "idle" /\ run[s].pc # "undo"
    BY <1>1, <2>4 DEF Expected
  <2> QED
    BY <1>1, <1>2, <2>5, <2>6, <2>7, <2>8, <2>9, <2>10, GoesOnKeeps
<1> QED
  BY <1>5, <1>6 DEF Change, SetListed

LEMMA RemoveCredentialCore ==
  ASSUME Core, RestTyped, NEW s \in Sessions, RemoveCredential(s)
  PROVE  Core'
<1>1. Typed /\ run[s].pc = "remove" /\ Of(s) \in Ops /\ Of(s) \in Resets /\ EffectAt(s)
  BY DEF Core, RowsTyped, RemoveCredential, KindInv, KindAt, EffectInv
<1>2. UNCHANGED <<create, late>> /\ run[s] \in Work1
  BY <1>1 DEF RemoveCredential, Typed
<1>3. target' = target => Kept
  BY DEF Kept, Disabled
<1>4. CASE Retries(s) /\ target' = target
  BY <1>1, <1>2, <1>3, <1>4, RetriesReturns, ReturnsKeeps DEF Outcome
<1>5. CASE run[s].listed = {} /\ Go(s, "require") /\ UNCHANGED <<op, target>>
  <2>1. GoesOn(s, "require")
    BY <1>1, <1>5, GoGoesOn DEF Steps
  <2>2. KindAt(s)' /\ UserAt(s)' /\ MarkAt(s)'
    BY <1>1, <2>1 DEF GoesOn, KindAt, UserAt, MarkAt, Of, Creating
  <2>3. EffectAt(s)'
    BY <1>1, <1>5, <2>1 DEF GoesOn, EffectAt, Of, NoOld
  <2> QED
    BY <1>1, <1>2, <1>3, <1>5, <2>1, <2>2, <2>3, GoesOnKeeps DEF Expected
<1>6. ASSUME NEW k \in run[s].listed, k \in target.otp, target' = [target EXCEPT !.otp = @ \ {k}],
             run' = [run EXCEPT ![s].listed = @ \ {k}], op' = op
      PROVE  Core'
  <2>1. run[s].listed \ {k} \in SUBSET {"old", "new"}
    BY <1>2 DEF Work1
  <2>2. SetListed(s, "remove", run[s].listed \ {k})
    <3> DEFINE one == [run[s] EXCEPT !.listed = run[s].listed \ {k}]
               two == [run[s] EXCEPT !.pc = "remove", !.listed = run[s].listed \ {k}]
    <3>1. one \in Work1 /\ two \in Work1
      BY <1>1, <1>2, <2>1 DEF Work1
    <3>2. one.pc = two.pc /\ one.of = two.of /\ one.subject = two.subject /\ one.listed = two.listed
      BY <1>1, <1>2 DEF Work1
    <3>3. run' = [run EXCEPT ![s] = one]
      BY <1>6
    <3> HIDE DEF one, two
    <3>4. one = two
      BY <3>1, <3>2 DEF Work1
    <3>5. run' = [run EXCEPT ![s] = two]
      BY <3>3, <3>4
    <3> QED
      BY <3>5 DEF two, SetListed
  <2>3. GoesOn(s, "remove") /\ run'[s].listed = run[s].listed \ {k}
    BY <1>1, <1>6, <2>1, <2>2, ListedGoesOn DEF Steps
  <2>4. target'.otp = target.otp \ {k} /\ Kept
    BY <1>6 DEF RestTyped, Kept, Disabled
  <2>5. KindAt(s)' /\ UserAt(s)' /\ MarkAt(s)'
    BY <1>1, <2>3 DEF GoesOn, KindAt, UserAt, MarkAt, Of, Creating
  <2>6. EffectAt(s)'
    BY <1>1, <2>3, <2>4 DEF GoesOn, EffectAt
  <2> QED
    BY <1>1, <1>2, <2>3, <2>4, <2>5, <2>6, GoesOnKeeps
<1> QED
  BY <1>4, <1>5, <1>6 DEF RemoveCredential, CallFails

LEMMA FinishCore ==
  ASSUME Core, RestTyped, NEW s \in Sessions, Finish(s)
  PROVE  Core'
<1>1. Typed /\ run[s].pc = "finish" /\ Of(s) \in Ops /\ Of(s) \notin Creates
  BY DEF Core, RowsTyped, Finish, KindInv, KindAt
<1>2. UNCHANGED <<create, late>> /\ Stop(s)
  BY DEF Finish
<1>3. CASE UNCHANGED <<op, target>>
  <2>1. Kept
    BY <1>3 DEF Kept, Disabled
  <2> QED
    BY <1>1, <1>2, <1>3, <2>1, StopReturns, ReturnsKeeps DEF Outcome
<1>4. CASE /\ op[Of(s)].lease = s /\ op[Of(s)].status = "provider_applied"
           /\ Released(Of(s), "completed", FALSE)
           /\ target' = IF Of(s) \in Disables THEN [target EXCEPT !.status = "disabled"] ELSE target
  <2>1. Returns(s, {"provider_applied"}, "completed") /\ Outcome({"provider_applied"}, "completed")
    BY <1>1, <1>2, <1>4, CompletesReturns DEF Outcome
  <2>2. Kept /\ (Of(s) \in Disables => target'.status = "disabled")
    BY <1>4 DEF Kept, Disabled, RestTyped
  <2> QED
    BY <1>1, <1>2, <2>1, <2>2, ReturnsKeeps
<1> QED
  BY <1>3, <1>4 DEF Finish, Held

LEMMA CrashCore ==
  ASSUME Core, RestTyped, NEW s \in Sessions, Crash(s)
  PROVE  Core'
<1>1. Typed /\ Of(s) \in Ops
  BY DEF Core, RowsTyped, Crash, KindInv, KindAt
<1>2. UNCHANGED <<create, target, late>> /\ Kept /\ Stop(s) /\ UNCHANGED op
  BY DEF Crash, Kept, Disabled
<1> QED
  BY <1>1, <1>2, StopReturns, ReturnsKeeps DEF Outcome

-------------------------------------------------------------------------------
(* IdentityOperations: claims and time                                     *)

LEMMA TakeCore ==
  ASSUME Core, RestTyped, NEW s \in Sessions, NEW o \in Ops, run[s].pc = "idle",
         op[o].status \in Open, Free(o), Take(s, o), UNCHANGED <<create, target, late>>
  PROVE  Core'
<1> DEFINE entry  == [op[o] EXCEPT !.lease = s, !.over = FALSE]
           work == [Idle EXCEPT !.pc = FirstStep(o), !.of = o, !.subject = op[o].subject]
<1>1. Typed /\ op[o] \in Row /\ KindRow(o) /\ SubjectRow(o) /\ EffectRow(o) /\ (late = {} => MarkRow(o))
  BY DEF Core, RowsTyped, Typed, KindInv, EffectInv, InTime, MarkInv
<1>2. entry \in Row /\ entry.status = op[o].status /\ entry.lease = s /\ ~entry.over /\ entry.subject = op[o].subject
  BY <1>1 DEF Row
<1>3. op' = [op EXCEPT ![o] = entry] /\ run' = [run EXCEPT ![s] = work]
  BY <1>1 DEF Take, Typed
<1>4. FirstStep(o) \in Steps /\ FirstStep(o) # "idle" /\ Expected(FirstStep(o)) = op[o].status
  BY DEF FirstStep, Steps, Creating, Expected, Open
<1>5. op[o].subject \in Users \cup {None}
  BY <1>1 DEF Row
<1>6. work \in Work1 /\ work.pc = FirstStep(o) /\ work.of = o
  BY <1>4, <1>5 DEF Work1, Idle
<1> HIDE DEF entry, work
<1>7. SessionStep(s, o) /\ run'[s] = work /\ op'[o] = entry
  BY <1>1, <1>2, <1>3, <1>6 DEF SessionStep, RunAt, Typed
<1>8. /\ FirstStep(o) \in Creating => o \in Creates
      /\ FirstStep(o) = "disable" => o \in Disables
      /\ FirstStep(o) = "list" => o \in Resets
      /\ FirstStep(o) = "finish" => o \notin Creates
      /\ FirstStep(o) \notin {"checkpoint", "delete", "settle", "revoke", "remove", "require"}
  BY <1>1 DEF FirstStep, Creating, KindRow, Ops
<1>9. KindAt(s)' /\ UserAt(s)' /\ EffectAt(s)' /\ MarkAt(s)'
  BY <1>6, <1>7, <1>8 DEF KindAt, UserAt, EffectAt, MarkAt, Of
<1>10. LeaseAt(s)'
  BY <1>2, <1>4, <1>6, <1>7 DEF LeaseAt, Holds, Of
<1>11. KindRow(o)' /\ SubjectRow(o)' /\ EffectRow(o)' /\ (late = {} => MarkRow(o)')
  BY <1>1, <1>2, <1>7 DEF KindRow, SubjectRow, EffectRow, MarkRow, Disabled, NoOld, create
<1>12. RowsTyped' /\ KindInv'
  BY <1>7, <1>9, <1>11, StepKind DEF Core
<1>13. Kept
  BY DEF Kept, Disabled
<1>14. UserInv' /\ EffectInv'
  BY <1>7, <1>9, <1>11, <1>13, StepUser, StepEffect DEF Core
<1>15. ASSUME late = {} PROVE LeaseInv' /\ MarkInv'
  BY <1>15, <1>7, <1>9, <1>10, <1>11, StepLease, StepMark DEF Core, InTime
<1> QED
  BY <1>12, <1>14, <1>15 DEF Core, InTime

\* A step that touches one row and no session.
LEMMA RowStep ==
  ASSUME Core, NEW o \in Ops, run' = run, UNCHANGED <<create, target>>,
         op' \in [Ops -> Row], \A p \in Ops : p # o => op'[p] = op[p],
         op'[o].subject = op[o].subject,
         \/ op'[o].status = op[o].status /\ op'[o].lease = op[o].lease
         \/ op[o].status = None /\ op'[o].status = "pending",
         \/ late' = late /\ op'[o].lease = op[o].lease /\ (op'[o].over <=> op[o].over)
         \/ late' = late \cup Working(o)
  PROVE  Core'
<1>1. RowsTyped'
  BY DEF Core, RowsTyped, SubjectRow, Typed
<1>2. KindInv'
  <2>1. ASSUME NEW t \in Sessions PROVE KindAt(t)'
    BY DEF Core, KindInv, KindAt, Of
  <2>2. ASSUME NEW p \in Ops PROVE KindRow(p)'
    BY DEF Core, KindInv, KindRow, Open
  <2> QED
    BY <2>1, <2>2 DEF KindInv
<1>3. UserInv'
  BY DEF Core, UserInv, UserAt, Of, Subject, Mine, create
<1>4. EffectInv'
  <2>1. ASSUME NEW t \in Sessions PROVE EffectAt(t)'
    BY DEF Core, EffectInv, EffectAt, Of, NoOld, Disabled
  <2>2. ASSUME NEW p \in Ops PROVE EffectRow(p)'
    BY DEF Core, EffectInv, EffectRow, NoOld, Disabled
  <2> QED
    BY <2>1, <2>2 DEF EffectInv
<1>5. ASSUME late' = {} PROVE LeaseInv' /\ MarkInv'
  <2>1. late = {} /\ LeaseInv /\ MarkInv
    BY <1>5 DEF Core, InTime
  <2>2. ASSUME NEW t \in Sessions PROVE MarkAt(t)'
    BY <2>1 DEF MarkInv, MarkAt, Of, Subject, Mine, create
  <2>3. ASSUME NEW p \in Ops PROVE MarkRow(p)'
    BY <2>1 DEF MarkInv, MarkRow, create
  <2>4. ASSUME NEW t \in Sessions, run[t].pc # "idle" PROVE LeaseAt(t)'
    <3>1. LeaseAt(t) /\ Of(t) \in Ops
      BY <2>1, <2>4 DEF LeaseInv, Core, KindInv, KindAt
    <3>2. CASE Of(t) # o
      BY <2>4, <3>1, <3>2 DEF LeaseAt, Holds, Of
    <3>3. CASE Of(t) = o
      <4>1. op[o].status # None
        BY <2>4, <3>1, <3>3 DEF LeaseAt, Holds, Expected, None
      <4>2. op'[o].status = op[o].status /\ op'[o].lease = op[o].lease
        BY <4>1
      <4>3. CASE op'[o].over <=> op[o].over
        BY <2>4, <3>1, <3>3, <4>2, <4>3 DEF LeaseAt, Holds, Of
      <4>4. CASE late' = late \cup Working(o)
        <5>1. op[o].lease # t
          BY <1>5, <2>4, <3>3, <4>4 DEF Working
        <5> QED
          BY <2>4, <3>1, <3>3, <4>2, <5>1 DEF LeaseAt, Holds, Of
      <4> QED
        BY <4>3, <4>4
    <3> QED
      BY <3>2, <3>3
  <2>5. LeaseInv'
    BY <2>4 DEF LeaseInv, LeaseAt
  <2> QED
    BY <2>2, <2>3, <2>5 DEF MarkInv
<1> QED
  BY <1>1, <1>2, <1>3, <1>4, <1>5 DEF Core, InTime

LEMMA RequestCore ==
  ASSUME Core, NEW o \in Ops, Request(o)
  PROVE  Core'
<1> DEFINE entry == [op[o] EXCEPT !.status = "pending", !.due = TRUE]
<1>1. Typed /\ op[o] \in Row
  BY DEF Core, RowsTyped, Typed
<1>2. entry \in Row /\ entry.status = "pending" /\ entry.lease = op[o].lease /\ entry.subject = op[o].subject
  BY <1>1 DEF Row, Open
<1>3. entry.over <=> op[o].over
  BY <1>1 DEF Row
<1>4. op' = [op EXCEPT ![o] = entry]
  BY <1>1 DEF Request, Typed
<1> HIDE DEF entry
<1>5. op' \in [Ops -> Row] /\ op'[o] = entry /\ \A p \in Ops : p # o => op'[p] = op[p]
  BY <1>1, <1>2, <1>4 DEF Typed
<1> QED
  BY <1>2, <1>3, <1>5, RowStep DEF Request

LEMMA MinutePassesCore ==
  ASSUME Core, NEW o \in Ops, MinutePasses(o)
  PROVE  Core'
<1> DEFINE entry == [op[o] EXCEPT !.due = TRUE]
<1>1. Typed /\ op[o] \in Row
  BY DEF Core, RowsTyped, Typed
<1>2. entry \in Row /\ entry.status = op[o].status /\ entry.lease = op[o].lease /\ entry.subject = op[o].subject
  BY <1>1 DEF Row
<1>3. entry.over <=> op[o].over
  BY <1>1 DEF Row
<1>4. op' = [op EXCEPT ![o] = entry]
  BY <1>1 DEF MinutePasses, Typed
<1> HIDE DEF entry
<1>5. op' \in [Ops -> Row] /\ op'[o] = entry /\ \A p \in Ops : p # o => op'[p] = op[p]
  BY <1>1, <1>2, <1>4 DEF Typed
<1> QED
  BY <1>2, <1>3, <1>5, RowStep DEF MinutePasses

LEMMA LeaseEndsCore ==
  ASSUME Core, NEW o \in Ops, LeaseEnds(o)
  PROVE  Core'
<1> DEFINE entry == [op[o] EXCEPT !.over = TRUE]
<1>1. Typed /\ op[o] \in Row
  BY DEF Core, RowsTyped, Typed
<1>2. entry \in Row /\ entry.status = op[o].status /\ entry.lease = op[o].lease /\ entry.subject = op[o].subject
  BY <1>1 DEF Row
<1>3. op' = [op EXCEPT ![o] = entry]
  BY <1>1 DEF LeaseEnds, Typed
<1> HIDE DEF entry
<1>4. op' \in [Ops -> Row] /\ op'[o] = entry /\ \A p \in Ops : p # o => op'[p] = op[p]
  BY <1>1, <1>2, <1>3 DEF Typed
<1> QED
  BY <1>2, <1>4, RowStep DEF LeaseEnds

LEMMA LinkAccountCore ==
  ASSUME Core, RestTyped, LinkAccount
  PROVE  Core'
<1>1. op' = op /\ run' = run /\ UNCHANGED <<user, unused, target, late>>
  BY DEF LinkAccount
<1>2. account'.subject = user.subject /\ account'.exists
  BY DEF LinkAccount, RestTyped
<1>3. RowsTyped' /\ EffectInv'
  BY <1>1 DEF Core, RowsTyped, Typed, SubjectRow, EffectInv, EffectAt, EffectRow, Disabled, NoOld, Of
<1>4. KindInv'
  BY <1>1 DEF Core, KindInv, KindAt, KindRow, Of
<1>5. UserInv'
  BY <1>1, <1>2 DEF Core, UserInv, UserAt, Of, Subject, Mine
<1>6. LeaseInv => LeaseInv'
  BY <1>1 DEF LeaseInv, LeaseAt, Holds, Of
<1>7. MarkInv => MarkInv'
  BY <1>1, <1>2 DEF MarkInv, MarkAt, MarkRow, Of, Subject, Mine
<1> QED
  BY <1>1, <1>3, <1>4, <1>5, <1>6, <1>7 DEF Core, InTime

\* Who is disabled does not sign in, and a new factor is not the old one.
LEMMA SignInCore ==
  ASSUME Core, RestTyped, SignIn
  PROVE  Core'
<1>1. op' = op /\ run' = run /\ UNCHANGED <<create, late>>
  BY DEF SignIn
<1>2. Kept /\ target.enabled
  BY DEF SignIn, Kept, Disabled, RestTyped
<1>3. RowsTyped'
  BY <1>1 DEF Core, RowsTyped, Typed, SubjectRow
<1>4. KindInv'
  BY <1>1 DEF Core, KindInv, KindAt, KindRow, Of
<1>5. EffectInv'
  <2>1. ASSUME NEW t \in Sessions PROVE EffectAt(t)'
    BY <1>1, <1>2 DEF Core, EffectInv, EffectAt, Kept, Of, NoOld
  <2>2. ASSUME NEW p \in Ops PROVE EffectRow(p)'
    BY <1>1, <1>2 DEF Core, EffectInv, EffectRow, Kept, NoOld
  <2> QED
    BY <2>1, <2>2 DEF EffectInv
<1>6. UserInv'
  BY <1>1 DEF Core, UserInv, UserAt, Of, Subject, Mine, create
<1>7. LeaseInv => LeaseInv'
  BY <1>1 DEF LeaseInv, LeaseAt, Holds, Of
<1>8. MarkInv => MarkInv'
  BY <1>1 DEF MarkInv, MarkAt, MarkRow, Of, Subject, Mine, create
<1> QED
  BY <1>1, <1>3, <1>4, <1>5, <1>6, <1>7, <1>8 DEF Core, InTime

-------------------------------------------------------------------------------
(* IdentityOperations: the types of the rest                               *)

FaultsTyped == faults' = faults \/ Fault

LEMMA FaultsStay ==
  ASSUME RestTyped, FaultsTyped
  PROVE  faults' \in 0..MaxFaults
BY IdentityAssumption DEF RestTyped, FaultsTyped, Fault

LEMMA CreationTyped ==
  ASSUME Core, RestTyped, NEW s \in Sessions,
         Find(s) \/ Checkpoint(s) \/ Undo(s) \/ Check(s) \/ Settle(s) \/ Crash(s)
  PROVE  RestTyped'
<1>1. UNCHANGED <<user, unused, account, target, late>> /\ FaultsTyped
  BY DEF Find, Checkpoint, Undo, Check, Settle, Crash, CallFails, FaultsTyped, create
<1> QED
  BY <1>1, FaultsStay DEF RestTyped

LEMMA UserTyped ==
  ASSUME Core, RestTyped, NEW s \in Sessions, Create(s) \/ Delete(s)
  PROVE  RestTyped'
<1>1. UNCHANGED <<account, target, late>> /\ FaultsTyped
  BY DEF Create, Delete, CallFails, FaultsTyped
<1>2. run[s].pc = "create" => Of(s) \in Creates
  BY DEF Core, KindInv, KindAt, Creating
<1>3. /\ user' \in [subject : Users \cup {None}, marker : Creates \cup {None}]
      /\ unused' \subseteq Users
  BY <1>2 DEF Create, Delete, RestTyped, NoUser
<1> QED
  BY <1>1, <1>3, FaultsStay DEF RestTyped

LEMMA AccountTyped ==
  ASSUME Core, RestTyped, NEW s \in Sessions, Finalize(s)
  PROVE  RestTyped'
<1>1. UNCHANGED <<user, unused, target, late>> /\ FaultsTyped
  BY DEF Finalize, FaultsTyped
<1>2. Of(s) \in Creates /\ Of(s) \in Ops
  BY DEF Finalize, Core, KindInv, KindAt, Creating
<1>3. op[Of(s)].subject \in Users \cup {None}
  BY <1>2 DEF Core, RowsTyped, Typed, Row
<1>4. account' \in [exists : BOOLEAN, subject : Users \cup {None}, by : Creates \cup {None, "import"}]
  <2>1. CASE account' = account
    BY <2>1 DEF RestTyped
  <2>2. CASE account' = [exists |-> TRUE, subject |-> op[Of(s)].subject, by |-> Of(s)]
    <3>1. PICK u \in Users \cup {None}, o \in Creates : account' = [exists |-> TRUE, subject |-> u, by |-> o]
      BY <1>2, <1>3, <2>2
    <3> QED
      BY <3>1
  <2> QED
    BY <2>1, <2>2 DEF Finalize
<1> QED
  BY <1>1, <1>4, FaultsStay DEF RestTyped

LEMMA TargetTyped ==
  ASSUME Core, RestTyped, NEW s \in Sessions, Change(s) \/ RemoveCredential(s) \/ Finish(s)
  PROVE  RestTyped'
<1>1. UNCHANGED <<user, unused, account, late>> /\ FaultsTyped
  BY DEF Change, RemoveCredential, Finish, CallFails, FaultsTyped, create
<1>2. target' \in [enabled : BOOLEAN, session : BOOLEAN, otp : SUBSET {"old", "new"},
                   required : BOOLEAN, status : {"active", "disabled"}]
  <2>1. CASE Change(s)
    BY <2>1, EffectsKept DEF Change, RestTyped
  <2>2. CASE RemoveCredential(s)
    BY <2>2 DEF RemoveCredential, RestTyped
  <2>3. CASE Finish(s)
    BY <2>3 DEF Finish, RestTyped
  <2> QED
    BY <2>1, <2>2, <2>3
<1> QED
  BY <1>1, <1>2, FaultsStay DEF RestTyped

LEMMA TimeTyped ==
  ASSUME Core, RestTyped,
         \/ \E o \in Ops : Request(o) \/ MinutePasses(o)
         \/ \E s \in Sessions, o \in Ops : ClaimById(s, o) \/ ClaimDue(s, o)
  PROVE  RestTyped'
BY DEF Request, MinutePasses, ClaimById, ClaimDue, RestTyped, create

LEMMA LeaseEndsTyped ==
  ASSUME Core, RestTyped, NEW o \in Ops, LeaseEnds(o)
  PROVE  RestTyped'
<1>1. Working(o) \subseteq Sessions
  BY DEF Working
<1>2. Cardinality(Working(o)) \in Nat
  BY <1>1, IdentityAssumption, FS_Subset, FS_CardinalityType
<1>3. faults' \in 0..MaxFaults
  BY <1>2, IdentityAssumption DEF LeaseEnds, RestTyped
<1> QED
  BY <1>1, <1>3 DEF LeaseEnds, RestTyped, create

LEMMA SignsInTyped ==
  ASSUME Core, RestTyped, LinkAccount \/ SignIn
  PROVE  RestTyped'
<1>1. CASE LinkAccount
  BY <1>1 DEF LinkAccount, RestTyped
<1>2. CASE SignIn
  BY <1>2 DEF SignIn, RestTyped, create
<1> QED
  BY <1>1, <1>2

-------------------------------------------------------------------------------
(* IdentityOperations: the theorems                                        *)

LEMMA IdentityInvInit == IdentityInit => Core /\ RestTyped
<1> SUFFICES ASSUME IdentityInit PROVE Core /\ RestTyped
  OBVIOUS
<1>1. ASSUME NEW o \in Ops
      PROVE  /\ op[o].status = None /\ op[o].lease = None /\ ~op[o].over /\ op[o].subject = None
             /\ op[o] \in Row
  BY DEF IdentityInit, Row
<1>2. ASSUME NEW s \in Sessions
      PROVE  run[s] = Idle /\ Idle \in Work1 /\ Idle.pc = "idle"
  BY DEF IdentityInit, Idle, Work1, Steps, Creating
<1>3. RowsTyped
  <2>1. Typed
    BY <1>1, <1>2 DEF IdentityInit, Typed
  <2> QED
    BY <1>1, <2>1 DEF RowsTyped, SubjectRow, None
<1>4. KindInv
  BY <1>1, <1>2 DEF KindInv, KindAt, KindRow, None, Creating
<1>5. EffectInv
  BY <1>1, <1>2 DEF EffectInv, EffectAt, EffectRow, None
<1>6. RestTyped
  <2>1. unused \subseteq Users
    BY DEF IdentityInit
  <2>2. user \in [subject : Users \cup {None}, marker : Creates \cup {None}]
    <3>1. CASE user = NoUser
      BY <3>1 DEF NoUser
    <3>2. CASE user \in [subject : Users \ unused, marker : {None}]
      BY <3>2
    <3> QED
      BY <3>1, <3>2 DEF IdentityInit
  <2>3. account \in [exists : BOOLEAN, subject : Users \cup {None}, by : Creates \cup {None, "import"}]
    <3>1. CASE account = [exists |-> FALSE, subject |-> None, by |-> None]
      BY <3>1
    <3>2. CASE account = [exists |-> TRUE, subject |-> None, by |-> "import"]
      BY <3>2
    <3> QED
      BY <3>1, <3>2 DEF IdentityInit, NoAccount
  <2>4. target \in [enabled : BOOLEAN, session : BOOLEAN, otp : SUBSET {"old", "new"},
                    required : BOOLEAN, status : {"active", "disabled"}]
    BY DEF IdentityInit
  <2>5. late \subseteq Sessions /\ faults \in 0..MaxFaults
    BY IdentityAssumption DEF IdentityInit
  <2> QED
    BY <2>1, <2>2, <2>3, <2>4, <2>5 DEF RestTyped
<1>7. user = NoUser \/ (user.subject \in Users \ unused /\ user.marker = None)
  BY DEF IdentityInit
<1>8. None \notin Users /\ None \notin Creates
  BY IdentityAssumption
<1>9. account.subject = None
  BY DEF IdentityInit, NoAccount
<1>10. UserInv
  <2>1. unused \subseteq Users
    BY <1>6 DEF RestTyped
  <2>2. ASSUME NEW s \in Sessions PROVE UserAt(s)
    BY <1>2 DEF UserAt
  <2> QED
    BY <2>1, <2>2, <1>7, <1>8, <1>9 DEF UserInv, NoUser
<1>11. LeaseInv
  BY <1>2 DEF LeaseInv, LeaseAt
<1>12. MarkInv
  <2>1. user.marker = None
    BY <1>7 DEF NoUser
  <2>2. ASSUME NEW s \in Sessions PROVE MarkAt(s)
    BY <1>2 DEF MarkAt
  <2>3. ASSUME NEW o \in Ops PROVE MarkRow(o)
    BY <2>1, <1>8 DEF MarkRow
  <2> QED
    BY <2>2, <2>3 DEF MarkInv
<1> QED
  BY <1>3, <1>4, <1>5, <1>6, <1>10, <1>11, <1>12 DEF Core, InTime

LEMMA IdentityInvStep == Core /\ RestTyped /\ [IdentityNext]_identityVars => Core' /\ RestTyped'
<1> SUFFICES ASSUME Core, RestTyped, [IdentityNext]_identityVars PROVE Core' /\ RestTyped'
  OBVIOUS
<1>1. CASE \E o \in Ops : Request(o) \/ LeaseEnds(o) \/ MinutePasses(o)
  BY <1>1, RequestCore, LeaseEndsCore, MinutePassesCore, TimeTyped, LeaseEndsTyped
<1>2. CASE \E s \in Sessions, o \in Ops : ClaimById(s, o) \/ ClaimDue(s, o)
  <2>1. PICK s \in Sessions, o \in Ops : ClaimById(s, o) \/ ClaimDue(s, o)
    BY <1>2
  <2>2. /\ run[s].pc = "idle" /\ op[o].status \in Open /\ Free(o) /\ Take(s, o)
        /\ UNCHANGED <<create, target, late>>
    BY <2>1 DEF ClaimById, ClaimDue, Abandoned
  <2> QED
    BY <1>2, <2>2, TakeCore, TimeTyped
<1>3. ASSUME NEW s \in Sessions, Work(s) \/ Crash(s) PROVE Core' /\ RestTyped'
  <2>1. Core'
    BY <1>3, FindCore, CreateCore, CheckpointCore, FinalizeCore, UndoCore, CheckCore, DeleteCore,
       SettleCore, ChangeCore, RemoveCredentialCore, FinishCore, CrashCore DEF Work
  <2>2. RestTyped'
    BY <1>3, CreationTyped, UserTyped, AccountTyped, TargetTyped DEF Work
  <2> QED
    BY <2>1, <2>2
<1>4. CASE LinkAccount \/ SignIn
  BY <1>4, LinkAccountCore, SignInCore, SignsInTyped
<1>5. CASE UNCHANGED identityVars
  <2>1. /\ op' = op /\ run' = run /\ user' = user /\ unused' = unused /\ account' = account
        /\ target' = target /\ late' = late /\ faults' = faults
    BY <1>5 DEF identityVars, create
  <2>2. RestTyped' /\ RowsTyped'
    BY <2>1 DEF Core, RestTyped, RowsTyped, Typed, SubjectRow
  <2>3. KindInv' /\ UserInv'
    BY <2>1 DEF Core, KindInv, KindAt, KindRow, UserInv, UserAt, Of, Subject, Mine
  <2>4. EffectInv'
    BY <2>1 DEF Core, EffectInv, EffectAt, EffectRow, Disabled, NoOld, Of
  <2>5. InTime'
    BY <2>1 DEF Core, InTime, LeaseInv, LeaseAt, Holds, MarkInv, MarkAt, MarkRow, Of, Subject, Mine
  <2> QED
    BY <2>2, <2>3, <2>4, <2>5 DEF Core
<1> QED
  BY <1>1, <1>2, <1>3, <1>4, <1>5 DEF IdentityNext

LEMMA IdentityInvAlways == IdentitySpec => []IdentityInv
<1>1. Core /\ RestTyped => IdentityInv
  BY CoreEquivalent
<1> QED
  BY <1>1, IdentityInvInit, IdentityInvStep, PTL DEF IdentitySpec

\* The rows, the sessions, both systems' users and the counters have their types
\* (provider-operation-repository.ts, schema of identity_provider_operation).
THEOREM IdentityTypeCorrect == IdentitySpec => []IdentityTypeOK
<1>1. IdentityInv => IdentityTypeOK
  BY DEF IdentityInv
<1> QED
  BY <1>1, IdentityInvAlways, PTL

\* No session went on after its lease had ended: then an operation that was undone or
\* given up leaves no user of its own behind, unless the account is linked to that
\* user (user-admin-service.ts: the compensation of a creation).
THEOREM NoOrphanLeft == IdentitySpec => []NoOrphans
<1>1. IdentityInv => NoOrphans
  <2> SUFFICES ASSUME IdentityInv, NEW o \in Creates,
                      op[o].status \in {"compensated", "failed"}, user.marker = o, late = {}
               PROVE  account.subject = user.subject
    BY DEF NoOrphans
  <2>1. o \in Ops
    BY DEF Ops
  <2> QED
    BY <2>1 DEF IdentityInv, InTime, MarkInv, MarkRow
<1> QED
  BY <1>1, IdentityInvAlways, PTL

\* A change reported as completed has happened at the provider and stays, whatever
\* sessions overran their leases (user-admin-service.ts: disable and reset).
THEOREM ChangesHold == IdentitySpec => []ChangesTakeEffect
<1>1. IdentityInv => ChangesTakeEffect
  <2> SUFFICES ASSUME IdentityInv PROVE ChangesTakeEffect
    OBVIOUS
  <2>1. ASSUME NEW o \in Ops PROVE EffectRow(o)
    BY DEF IdentityInv, EffectInv
  <2> QED
    BY <2>1 DEF ChangesTakeEffect, EffectRow, Disabled, NoOld, Ops
<1> QED
  BY <1>1, IdentityInvAlways, PTL

-------------------------------------------------------------------------------
(* Usage: the invariant                                                    *)

RowType  == [at : 0..MaxTime, used : BOOLEAN]
SyncType == [phase : {"idle", "asking", "routed", "written"}, day : 0..MaxDay, at : 0..MaxTime,
             answer : [People -> {"absent", "idle", "used"}], scope : [People -> Companies \cup {0}]]
FlagType == [person : People, to : {"active", "flagged_inactive"}]
OutrunType == [before : SUBSET Syncs, persons : SUBSET People]
RunType  == [scope : Companies \cup {0}, todo : SUBSET People, open : {Nobody} \cup FlagType]

\* The evidence on which a request may be flagged.
Earned(p) == Uses(p) # {} /\ DaysInactive(p) > IdleDays

\* Who is examined is examined by one run; no answer about him is under way into the
\* store, his seat is not being given up, and the evidence of a flag stands.
OpenInv(r) ==
  LET o == flagging[r].open IN
  /\ ~Written(o.person)
  /\ \A q \in Runs : flagging[q].open # Nobody /\ flagging[q].open.person = o.person => q = r
  /\ o.to = "flagged_inactive" => Earned(o.person)

UsageInv ==
  /\ UsageTypeOK
  /\ \A j \in Syncs : sync[j].phase # "idle" => sync[j].at > 0 /\ sync[j].day \in Days
  /\ \A r \in Runs : flagging[r].open # Nobody => OpenInv(r)

-------------------------------------------------------------------------------
(* Usage: the newest day                                                   *)

\* Of finitely many numbers, one is the greatest.
LEMMA MaxIsGreatest ==
  ASSUME NEW S, IsFiniteSet(S), S # {}, S \subseteq Int
  PROVE  Max(S) \in S /\ \A x \in S : x <= Max(S)
<1> DEFINE up(a) == {x \in S : a <= x}
           Bad   == {up(m) : m \in S}
<1>0. (\A U : U \in Bad <=> \E m \in S : U = up(m)) /\ Bad # {} /\ Bad \in SUBSET (SUBSET S)
  OBVIOUS
<1> HIDE DEF Bad
<1>1. Bad \subseteq FiniteSubsetsOf(S)
  BY <1>0, FS_Subset DEF FiniteSubsetsOf
<1>2. PICK T \in Bad : \A U \in Bad : U \subseteq T => U = T
  <2>1. PICK T \in Bad : \A U \in Bad : ~(<<U, T>> \in StrictSubsetOrdering(S))
    BY <1>0, <1>1, FS_StrictSubsetOrderingWellFounded, WFMin
  <2>2. \A U \in Bad : U \subseteq T => U = T
    BY <1>0, <2>1 DEF StrictSubsetOrdering
  <2> QED
    BY <2>2
<1>3. PICK m \in S : T = up(m)
  BY <1>0, <1>2
<1>4. ASSUME NEW n \in S, ~(n <= m) PROVE FALSE
  <2>1. up(n) \in Bad
    BY <1>0
  <2> \A x \in S : x \in Int
    OBVIOUS
  <2> HIDE DEF up
  <2>2. m \in Int /\ n \in Int /\ m < n
    BY <1>4
  <2>3. \A x \in S : n <= x => m <= x
    BY <2>2
  <2>4. up(n) \subseteq up(m)
    BY <2>3 DEF up
  <2>6. m \in up(m) /\ ~(m \in up(n))
    <3>1. m <= m /\ ~(n <= m)
      BY <1>4, <2>2
    <3> QED
      BY <3>1 DEF up
  <2>5. up(n) = up(m)
    BY <1>2, <1>3, <2>1, <2>4
  <2> QED
    BY <2>5, <2>6
<1>5. \A n \in S : m >= n
  BY <1>4
<1> QED
  BY <1>5 DEF Max

\* The account's newest day never goes back: only more days become known.
LEMMA NewestGrows ==
  ASSUME UsageInv, row' \in [People -> [Days -> RowType]],
         \A q \in People, d \in Days : row'[q][d] # row[q][d] => row'[q][d].at > row[q][d].at,
         NEW p \in People, row'[p] = row[p], Earned(p)
  PROVE  Earned(p)'
<1>1. Uses(p)' = Uses(p)
  BY DEF Uses
<1>2. \A q \in People, d \in Days : row[q][d] \in RowType /\ row'[q][d] \in RowType
  BY DEF UsageInv, UsageTypeOK, RowType
<1>3. Known \subseteq Known'
  <2>1. ASSUME NEW q \in People, NEW d \in Days, row[q][d] # NoRow PROVE row'[q][d] # NoRow
    BY <1>2, <2>1, UsageAssumption DEF RowType, NoRow
  <2> QED
    BY <2>1 DEF Known
<1>4. Uses(p) \subseteq Known
  BY DEF Uses, Known, NoRow
<1>5. IsFiniteSet(Days) /\ Days \subseteq Int
  BY FS_Interval, UsageAssumption DEF Days
<1>6. IsFiniteSet(Known) /\ IsFiniteSet(Known') /\ IsFiniteSet(Uses(p))
      /\ Known \subseteq Int /\ Known' \subseteq Int /\ Uses(p) \subseteq Int
  <2>1. Known \subseteq Days /\ Known' \subseteq Days /\ Uses(p) \subseteq Days
    BY DEF Known, Uses
  <2> QED
    BY <1>5, <2>1, FS_Subset
<1>7. Known # {} /\ Known' # {} /\ Uses(p) # {}
  BY <1>3, <1>4 DEF Earned
<1>8. Max(Known) \in Known /\ Max(Uses(p)) \in Uses(p)
  BY <1>6, <1>7, MaxIsGreatest
<1>9. Max(Known') \in Known' /\ \A d \in Known' : d <= Max(Known')
  BY <1>6, <1>7, MaxIsGreatest
<1>10. Max(Known) \in Int /\ Max(Known') \in Int /\ Max(Uses(p)) \in Int /\ Max(Known) <= Max(Known')
  BY <1>3, <1>6, <1>8, <1>9
<1>11. DaysInactive(p) = Max(Known) - Max(Uses(p)) /\ DaysInactive(p)' = Max(Known') - Max(Uses(p))
  BY <1>1 DEF DaysInactive
<1> QED
  BY <1>1, <1>7, <1>10, <1>11, UsageAssumption DEF Earned

LEMMA EarnedSame ==
  ASSUME row' = row, NEW p
  PROVE  Earned(p)' <=> Earned(p)
BY DEF Earned, Uses, DaysInactive, Known

-------------------------------------------------------------------------------
(* Usage: runs of analytics                                                *)

SyncTimed == \A j \in Syncs : sync[j].phase # "idle" => sync[j].at > 0 /\ sync[j].day \in Days

LEMMA SyncTyped ==
  ASSUME UsageInv, NEW j \in Syncs
  PROVE  /\ sync[j] \in SyncType /\ sync \in [Syncs -> SyncType]
         /\ outrun[j] \in OutrunType /\ outrun \in [Syncs -> OutrunType]
BY DEF UsageInv, UsageTypeOK, SyncType, OutrunType

LEMMA FlagTyped ==
  ASSUME UsageInv, NEW r \in Runs
  PROVE  /\ flagging[r] \in RunType /\ flagging \in [Runs -> RunType]
         /\ flagging[r].open # Nobody => flagging[r].open \in FlagType /\ Examined(flagging[r].open.person)
                                         /\ flagging[r].open.person \in People
<1>1. flagging[r] \in RunType /\ flagging \in [Runs -> RunType]
  BY DEF UsageInv, UsageTypeOK, RunType, FlagType
<1>2. flagging[r].open \in {Nobody} \cup FlagType
  BY <1>1 DEF RunType
<1>3. ASSUME flagging[r].open # Nobody PROVE flagging[r].open.person \in People
  BY <1>2, <1>3 DEF FlagType
<1> QED
  BY <1>1, <1>2, <1>3 DEF Examined

\* Only the store and what is under way into it change.
LEMMA OpenKeeps ==
  ASSUME UsageInv, flagging' = flagging, UsageTypeOK', SyncTimed',
         \A p \in People : Examined(p) => (Written(p)' => Written(p)) /\ (Earned(p) => Earned(p)')
  PROVE  UsageInv'
<1>1. ASSUME NEW r \in Runs, flagging'[r].open # Nobody PROVE OpenInv(r)'
  <2>1. flagging'[r] = flagging[r] /\ flagging[r].open # Nobody
    BY <1>1
  <2>2. flagging[r].open.person \in People /\ Examined(flagging[r].open.person)
    BY <2>1, FlagTyped
  <2>3. OpenInv(r)
    BY <2>1 DEF UsageInv
  <2> QED
    BY <2>1, <2>2, <2>3 DEF OpenInv
<1> QED
  BY <1>1 DEF UsageInv, SyncTimed

\* A run moves without writing.
LEMMA SyncKeeps ==
  ASSUME UsageInv, NEW j \in Syncs, UNCHANGED <<row, company, seat, flagging>>, clock' \in 0..MaxTime,
         sync' \in [Syncs -> SyncType], \A i \in Syncs \ {j} : sync'[i] = sync[i],
         outrun' \in [Syncs -> OutrunType], sync'[j].phase # "written",
         sync'[j].phase # "idle" => sync'[j].at > 0 /\ sync'[j].day \in Days
  PROVE  UsageInv'
<1>1. UsageTypeOK'
  BY DEF UsageInv, UsageTypeOK, SyncType, OutrunType
<1>2. SyncTimed'
  BY DEF UsageInv, SyncTimed
<1>3. ASSUME NEW p, Written(p)' PROVE Written(p)
  <2>1. PICK i \in Syncs : sync'[i].phase = "written" /\ p \in Matched(i)'
    BY <1>3 DEF Written
  <2>2. sync'[i] = sync[i]
    BY <2>1
  <2> QED
    BY <2>1, <2>2 DEF Written, Matched
<1> QED
  BY <1>1, <1>2, <1>3, EarnedSame, OpenKeeps

LEMMA AsleepTyped == Asleep \in SyncType /\ Asleep.phase = "idle"
BY UsageAssumption DEF Asleep, SyncType

\* A run that ends sleeps, and of the others only what they know of it changes.
LEMMA EndSyncParts ==
  ASSUME UsageInv, NEW j \in Syncs, NEW stored \in SUBSET People, EndSync(j, stored)
  PROVE  /\ sync' = [sync EXCEPT ![j] = Asleep]
         /\ outrun' \in [Syncs -> OutrunType] /\ outrun'[j] = First
         /\ \A i \in Syncs \ {j} :
              /\ outrun'[i].before = outrun[i].before \ {j}
              /\ outrun'[i].persons = outrun[i].persons \cup {p \in stored : i \in outrun[j].before}
<1> DEFINE next(i) == [before  |-> outrun[i].before \ {j},
                       persons |-> outrun[i].persons \cup {p \in stored : i \in outrun[j].before}]
<1>1. outrun' = [i \in Syncs |-> IF i = j THEN First ELSE next(i)]
  BY DEF EndSync
<1>2. First \in OutrunType
  BY DEF First, OutrunType
<1>3. \A i \in Syncs : next(i) \in OutrunType
  <2>1. SUFFICES ASSUME NEW i \in Syncs PROVE next(i) \in OutrunType
    OBVIOUS
  <2>2. outrun[i] \in OutrunType
    BY SyncTyped
  <2> QED
    BY <2>2 DEF OutrunType
<1>4. \A i \in Syncs \ {j} : outrun'[i] = next(i)
  BY <1>1
<1>5. outrun' \in [Syncs -> OutrunType] /\ outrun'[j] = First
  <2> HIDE DEF next
  <2> QED
    BY <1>1, <1>2, <1>3
<1> QED
  BY <1>4, <1>5 DEF EndSync

LEMMA StartSyncParts ==
  ASSUME UsageInv, NEW j \in Syncs, StartSync(j)
  PROVE  \E d \in Days :
           /\ outrun' \in [Syncs -> OutrunType]
           /\ outrun'[j].before = Ahead(d)
           /\ outrun'[j].persons = outrun[j].persons
           /\ \A i \in Syncs \ {j} : outrun'[i] = outrun[i]
           /\ clock' \in 1..MaxTime /\ clock' \in {clock, clock + 1}
           /\ UNCHANGED <<row, company, seat, flagging>>
           /\ sync' = [sync EXCEPT ![j] = [Asleep EXCEPT !.phase = "asking", !.day = d, !.at = clock']]
<1>1. PICK t \in {clock, clock + 1} \cap 1..MaxTime, d \in Days :
        /\ clock' = t /\ UNCHANGED <<row, company, seat, flagging>>
        /\ sync' = [sync EXCEPT ![j] = [Asleep EXCEPT !.phase = "asking", !.day = d, !.at = t]]
        /\ outrun' = [outrun EXCEPT ![j].before = Ahead(d)]
  BY DEF StartSync
<1>2. PICK new : new = [outrun[j] EXCEPT !.before = Ahead(d)]
  OBVIOUS
<1>3. /\ new \in OutrunType /\ new.before = Ahead(d)
      /\ new.persons = outrun[j].persons
  <2>1. Ahead(d) \in SUBSET Syncs
    BY DEF Ahead, Syncing
  <2> QED
    BY <1>2, <2>1, SyncTyped DEF OutrunType
<1>4. outrun' = [outrun EXCEPT ![j] = new]
  BY <1>1, <1>2
<1>5. /\ outrun' \in [Syncs -> OutrunType] /\ outrun'[j] = new
      /\ \A i \in Syncs \ {j} : outrun'[i] = outrun[i]
  BY <1>3, <1>4, SyncTyped
<1> QED
  BY <1>1, <1>3, <1>5

LEMMA StartSyncKeeps ==
  ASSUME UsageInv, NEW j \in Syncs, StartSync(j)
  PROVE  UsageInv'
<1>1. PICK d \in Days :
        /\ outrun' \in [Syncs -> OutrunType] /\ clock' \in 1..MaxTime
        /\ UNCHANGED <<row, company, seat, flagging>>
        /\ sync' = [sync EXCEPT ![j] = [Asleep EXCEPT !.phase = "asking", !.day = d, !.at = clock']]
  BY StartSyncParts
<1>6. PICK t \in 1..MaxTime : t = clock'
  BY <1>1
<1> DEFINE new == [Asleep EXCEPT !.phase = "asking", !.day = d, !.at = t]
<1>2. t \in 0..MaxTime /\ t > 0 /\ d \in 0..MaxDay
  BY UsageAssumption DEF Days
<1>3. new \in SyncType /\ new.phase = "asking" /\ new.day = d /\ new.at = t
  BY <1>2, AsleepTyped DEF SyncType
<1>4. sync' = [sync EXCEPT ![j] = new]
  BY <1>1, <1>6
<1> HIDE DEF new
<1>5. sync' \in [Syncs -> SyncType] /\ sync'[j] = new /\ \A i \in Syncs \ {j} : sync'[i] = sync[i]
  BY <1>3, <1>4, SyncTyped
<1> QED
  BY <1>1, <1>2, <1>3, <1>5, <1>6, SyncKeeps

LEMMA ReceiveKeeps ==
  ASSUME UsageInv, NEW j \in Syncs, Receive(j)
  PROVE  UsageInv'
<1>1. PICK a \in Answers :
        /\ sync[j].phase = "asking" /\ UNCHANGED <<clock, row, company, seat, flagging, outrun>>
        /\ sync' = [sync EXCEPT ![j] = [sync[j] EXCEPT !.phase = "routed", !.at = sync[j].at,
                                                       !.answer = a, !.scope = company]]
  BY DEF Receive, SyncedAt
<1> DEFINE new == [sync[j] EXCEPT !.phase = "routed", !.at = sync[j].at, !.answer = a, !.scope = company]
<1>2. sync[j] \in SyncType /\ sync[j].at > 0 /\ sync[j].day \in Days
  BY <1>1, SyncTyped DEF UsageInv
<1>3. a \in [People -> {"absent", "idle", "used"}] /\ company \in [People -> Companies \cup {0}]
  BY UsageAssumption DEF UsageInv, UsageTypeOK
<1>4. new \in SyncType /\ new.phase = "routed" /\ new.day = sync[j].day /\ new.at = sync[j].at
  BY <1>2, <1>3 DEF SyncType
<1>5. sync' = [sync EXCEPT ![j] = new]
  BY <1>1, SyncTyped
<1> HIDE DEF new
<1>6. sync' \in [Syncs -> SyncType] /\ sync'[j] = new /\ \A i \in Syncs \ {j} : sync'[i] = sync[i]
  BY <1>4, <1>5, SyncTyped
<1>7. clock' \in 0..MaxTime /\ outrun' \in [Syncs -> OutrunType]
  BY <1>1, SyncTyped DEF UsageInv, UsageTypeOK
<1> QED
  BY <1>1, <1>2, <1>4, <1>6, <1>7, SyncKeeps

LEMMA FailSyncKeeps ==
  ASSUME UsageInv, NEW j \in Syncs, FailSync(j)
  PROVE  UsageInv'
<1>1. /\ UNCHANGED <<clock, row, company, seat, flagging>> /\ sync' = [sync EXCEPT ![j] = Asleep]
      /\ outrun' \in [Syncs -> OutrunType]
  BY EndSyncParts DEF FailSync
<1>2. sync' \in [Syncs -> SyncType] /\ sync'[j] = Asleep /\ \A i \in Syncs \ {j} : sync'[i] = sync[i]
  BY <1>1, SyncTyped, AsleepTyped
<1>3. clock' \in 0..MaxTime
  BY <1>1 DEF UsageInv, UsageTypeOK
<1> QED
  BY <1>1, <1>2, <1>3, AsleepTyped, SyncKeeps

LEMMA WriteKeeps ==
  ASSUME UsageInv, NEW j \in Syncs, Write(j)
  PROVE  UsageInv'
<1>1. /\ sync[j].phase = "routed" /\ \A p \in Matched(j) : ~Examined(p)
      /\ sync' = [sync EXCEPT ![j].phase = "written"]
      /\ UNCHANGED <<clock, row, company, seat, flagging, outrun>>
  BY DEF Write
<1>2. sync' = [sync EXCEPT ![j] = [sync[j] EXCEPT !.phase = "written"]]
  BY <1>1, SyncTyped
<1> DEFINE new == [sync[j] EXCEPT !.phase = "written"]
<1>3. new \in SyncType /\ new.day = sync[j].day /\ new.at = sync[j].at /\ new.answer = sync[j].answer /\ new.scope = sync[j].scope
  BY SyncTyped DEF SyncType
<1> HIDE DEF new
<1>4. sync' \in [Syncs -> SyncType] /\ sync'[j] = new /\ \A i \in Syncs \ {j} : sync'[i] = sync[i]
  BY <1>2, <1>3, SyncTyped DEF new
<1>5. UsageTypeOK'
  BY <1>1, <1>4 DEF UsageInv, UsageTypeOK, SyncType
<1>6. SyncTimed'
  BY <1>1, <1>3, <1>4 DEF UsageInv, SyncTimed
<1>7. ASSUME NEW p \in People, Examined(p), Written(p)' PROVE Written(p)
  <2>1. PICK i \in Syncs : sync'[i].phase = "written" /\ p \in Matched(i)'
    BY <1>7 DEF Written
  <2>2. \A k \in Syncs : Matched(k)' = Matched(k)
    BY <1>1, <1>3, <1>4 DEF Matched
  <2>3. i # j
    BY <1>1, <1>7, <2>1, <2>2
  <2> QED
    BY <1>4, <2>1, <2>2, <2>3 DEF Written
<1> QED
  BY <1>1, <1>5, <1>6, <1>7, EarnedSame, OpenKeeps

\* What a commit writes is newer than what was there, and concerns nobody examined.
LEMMA CommitWrites ==
  ASSUME UsageInv, NEW j \in Syncs, CommitSync(j)
  PROVE  /\ row' \in [People -> [Days -> RowType]]
         /\ \A q \in People, d \in Days : row'[q][d] # row[q][d] => row'[q][d].at > row[q][d].at
         /\ \A q \in People : ~Written(q) => row'[q] = row[q]
<1> DEFINE s == sync[j]
           new(p) == [at |-> s.at, used |-> s.answer[p] = "used"]
           hit(p, d) == d = s.day /\ p \in Matched(j) /\ Newer(row[p][d], s.at)
<1>1. /\ s.phase = "written"
      /\ row' = [p \in People |-> [d \in Days |-> IF hit(p, d) THEN new(p) ELSE row[p][d]]]
  BY DEF CommitSync
<1>2. s \in SyncType /\ row \in [People -> [Days -> RowType]]
  BY SyncTyped DEF UsageInv, UsageTypeOK, RowType
<1>3. \A p \in People : new(p) \in RowType /\ new(p).at = s.at
  BY <1>2 DEF SyncType, RowType
<1>4. \A p \in People, d \in Days : hit(p, d) => s.at > row[p][d].at
  <2>1. \A p \in People, d \in Days : row[p][d].at \in Int /\ s.at \in Int
    BY <1>2, UsageAssumption DEF SyncType, RowType
  <2> QED
    BY <2>1 DEF Newer
<1>5. \A p \in People, d \in Days : hit(p, d) => Written(p)
  BY <1>1 DEF Written
<1> HIDE DEF s, new, hit
<1>6. \A p \in People, d \in Days : row'[p][d] = IF hit(p, d) THEN new(p) ELSE row[p][d]
  BY <1>1
<1>7. row' \in [People -> [Days -> RowType]]
  BY <1>1, <1>2, <1>3
<1>8. ASSUME NEW q \in People, ~Written(q) PROVE row'[q] = row[q]
  <2>1. \A d \in Days : row'[q][d] = row[q][d]
    BY <1>5, <1>6, <1>8
  <2>2. row'[q] \in [Days -> RowType] /\ row[q] \in [Days -> RowType]
    BY <1>2, <1>7
  <2> QED
    BY <2>1, <2>2
<1> QED
  BY <1>3, <1>4, <1>6, <1>7, <1>8

LEMMA CommitSyncKeeps ==
  ASSUME UsageInv, NEW j \in Syncs, CommitSync(j)
  PROVE  UsageInv'
<1>1. /\ sync' = [sync EXCEPT ![j] = Asleep] /\ UNCHANGED <<clock, company, seat, flagging>>
      /\ outrun' \in [Syncs -> OutrunType]
  <2>1. Matched(j) \in SUBSET People
    BY DEF Matched
  <2> QED
    BY <2>1, EndSyncParts DEF CommitSync
<1>2. sync' \in [Syncs -> SyncType] /\ sync'[j] = Asleep /\ \A i \in Syncs \ {j} : sync'[i] = sync[i]
  BY <1>1, SyncTyped, AsleepTyped
<1>3. row' \in [People -> [Days -> RowType]]
  BY CommitWrites
<1>4. UsageTypeOK'
  BY <1>1, <1>2, <1>3 DEF UsageInv, UsageTypeOK, SyncType, RowType, OutrunType
<1>5. SyncTimed'
  BY <1>2, AsleepTyped DEF UsageInv, SyncTimed
<1>6. ASSUME NEW p \in People, Examined(p) PROVE (Written(p)' => Written(p)) /\ (Earned(p) => Earned(p)')
  <2>1. PICK r \in Runs : flagging[r].open.person = p
    BY <1>6 DEF Examined
  <2>2. flagging[r].open # Nobody
    BY <2>1, UsageAssumption DEF Nobody
  <2>3. ~Written(p)
    BY <2>1, <2>2 DEF UsageInv, OpenInv
  <2>4. row'[p] = row[p]
    BY <2>3, CommitWrites
  <2>5. Earned(p) => Earned(p)'
    BY <1>3, <2>4, CommitWrites, NewestGrows
  <2>6. Written(p)' => Written(p)
    BY <1>1, <1>2, AsleepTyped DEF Written, Matched
  <2> QED
    BY <2>5, <2>6
<1> QED
  BY <1>1, <1>4, <1>5, <1>6, OpenKeeps

-------------------------------------------------------------------------------
(* Usage: runs of the flagging job                                         *)

LEMMA FlagsKeep ==
  ASSUME UsageInv, NEW r \in Runs, UNCHANGED <<clock, row, sync, company, outrun>>,
         seat' \in [People -> {"active", "flagged_inactive", "offboarding"}],
         flagging' \in [Runs -> RunType], \A q \in Runs \ {r} : flagging'[q] = flagging[q],
         \/ flagging'[r].open = Nobody
         \/ flagging'[r].open = flagging[r].open
         \/ /\ ~Examined(flagging'[r].open.person) /\ ~Written(flagging'[r].open.person)
            /\ flagging'[r].open.to = "flagged_inactive" => Earned(flagging'[r].open.person)
  PROVE  UsageInv'
<1>1. UsageTypeOK'
  BY DEF UsageInv, UsageTypeOK, RunType, FlagType
<1>2. SyncTimed'
  BY DEF UsageInv, SyncTimed
<1>3. \A p : (Written(p)' <=> Written(p)) /\ (Earned(p)' <=> Earned(p))
  BY EarnedSame DEF Written, Matched
<1>4. ASSUME NEW q \in Runs, flagging'[q].open # Nobody PROVE OpenInv(q)'
  <2>1. CASE flagging'[q].open = flagging[q].open
    <3>1. OpenInv(q)
      BY <1>4, <2>1 DEF UsageInv
    <3>2. \A s \in Runs : flagging'[s].open # Nobody /\ flagging'[s].open.person = flagging'[q].open.person => s = q
      <4> SUFFICES ASSUME NEW s \in Runs, flagging'[s].open # Nobody,
                          flagging'[s].open.person = flagging'[q].open.person
                   PROVE  s = q
        OBVIOUS
      <4>1. CASE flagging'[s].open = flagging[s].open
        BY <2>1, <3>1, <4>1 DEF OpenInv
      <4>2. CASE flagging'[s].open # flagging[s].open
        <5>1. s = r
          BY <4>2
        <5>2. ~Examined(flagging'[s].open.person)
          BY <4>2, <5>1
        <5> QED
          BY <2>1, <5>2 DEF Examined
      <4> QED
        BY <4>1, <4>2
    <3> QED
      BY <1>3, <2>1, <3>1, <3>2 DEF OpenInv
  <2>2. CASE flagging'[q].open # flagging[q].open
    <3>1. q = r /\ ~Examined(flagging'[q].open.person) /\ ~Written(flagging'[q].open.person)
          /\ (flagging'[q].open.to = "flagged_inactive" => Earned(flagging'[q].open.person))
      BY <1>4, <2>2
    <3>2. \A s \in Runs : flagging'[s].open.person = flagging'[q].open.person => s = q
      BY <3>1 DEF Examined
    <3> QED
      BY <1>3, <3>1, <3>2 DEF OpenInv
  <2> QED
    BY <2>1, <2>2
<1> QED
  BY <1>1, <1>2, <1>4 DEF UsageInv, SyncTimed

LEMMA MinIsMember ==
  ASSUME NEW S, IsFiniteSet(S), S # {}, S \subseteq Int
  PROVE  Min(S) \in S
<1> DEFINE neg == {0 - x : x \in S}
           f   == [x \in S |-> 0 - x]
<1>1. f \in Surjection(S, neg)
  BY DEF Surjection
<1>2. (\A y \in neg : \E x \in S : y = 0 - x) /\ \A x \in S : 0 - x \in neg
  OBVIOUS
<1> HIDE DEF neg, f
<1>3. neg \subseteq Int /\ neg # {}
  <2>1. \A x \in S : 0 - x \in Int
    OBVIOUS
  <2>2. \A y \in neg : y \in Int
    BY <1>2, <2>1
  <2> QED
    BY <1>2, <2>2
<1>4. IsFiniteSet(neg)
  BY <1>1, FS_Surjection
<1>5. Max(neg) \in neg /\ \A y \in neg : y <= Max(neg)
  BY <1>3, <1>4, MaxIsGreatest
<1>6. PICK m \in S : Max(neg) = 0 - m
  BY <1>2, <1>5
<1>7. \A x \in S : m <= x
  <2> SUFFICES ASSUME NEW x \in S PROVE m <= x
    OBVIOUS
  <2>1. 0 - x <= 0 - m /\ x \in Int /\ m \in Int
    BY <1>2, <1>5, <1>6
  <2> QED
    BY <2>1
<1> QED
  BY <1>7 DEF Min

LEMMA DiscoverKeeps ==
  ASSUME UsageInv, NEW r \in Runs, Discover(r)
  PROVE  UsageInv'
<1> DEFINE later == {c \in Companies : c > flagging[r].scope}
           next  == Min(IF later = {} THEN Companies ELSE later)
           todo  == {p \in People : company[p] = next /\ seat[p] \in {"active", "flagged_inactive"}}
<1>1. /\ flagging[r].open = Nobody
      /\ flagging' = [flagging EXCEPT ![r].scope = next, ![r].todo = todo]
      /\ UNCHANGED <<clock, row, sync, company, seat, outrun>>
  BY DEF Discover
<1>2. next \in Companies
  <2>1. IsFiniteSet(later) /\ IsFiniteSet(Companies) /\ Companies # {}
        /\ later \subseteq Companies /\ Companies \subseteq Int
    BY FS_Subset, UsageAssumption
  <2> HIDE DEF later
  <2> QED
    BY <2>1, MinIsMember
<1>3. todo \subseteq People
  OBVIOUS
<1> HIDE DEF next, todo
<1>4. flagging' \in [Runs -> RunType] /\ flagging'[r].open = Nobody
  BY <1>1, <1>2, <1>3, FlagTyped DEF RunType
<1>5. \A q \in Runs \ {r} : flagging'[q] = flagging[q]
  BY <1>1, FlagTyped
<1>6. seat' \in [People -> {"active", "flagged_inactive", "offboarding"}]
  BY <1>1 DEF UsageInv, UsageTypeOK
<1> QED
  BY <1>1, <1>4, <1>5, <1>6, FlagsKeep

LEMMA ExamineKeeps ==
  ASSUME UsageInv, NEW r \in Runs, NEW p \in People, Examine(r, p)
  PROVE  UsageInv'
<1>1. ~Examined(p) /\ ~Written(p) /\ UNCHANGED <<clock, row, sync, company, seat, outrun>>
  BY DEF Examine
<1>2. seat' \in [People -> {"active", "flagged_inactive", "offboarding"}]
  BY <1>1 DEF UsageInv, UsageTypeOK
<1>3. CASE Target(p) # "none" /\ flagging' = [flagging EXCEPT ![r].todo = @ \ {p}, ![r].open = [person |-> p, to |-> Target(p)]]
  <2> DEFINE o == [person |-> p, to |-> Target(p)]
  <2>1. Target(p) \in {"active", "flagged_inactive"} /\ (Target(p) = "flagged_inactive" => Earned(p))
    BY <1>3 DEF Target, Classification, Earned
  <2>2. o \in FlagType /\ o.person = p /\ (o.to = "flagged_inactive" => Earned(p))
    BY <2>1 DEF FlagType
  <2> HIDE DEF o
  <2>3. flagging' = [flagging EXCEPT ![r].todo = @ \ {p}, ![r].open = o]
    BY <1>3 DEF o
  <2>4. flagging' \in [Runs -> RunType] /\ flagging'[r].open = o /\ \A q \in Runs \ {r} : flagging'[q] = flagging[q]
    BY <2>2, <2>3, FlagTyped DEF RunType
  <2> QED
    BY <1>1, <1>2, <2>2, <2>4, FlagsKeep
<1>4. CASE flagging' = [flagging EXCEPT ![r].todo = @ \ {p}]
  <2>1. flagging' \in [Runs -> RunType] /\ flagging'[r].open = flagging[r].open
        /\ \A q \in Runs \ {r} : flagging'[q] = flagging[q]
    BY <1>4, FlagTyped DEF RunType
  <2> QED
    BY <1>1, <1>2, <2>1, FlagsKeep
<1> QED
  BY <1>3, <1>4 DEF Examine

LEMMA CommitFlagKeeps ==
  ASSUME UsageInv, NEW r \in Runs, CommitFlag(r)
  PROVE  UsageInv'
<1>1. /\ flagging[r].open # Nobody /\ UNCHANGED <<clock, row, sync, company, outrun>>
      /\ seat' = [seat EXCEPT ![flagging[r].open.person] = flagging[r].open.to]
      /\ flagging' = [flagging EXCEPT ![r].open = Nobody]
  BY DEF CommitFlag
<1>2. flagging[r].open.to \in {"active", "flagged_inactive"}
  BY <1>1, FlagTyped DEF FlagType
<1>3. seat' \in [People -> {"active", "flagged_inactive", "offboarding"}]
  BY <1>1, <1>2 DEF UsageInv, UsageTypeOK
<1>4. flagging' \in [Runs -> RunType] /\ flagging'[r].open = Nobody
      /\ \A q \in Runs \ {r} : flagging'[q] = flagging[q]
  BY <1>1, FlagTyped DEF RunType
<1> QED
  BY <1>1, <1>3, <1>4, FlagsKeep

LEMMA CrashRunKeeps ==
  ASSUME UsageInv, NEW r \in Runs, CrashRun(r)
  PROVE  UsageInv'
<1>1. flagging' = [flagging EXCEPT ![r] = NoRun] /\ UNCHANGED <<clock, row, sync, company, seat, outrun>>
  BY DEF CrashRun
<1>2. NoRun \in RunType /\ NoRun.open = Nobody
  BY DEF NoRun, RunType
<1>3. flagging' \in [Runs -> RunType] /\ flagging'[r].open = Nobody
      /\ \A q \in Runs \ {r} : flagging'[q] = flagging[q]
  BY <1>1, <1>2, FlagTyped
<1>4. seat' \in [People -> {"active", "flagged_inactive", "offboarding"}]
  BY <1>1 DEF UsageInv, UsageTypeOK
<1> QED
  BY <1>1, <1>3, <1>4, FlagsKeep

LEMMA MovePersonKeeps ==
  ASSUME UsageInv, NEW p \in People, MovePerson(p)
  PROVE  UsageInv'
<1>1. PICK c \in Companies :
        /\ ~Examined(p) /\ company' = [company EXCEPT ![p] = c] /\ seat' = [seat EXCEPT ![p] = "active"]
        /\ UNCHANGED <<clock, row, sync, flagging, outrun>>
  BY DEF MovePerson
<1>2. UsageTypeOK'
  BY <1>1 DEF UsageInv, UsageTypeOK
<1>3. SyncTimed'
  BY <1>1 DEF UsageInv, SyncTimed
<1>4. ASSUME NEW q \in People, Examined(q), Written(q)' PROVE Written(q)
  <2>1. company'[q] = company[q]
    BY <1>1, <1>4 DEF UsageInv, UsageTypeOK
  <2> QED
    BY <1>1, <1>4, <2>1 DEF Written, Matched
<1> QED
  BY <1>1, <1>2, <1>3, <1>4, EarnedSame, OpenKeeps

LEMMA OffboardingKeeps ==
  ASSUME UsageInv, NEW p \in People, StartOffboarding(p)
  PROVE  UsageInv'
<1>1. seat' = [seat EXCEPT ![p] = "offboarding"] /\ UNCHANGED <<clock, row, sync, company, flagging, outrun>>
  BY DEF StartOffboarding
<1>2. UsageTypeOK' /\ SyncTimed'
  BY <1>1 DEF UsageInv, UsageTypeOK, SyncTimed
<1>3. \A q : Written(q)' => Written(q)
  BY <1>1 DEF Written, Matched
<1> QED
  BY <1>1, <1>2, <1>3, EarnedSame, OpenKeeps

-------------------------------------------------------------------------------
(* Usage: the theorems                                                     *)

LEMMA UsageInitInv ==
  ASSUME UsageInit
  PROVE  UsageInv
<1>1. /\ clock = 0 /\ sync = [j \in Syncs |-> Asleep] /\ seat = [p \in People |-> "active"]
      /\ flagging = [r \in Runs |-> NoRun] /\ outrun = [j \in Syncs |-> First]
  BY DEF UsageInit
<1>2. PICK users \in SUBSET People :
        row = [p \in People |-> [d \in Days |-> [at |-> 0, used |-> d = 1 /\ p \in users]]]
  BY DEF UsageInit
<1>3. PICK c \in Companies : company = [p \in People |-> c]
  BY DEF UsageInit
<1>4. row \in [People -> [Days -> RowType]]
  <2>1. \A p \in People, d \in Days : [at |-> 0, used |-> d = 1 /\ p \in users] \in RowType
    BY UsageAssumption DEF RowType
  <2> QED
    BY <1>2, <2>1
<1>5. NoRun \in RunType /\ NoRun.open = Nobody
  BY DEF NoRun, RunType
<1>6. sync \in [Syncs -> SyncType] /\ flagging \in [Runs -> RunType] /\ company \in [People -> Companies]
  BY <1>1, <1>3, <1>5, AsleepTyped
<1>7. UsageTypeOK
  <2>1. outrun \in [Syncs -> [before : SUBSET Syncs, persons : SUBSET People]]
    BY <1>1 DEF First
  <2> QED
    BY <1>1, <1>4, <1>6, <2>1, UsageAssumption DEF UsageTypeOK, SyncType, RowType, RunType, FlagType
<1> QED
  BY <1>1, <1>5, <1>7, AsleepTyped DEF UsageInv

LEMMA UsageNextInv ==
  ASSUME UsageInv, [UsageNext]_usageVars
  PROVE  UsageInv'
<1>1. CASE UNCHANGED usageVars
  <2>1. UsageTypeOK' /\ SyncTimed' /\ flagging' = flagging
    BY <1>1 DEF usageVars, UsageInv, UsageTypeOK, SyncTimed
  <2>2. \A q : Written(q)' => Written(q)
    BY <1>1 DEF usageVars, Written, Matched
  <2> QED
    BY <1>1, <2>1, <2>2, EarnedSame, OpenKeeps DEF usageVars
<1>2. ASSUME NEW j \in Syncs, StartSync(j) \/ Receive(j) \/ Write(j) \/ CommitSync(j) \/ FailSync(j) PROVE UsageInv'
  BY <1>2, StartSyncKeeps, ReceiveKeeps, WriteKeeps, CommitSyncKeeps, FailSyncKeeps
<1>3. ASSUME NEW r \in Runs, Discover(r) \/ CommitFlag(r) \/ CrashRun(r) PROVE UsageInv'
  BY <1>3, DiscoverKeeps, CommitFlagKeeps, CrashRunKeeps
<1>4. ASSUME NEW r \in Runs, NEW p \in People, Examine(r, p) PROVE UsageInv'
  BY <1>4, ExamineKeeps
<1>5. ASSUME NEW p \in People, MovePerson(p) \/ StartOffboarding(p) PROVE UsageInv'
  BY <1>5, MovePersonKeeps, OffboardingKeeps
<1> QED
  BY <1>1, <1>2, <1>3, <1>4, <1>5 DEF UsageNext

LEMMA UsageInvariant == UsageSpec => []UsageInv
<1> QED
  BY UsageInitInv, UsageNextInv, PTL DEF UsageSpec

LEMMA FlagIsEarned ==
  ASSUME UsageInv, [UsageNext]_usageVars, NEW p \in People, seat[p] = "active", seat'[p] = "flagged_inactive"
  PROVE  Earned(p)
<1>1. ASSUME NEW q \in People, MovePerson(q) \/ StartOffboarding(q) PROVE FALSE
  BY <1>1 DEF MovePerson, StartOffboarding, UsageInv, UsageTypeOK
<1>2. PICK r \in Runs : CommitFlag(r)
  BY <1>1 DEF UsageNext, usageVars, StartSync, Receive, Write, CommitSync, FailSync, Discover, CrashRun, Examine
<1>3. flagging[r].open # Nobody /\ seat' = [seat EXCEPT ![flagging[r].open.person] = flagging[r].open.to]
  BY <1>2 DEF CommitFlag
<1>4. flagging[r].open.person = p /\ flagging[r].open.to = "flagged_inactive"
  BY <1>3 DEF UsageInv, UsageTypeOK
<1> QED
  BY <1>3, <1>4 DEF UsageInv, OpenInv

\* A request is only ever flagged on evidence that still stands when the flag is
\* committed, whatever is written and whoever moves meanwhile (inactivity-flagging.ts:75).
THEOREM FlagsAreEarned == UsageSpec => FlagsEarned
<1>1. UsageInv /\ [UsageNext]_usageVars =>
        [\A p \in People : seat[p] = "active" /\ seat'[p] = "flagged_inactive"
           => Uses(p) # {} /\ DaysInactive(p) > IdleDays]_usageVars
  <2> SUFFICES ASSUME UsageInv, [UsageNext]_usageVars, NEW p \in People, seat[p] = "active", seat'[p] = "flagged_inactive"
               PROVE  Uses(p) # {} /\ DaysInactive(p) > IdleDays
    OBVIOUS
  <2> QED
    BY FlagIsEarned DEF Earned
<1> QED
  BY <1>1, UsageInvariant, PTL DEF UsageSpec, FlagsEarned

-------------------------------------------------------------------------------
(* Usage: the newest answer                                                *)

\* Times are pinned in the order in which runs ask, and a row that a later run has
\* stored is not older than the times of those it outran.
OutrunInv ==
  \A j \in Syncs :
    /\ j \in Syncing => sync[j].at <= clock
    /\ \A i \in outrun[j].before :
         /\ i \in Syncing /\ j \in Syncing
         /\ sync[i].day = sync[j].day /\ sync[i].at <= sync[j].at
    /\ \A p \in outrun[j].persons :
         /\ j \in Syncing /\ sync[j].at <= row[p][sync[j].day].at

LEMMA TimesTyped ==
  ASSUME UsageInv, NEW j \in Syncs
  PROVE  /\ sync[j].at \in Int /\ clock \in Int
         /\ sync[j].day \in Days => \A p \in People : row[p][sync[j].day].at \in Int
         /\ j \in Syncing => sync[j].day \in Days
         /\ outrun[j].before \in SUBSET Syncs /\ outrun[j].persons \in SUBSET People
BY UsageAssumption DEF UsageInv, UsageTypeOK, Syncing

\* A run that starts comes after all that are at work.
LEMMA StartOutruns ==
  ASSUME UsageInv, OutrunInv, NEW j \in Syncs, StartSync(j)
  PROVE  OutrunInv'
<1>1. PICK d \in Days :
        /\ outrun'[j].before = Ahead(d)
        /\ outrun'[j].persons = outrun[j].persons
        /\ \A i \in Syncs \ {j} : outrun'[i] = outrun[i]
        /\ clock' \in 1..MaxTime /\ clock' \in {clock, clock + 1} /\ row' = row
        /\ sync' = [sync EXCEPT ![j] = [Asleep EXCEPT !.phase = "asking", !.day = d, !.at = clock']]
  BY StartSyncParts
<1>2. PICK t \in 1..MaxTime : t = clock'
  BY <1>1
<1>3. PICK new : new = [Asleep EXCEPT !.phase = "asking", !.day = d, !.at = t]
  OBVIOUS
<1>4. new.phase = "asking" /\ new.day = d /\ new.at = t
  BY <1>3 DEF Asleep
<1>5. sync' = [sync EXCEPT ![j] = new]
  BY <1>1, <1>2, <1>3
<1>6. sync'[j] = new /\ \A i \in Syncs \ {j} : sync'[i] = sync[i]
  BY <1>5, SyncTyped
<1>7. /\ j \notin Syncing /\ outrun[j].persons = {} /\ \A i \in Syncs : j \notin outrun[i].before
      /\ \A i \in Syncing : i \in Syncs /\ i # j /\ sync[i].at <= clock
  BY DEF StartSync, OutrunInv, Syncing
<1>8. /\ clock \in Int /\ t \in Int /\ clock <= t /\ \A i \in Syncs : sync[i].at \in Int
  BY <1>1, <1>2, TimesTyped
<1>9. \A i \in Syncing : sync[i].at <= t
  BY <1>7, <1>8
<1>10. j \in Syncing' /\ \A i \in Syncs \ {j} : i \in Syncing' <=> i \in Syncing
  BY <1>4, <1>6 DEF Syncing
<1>11. SUFFICES ASSUME NEW k \in Syncs
                PROVE  /\ k \in Syncing' => sync'[k].at <= clock'
                       /\ \A i \in outrun'[k].before :
                            /\ i \in Syncing' /\ k \in Syncing'
                            /\ sync'[i].day = sync'[k].day /\ sync'[i].at <= sync'[k].at
                       /\ \A p \in outrun'[k].persons :
                            /\ k \in Syncing' /\ sync'[k].at <= row'[p][sync'[k].day].at
  BY DEF OutrunInv
<1>12. CASE k = j
  <2>1. \A i \in outrun'[j].before : i \in Syncing /\ sync[i].day = d
    BY <1>1 DEF Ahead
  <2>2. \A i \in outrun'[j].before : i \in Syncing' /\ sync'[i].day = d /\ sync'[i].at <= t
    BY <1>6, <1>7, <1>9, <1>10, <2>1
  <2>3. outrun'[j].persons = {}
    BY <1>1, <1>7
  <2>4. sync'[j].at <= t /\ sync'[j].at = t /\ sync'[j].day = d
    BY <1>4, <1>6, <1>8
  <2> QED
    BY <1>2, <1>10, <1>12, <2>2, <2>3, <2>4
<1>13. CASE k # j
  <2>1. /\ outrun'[k] = outrun[k] /\ sync'[k] = sync[k] /\ (k \in Syncing' <=> k \in Syncing)
    BY <1>1, <1>6, <1>10, <1>13
  <2>2. \A i \in outrun[k].before : i \in Syncs /\ i # j /\ sync'[i] = sync[i]
    BY <1>6, <1>7, TimesTyped
  <2> QED
    BY <1>1, <1>2, <1>9, <1>10, <2>1, <2>2 DEF OutrunInv
<1> QED
  BY <1>12, <1>13

\* A run that ends outruns those that asked before it, by what it has stored.
LEMMA EndOutruns ==
  ASSUME UsageInv, OutrunInv, NEW j \in Syncs, NEW stored \in SUBSET People, EndSync(j, stored),
         clock' = clock, j \in Syncing,
         \A p \in People, d \in Days : row'[p][d].at \in Int /\ row[p][d].at <= row'[p][d].at,
         \A p \in stored : sync[j].at <= row'[p][sync[j].day].at
  PROVE  OutrunInv'
<1>1. /\ sync' = [sync EXCEPT ![j] = Asleep] /\ outrun'[j] = First
      /\ \A i \in Syncs \ {j} :
           /\ outrun'[i].before = outrun[i].before \ {j}
           /\ outrun'[i].persons = outrun[i].persons \cup {p \in stored : i \in outrun[j].before}
  BY EndSyncParts
<1>2. sync'[j] = Asleep /\ \A i \in Syncs \ {j} : sync'[i] = sync[i]
  BY <1>1, SyncTyped
<1>3. j \notin Syncing' /\ \A i \in Syncs \ {j} : i \in Syncing' <=> i \in Syncing
  BY <1>2 DEF Syncing, Asleep
<1>4. SUFFICES ASSUME NEW k \in Syncs
               PROVE  /\ k \in Syncing' => sync'[k].at <= clock'
                      /\ \A i \in outrun'[k].before :
                           /\ i \in Syncing' /\ k \in Syncing'
                           /\ sync'[i].day = sync'[k].day /\ sync'[i].at <= sync'[k].at
                      /\ \A p \in outrun'[k].persons :
                           /\ k \in Syncing' /\ sync'[k].at <= row'[p][sync'[k].day].at
  BY DEF OutrunInv
<1>5. CASE k = j
  BY <1>1, <1>3, <1>5 DEF First
<1>6. CASE k # j
  <2>1. sync'[k] = sync[k] /\ (k \in Syncing' <=> k \in Syncing)
    BY <1>2, <1>3, <1>6
  <2>2. \A i \in outrun'[k].before : i \in outrun[k].before /\ i \in Syncs \ {j}
    BY <1>1, <1>6, TimesTyped
  <2>3. \A i \in outrun'[k].before :
          /\ i \in Syncing' /\ k \in Syncing'
          /\ sync'[i].day = sync'[k].day /\ sync'[i].at <= sync'[k].at
    BY <1>2, <1>3, <2>1, <2>2 DEF OutrunInv
  <2>4. ASSUME NEW p \in outrun'[k].persons
        PROVE  k \in Syncing' /\ sync'[k].at <= row'[p][sync'[k].day].at
    <3>1. CASE p \in outrun[k].persons
      <4>1. k \in Syncing /\ sync[k].at <= row[p][sync[k].day].at
        BY <3>1 DEF OutrunInv
      <4>2. p \in People /\ sync[k].day \in Days /\ sync[k].at \in Int
            /\ row[p][sync[k].day].at \in Int
        BY <3>1, <4>1, TimesTyped
      <4> QED
        BY <2>1, <4>1, <4>2
    <3>2. CASE p \in stored /\ k \in outrun[j].before
      <4>1. /\ k \in Syncing /\ sync[k].day = sync[j].day /\ sync[k].at <= sync[j].at
        BY <3>2 DEF OutrunInv
      <4>2. /\ p \in People /\ sync[j].day \in Days /\ sync[k].at \in Int /\ sync[j].at \in Int
        BY <3>2, TimesTyped
      <4>3. row'[p][sync[j].day].at \in Int /\ sync[j].at <= row'[p][sync[j].day].at
        BY <3>2, <4>2
      <4> QED
        BY <2>1, <4>1, <4>2, <4>3
    <3> QED
      BY <1>1, <1>6, <2>4, <3>1, <3>2
  <2> QED
    BY <2>1, <2>3, <2>4 DEF OutrunInv
<1> QED
  BY <1>5, <1>6

\* A commit leaves a row at its own time, or at a later one.
LEMMA CommitAt ==
  ASSUME UsageInv, NEW j \in Syncs, CommitSync(j)
  PROVE  /\ \A p \in People, d \in Days :
              row'[p][d].at \in Int /\ row[p][d].at \in Int /\ row[p][d].at <= row'[p][d].at
         /\ \A p \in Matched(j) : sync[j].at <= row'[p][sync[j].day].at
<1>1. /\ row' \in [People -> [Days -> RowType]] /\ row \in [People -> [Days -> RowType]]
      /\ \A q \in People, d \in Days : row'[q][d] # row[q][d] => row'[q][d].at > row[q][d].at
  BY CommitWrites DEF UsageInv, UsageTypeOK, RowType
<1>2. \A p \in People, d \in Days : row'[p][d].at \in Int /\ row[p][d].at \in Int
  BY <1>1, UsageAssumption DEF RowType
<1>3. \A p \in People, d \in Days : row[p][d].at <= row'[p][d].at
  BY <1>1, <1>2
<1>4. ASSUME NEW p \in Matched(j) PROVE sync[j].at <= row'[p][sync[j].day].at
  <2>1. p \in People /\ sync[j].day \in Days /\ sync[j].at \in Int
    BY TimesTyped DEF CommitSync, Syncing, Matched
  <2>2. PICK new : new = [at |-> sync[j].at, used |-> sync[j].answer[p] = "used"]
    OBVIOUS
  <2>3. row'[p][sync[j].day] = IF Newer(row[p][sync[j].day], sync[j].at)
                               THEN new ELSE row[p][sync[j].day]
    BY <1>4, <2>1, <2>2 DEF CommitSync
  <2>4. new.at = sync[j].at /\ row[p][sync[j].day].at \in Int
    BY <1>2, <2>1, <2>2
  <2> QED
    BY <2>1, <2>3, <2>4 DEF Newer
<1> QED
  BY <1>2, <1>3, <1>4

LEMMA OutrunKeeps ==
  ASSUME UsageInv, OutrunInv, [UsageNext]_usageVars
  PROVE  OutrunInv'
<1>1. ASSUME NEW j \in Syncs, StartSync(j) PROVE OutrunInv'
  BY <1>1, StartOutruns
<1>2. ASSUME NEW j \in Syncs, CommitSync(j) PROVE OutrunInv'
  <2>1. /\ Matched(j) \in SUBSET People /\ EndSync(j, Matched(j)) /\ clock' = clock /\ j \in Syncing
    BY <1>2 DEF CommitSync, Matched, Syncing
  <2> QED
    BY <1>2, <2>1, CommitAt, EndOutruns
<1>3. ASSUME NEW j \in Syncs, FailSync(j) PROVE OutrunInv'
  <2>1. EndSync(j, {}) /\ UNCHANGED <<clock, row>> /\ j \in Syncing /\ {} \in SUBSET People
    BY <1>3 DEF FailSync
  <2>2. \A p \in People, d \in Days : row[p][d].at \in Int
    BY UsageAssumption DEF UsageInv, UsageTypeOK
  <2>3. \A p \in People, d \in Days : row'[p][d].at \in Int /\ row[p][d].at <= row'[p][d].at
    BY <2>1, <2>2
  <2> QED
    BY <2>1, <2>3, EndOutruns
<1>4. ASSUME NEW j \in Syncs, Receive(j) \/ Write(j) PROVE OutrunInv'
  <2>1. PICK new :
          /\ sync' = [sync EXCEPT ![j] = new] /\ UNCHANGED <<clock, row, outrun>>
          /\ j \in Syncing /\ new.phase # "idle" /\ new.at = sync[j].at /\ new.day = sync[j].day
    <3>1. CASE Receive(j)
      <4>1. PICK a \in Answers :
              /\ sync[j].phase = "asking" /\ UNCHANGED <<clock, row, outrun>>
              /\ sync' = [sync EXCEPT ![j] = [sync[j] EXCEPT !.phase = "routed", !.at = sync[j].at,
                                                             !.answer = a, !.scope = company]]
        BY <3>1 DEF Receive, SyncedAt
      <4>2. PICK new : new = [sync[j] EXCEPT !.phase = "routed", !.at = sync[j].at,
                                !.answer = a, !.scope = company]
        OBVIOUS
      <4>3. new.phase = "routed" /\ new.at = sync[j].at /\ new.day = sync[j].day
        BY <4>2, SyncTyped DEF SyncType
      <4>4. sync' = [sync EXCEPT ![j] = new]
        BY <4>1, <4>2, SyncTyped
      <4> QED
        BY <4>1, <4>3, <4>4 DEF Syncing
    <3>2. CASE Write(j)
      <4>1. PICK new : new = [sync[j] EXCEPT !.phase = "written"]
        OBVIOUS
      <4>2. new.phase = "written" /\ new.at = sync[j].at /\ new.day = sync[j].day
        BY <4>1, SyncTyped DEF SyncType
      <4>3. sync' = [sync EXCEPT ![j] = new]
        BY <3>2, <4>1, SyncTyped DEF Write
      <4> QED
        BY <3>2, <4>2, <4>3 DEF Write, Syncing
    <3> QED
      BY <1>4, <3>1, <3>2
  <2>2. sync'[j] = new /\ \A i \in Syncs \ {j} : sync'[i] = sync[i]
    BY <2>1, SyncTyped
  <2>3. Syncing' = Syncing /\ \A i \in Syncs : sync'[i].at = sync[i].at /\ sync'[i].day = sync[i].day
    BY <2>1, <2>2 DEF Syncing
  <2>4. \A i \in Syncing : i \in Syncs
    BY DEF Syncing
  <2> QED
    BY <2>1, <2>3, <2>4 DEF OutrunInv
<1>5. CASE \/ \E r \in Runs : \/ Discover(r) \/ CommitFlag(r) \/ CrashRun(r)
                              \/ \E p \in People : Examine(r, p)
           \/ \E p \in People : MovePerson(p) \/ StartOffboarding(p)
           \/ UNCHANGED usageVars
  <2>1. UNCHANGED <<clock, row, sync, outrun>>
    BY <1>5 DEF Discover, CommitFlag, CrashRun, Examine, MovePerson, StartOffboarding, usageVars
  <2> QED
    BY <2>1 DEF OutrunInv, Syncing
<1> QED
  BY <1>1, <1>2, <1>3, <1>4, <1>5 DEF UsageNext

\* However late the answers come, and whatever order the runs finish in: a row that
\* a run has stored no longer changes by the answer of one that asked the vendor
\* before it (analytics-activity.ts:73), because the time is pinned before the wait.
THEOREM NewestAnswersStay == UsageSpec => NewestAnswerStays
<1>1. UsageInit => OutrunInv
  BY DEF UsageInit, OutrunInv, Syncing, Asleep, First
<1>2. UsageInv /\ OutrunInv /\ [UsageNext]_usageVars => OutrunInv'
  BY OutrunKeeps
<1>3. UsageInv /\ OutrunInv /\ [UsageNext]_usageVars =>
        [\A j \in Syncs, p \in People :
           CommitSync(j) /\ p \in outrun[j].persons =>
             row'[p][sync[j].day] = row[p][sync[j].day]]_usageVars
  <2> SUFFICES ASSUME UsageInv, OutrunInv, NEW j \in Syncs, NEW p \in People,
                      CommitSync(j), p \in outrun[j].persons
               PROVE  row'[p][sync[j].day] = row[p][sync[j].day]
    OBVIOUS
  <2>1. sync[j].day \in Days /\ sync[j].at <= row[p][sync[j].day].at
        /\ sync[j].at \in Int /\ row[p][sync[j].day].at \in Int
    BY TimesTyped DEF OutrunInv
  <2>2. ~Newer(row[p][sync[j].day], sync[j].at)
    BY <2>1 DEF Newer
  <2> QED
    BY <2>1, <2>2 DEF CommitSync
<1> QED
  BY <1>1, <1>2, <1>3, UsageInvariant, PTL DEF UsageSpec, NewestAnswerStays
===============================================================================
