--------------------------- MODULE RemotePoolProofs ---------------------------
(***************************************************************************)
(* The pool of remote compiles: for any number of compiles and servers and *)
(* any budget of drops, losses and changes of the settings, two compiles   *)
(* never drive one server, no compile is lost or tracked twice, none       *)
(* waits while the matcher sleeps, and a requested cancel wins.            *)
(***************************************************************************)
EXTENDS RemotePool, TLAPS, WellFoundedInduction, SequenceTheorems, FiniteSetTheorems

-----------------------------------------------------------------------------
(* Sequences without repetition.  Every set of naturals has a least element, *)
(* which stands in for induction.                                            *)

LEMMA LeastNat ==
    ASSUME NEW T \in SUBSET Nat, T # {}
    PROVE  \E n \in T : \A m \in T : n <= m
<1>1. IsWellFoundedOn(OpToRel(<, Nat), Nat)
  BY NatLessThanWellFounded
<1>2. PICK n \in T : \A m \in T : <<m, n>> \notin OpToRel(<, Nat)
  <2> HIDE DEF OpToRel
  <2>1. QED
    BY <1>1, WFMin
<1>3. ASSUME NEW m \in T
      PROVE  n <= m
  <2>1. m \in Nat /\ n \in Nat
    OBVIOUS
  <2>2. ~(m < n)
    BY <1>2, <2>1 DEF OpToRel
  <2>3. QED
    BY <2>1, <2>2
<1>4. QED
  BY <1>3

Among(q, j) == \E i \in 1..Len(q) : q[i] = j
Once(q)     == \A i, k \in 1..Len(q) : q[i] = q[k] => i = k

LEMMA AppendOnce ==
    ASSUME NEW S, NEW q \in Seq(S), NEW j \in S, Once(q), ~Among(q, j)
    PROVE  /\ Append(q, j) \in Seq(S) /\ Once(Append(q, j)) /\ Append(q, j) # <<>>
           /\ \A k : Among(Append(q, j), k) <=> Among(q, k) \/ k = j
<1> DEFINE r == Append(q, j)
<1>1. /\ r \in Seq(S) /\ Len(r) = Len(q) + 1 /\ r[Len(q) + 1] = j /\ Len(q) \in Nat
      /\ \A i \in 1..Len(q) : r[i] = q[i]
  OBVIOUS
<1> HIDE DEF r
<1>2. Once(r)
  <2>1. \A i \in 1..Len(r) : i \in 1..Len(q) \/ i = Len(q) + 1
    BY <1>1
  <2>2. \A i \in 1..Len(q) : r[i] = q[i] /\ r[i] # j
    BY <1>1 DEF Among
  <2>3. QED
    BY <1>1, <2>1, <2>2 DEF Once
<1>3. \A k : Among(r, k) <=> Among(q, k) \/ k = j
  BY <1>1 DEF Among
<1>4. r # <<>>
  BY <1>1
<1>5. QED
  BY <1>1, <1>2, <1>3, <1>4 DEF r

LEMMA TailOnce ==
    ASSUME NEW S, NEW q \in Seq(S), Once(q), q # <<>>
    PROVE  /\ Tail(q) \in Seq(S) /\ Once(Tail(q)) /\ Head(q) \in S /\ Among(q, Head(q))
           /\ \A k : Among(Tail(q), k) <=> Among(q, k) /\ k # Head(q)
<1> DEFINE r == Tail(q)
<1>1. /\ r \in Seq(S) /\ Len(r) = Len(q) - 1 /\ Len(q) \in Nat /\ Len(q) > 0 /\ Head(q) = q[1] /\ Head(q) \in S
      /\ \A i \in 1..Len(r) : r[i] = q[i + 1]
  OBVIOUS
<1> HIDE DEF r
<1>2. Once(r)
  BY <1>1 DEF Once
<1>3. Among(q, Head(q))
  BY <1>1 DEF Among
<1>4. ASSUME NEW k
      PROVE  Among(r, k) <=> Among(q, k) /\ k # Head(q)
  <2>1. ASSUME Among(r, k) PROVE Among(q, k) /\ k # Head(q)
    <3>1. PICK i \in 1..Len(r) : r[i] = k
      BY <2>1 DEF Among
    <3>2. i + 1 \in 1..Len(q) /\ q[i + 1] = k /\ i + 1 # 1 /\ 1 \in 1..Len(q)
      BY <1>1, <3>1
    <3>3. QED
      BY <1>1, <3>2 DEF Among, Once
  <2>2. ASSUME Among(q, k), k # Head(q) PROVE Among(r, k)
    <3>1. PICK i \in 1..Len(q) : q[i] = k
      BY <2>2 DEF Among
    <3>2. i # 1 /\ i - 1 \in 1..Len(r) /\ r[i - 1] = k
      BY <1>1, <2>2, <3>1
    <3>3. QED
      BY <3>2 DEF Among
  <2>3. QED
    BY <2>1, <2>2
<1>5. QED
  BY <1>1, <1>2, <1>3, <1>4 DEF r

LEMMA RemoveOnce ==
    ASSUME NEW S, NEW q \in Seq(S), Once(q), NEW j
    PROVE  /\ RemoveFirst(q, j) \in Seq(S) /\ Once(RemoveFirst(q, j))
           /\ \A k : Among(RemoveFirst(q, j), k) <=> Among(q, k) /\ k # j
<1>1. CASE ~Among(q, j)
  <2>1. RemoveFirst(q, j) = q
    BY <1>1 DEF RemoveFirst, Among
  <2>2. QED
    BY <1>1, <2>1
<1>2. CASE Among(q, j)
  <2> DEFINE I == {i \in 1..Len(q) : q[i] = j}
             m == Min(I)
             r == RemoveAt(q, m)
  <2>1. RemoveFirst(q, j) = r
    BY <1>2 DEF RemoveFirst, SelectInSeq, Among
  <2>2. m \in 1..Len(q) /\ q[m] = j
    <3>1. I \in SUBSET Nat /\ I # {}
      BY <1>2 DEF Among
    <3>2. \E n \in I : \A i \in I : n <= i
      BY <3>1, LeastNat
    <3>3. m \in I
      BY <3>2 DEF Min
    <3>4. QED
      BY <3>3
  <2> HIDE DEF m
  <2>3. /\ r \in Seq(S) /\ Len(r) = Len(q) - 1 /\ Len(q) \in Nat
        /\ \A i \in 1..Len(r) : r[i] = IF i < m THEN q[i] ELSE q[i + 1]
    <3> DEFINE a == SubSeq(q, 1, m - 1)
               b == SubSeq(q, m + 1, Len(q))
    <3>1. a \in Seq(S) /\ Len(a) = m - 1 /\ \A i \in 1..m - 1 : a[i] = q[i]
      BY <2>2
    <3>2. b \in Seq(S) /\ Len(b) = Len(q) - m /\ \A i \in 1..Len(q) - m : b[i] = q[m + i]
      BY <2>2
    <3>3. r = a \o b
      BY DEF RemoveAt
    <3> HIDE DEF a, b, r
    <3>4. /\ r \in Seq(S) /\ Len(r) = Len(a) + Len(b)
          /\ \A i \in 1..Len(a) + Len(b) : r[i] = IF i <= Len(a) THEN a[i] ELSE b[i - Len(a)]
      BY <3>1, <3>2, <3>3, ConcatProperties
    <3>5. Len(q) \in Nat /\ Len(a) = m - 1 /\ Len(a) + Len(b) = Len(q) - 1
      BY <2>2, <3>1, <3>2
    <3>6. ASSUME NEW i \in 1..Len(r)
          PROVE  r[i] = IF i < m THEN q[i] ELSE q[i + 1]
      <4>1. i \in 1..Len(q) - 1 /\ r[i] = IF i <= Len(a) THEN a[i] ELSE b[i - Len(a)]
        BY <3>4, <3>5
      <4>2. CASE i < m
        <5>1. i <= Len(a) /\ i \in 1..m - 1
          BY <2>2, <3>5, <4>1, <4>2
        <5>2. QED
          BY <3>1, <4>1, <4>2, <5>1
      <4>3. CASE ~(i < m)
        <5>1. i - Len(a) \in 1..Len(q) - m /\ m + (i - Len(a)) = i + 1 /\ ~(i <= Len(a))
          BY <2>2, <3>5, <4>1, <4>3
        <5>2. b[i - Len(a)] = q[i + 1]
          BY <3>2, <5>1
        <5>3. QED
          BY <4>1, <4>3, <5>1, <5>2
      <4>4. QED
        BY <4>2, <4>3
    <3>7. QED
      BY <3>4, <3>5, <3>6
  <2> HIDE DEF r
  <2>4. Once(r)
    <3>1. \A i \in 1..Len(r) : \E a \in 1..Len(q) : r[i] = q[a] /\ a = IF i < m THEN i ELSE i + 1
      BY <2>2, <2>3
    <3>2. ASSUME NEW i \in 1..Len(r), NEW k \in 1..Len(r), r[i] = r[k]
          PROVE  i = k
      <4>1. PICK a \in 1..Len(q) : r[i] = q[a] /\ a = IF i < m THEN i ELSE i + 1
        BY <3>1
      <4>2. PICK b \in 1..Len(q) : r[k] = q[b] /\ b = IF k < m THEN k ELSE k + 1
        BY <3>1
      <4>3. a = b
        BY <3>2, <4>1, <4>2 DEF Once
      <4>4. QED
        BY <2>2, <4>1, <4>2, <4>3
    <3>3. QED
      BY <3>2 DEF Once
  <2>5. ASSUME NEW k PROVE Among(r, k) <=> Among(q, k) /\ k # j
    <3>1. ASSUME Among(r, k) PROVE Among(q, k) /\ k # j
      <4>1. PICK i \in 1..Len(r) : r[i] = k
        BY <3>1 DEF Among
      <4>2. PICK n \in 1..Len(q) : q[n] = k /\ n # m
        <5>1. CASE i < m
          BY <2>2, <2>3, <4>1, <5>1
        <5>2. CASE ~(i < m)
          <6>1. i + 1 \in 1..Len(q) /\ q[i + 1] = k /\ i + 1 # m
            BY <2>2, <2>3, <4>1, <5>2
          <6>2. QED
            BY <6>1
        <5>3. QED
          BY <5>1, <5>2
      <4>3. QED
        BY <2>2, <4>2 DEF Among, Once
    <3>2. ASSUME Among(q, k), k # j PROVE Among(r, k)
      <4>1. PICK n \in 1..Len(q) : q[n] = k
        BY <3>2 DEF Among
      <4>2. CASE n < m
        BY <2>2, <2>3, <4>1, <4>2 DEF Among
      <4>3. CASE n > m
        <5>1. n - 1 \in 1..Len(r) /\ r[n - 1] = k
          BY <2>2, <2>3, <4>1, <4>3
        <5>2. QED
          BY <5>1 DEF Among
      <4>4. QED
        BY <2>2, <3>2, <4>1, <4>2, <4>3
    <3>3. QED
      BY <3>1, <3>2
  <2>6. QED
    BY <2>1, <2>3, <2>4, <2>5
<1>3. QED
  BY <1>1, <1>2

-----------------------------------------------------------------------------
(* Where the scheduler looks *)

LEMMA OldestIn ==
    ASSUME NEW S \in SUBSET Server, S # {}
    PROVE  Oldest(S) \in S
<1> DEFINE D == {i \in DOMAIN PairedOrder : PairedOrder[i] \in S}
           first(i) == PairedOrder[i] \in S
                       /\ \A k \in DOMAIN PairedOrder : PairedOrder[k] \in S => i <= k
<1>1. D \in SUBSET Nat /\ D # {}
  BY OrderAssumption
<1>2. PICK n \in D : \A m \in D : n <= m
  BY <1>1, LeastNat
<1>3. n \in DOMAIN PairedOrder /\ first(n)
  BY <1>2
<1>4. first(CHOOSE i \in DOMAIN PairedOrder : first(i))
  BY <1>3
<1>5. Oldest(S) = PairedOrder[CHOOSE i \in DOMAIN PairedOrder : first(i)]
  BY DEF Oldest
<1>6. QED
  BY <1>4, <1>5

LEMMA FreePinFree ==
    ASSUME NEW v, Eligible(v) # {}, v.intended \in SUBSET Server
    PROVE  FreePin(v) \in Server /\ FreePin(v) \notin v.busy
<1>1. Eligible(v) \in SUBSET Server /\ Eligible(v) \cap v.busy = {}
  BY DEF Eligible, Fitting
<1>2. CASE Eligible(v) \cap v.idle # {}
  BY <1>1, <1>2, OldestIn DEF FreePin
<1>3. CASE Eligible(v) \cap v.idle = {}
  BY <1>1, <1>3, OldestIn DEF FreePin
<1>4. QED
  BY <1>2, <1>3

\* What a pass finds for the next compile, and that the servers' idle flags have no say in it.
Outlook(pr, ln) == DispatchTarget(BuildView(BusyPins(pr), LaneBusy(ln), {}))

LEMMA OutlookOf ==
    ASSUME NEW busy, NEW busyLane, NEW idle
    PROVE  DispatchTarget(BuildView(busy, busyLane, idle)) = DispatchTarget(BuildView(busy, busyLane, {}))
BY DEF DispatchTarget, BuildView, Eligible, Fitting, BusyEligible, Disconnected

LEMMA RemoteIsEligible ==
    ASSUME NEW v, DispatchTarget(v) = "remote"
    PROVE  Eligible(v) # {}
BY DEF DispatchTarget

LEMMA TargetKinds ==
    ASSUME NEW v
    PROVE  DispatchTarget(v) \in {"remote", "local", "wait", "fail"}
BY DEF DispatchTarget

-----------------------------------------------------------------------------
(* The invariant: where a compile is, what its status says, and how its      *)
(* losses and dispatches are counted.                                        *)

StatusSet == {"none", "queued", "running"} \cup Done
DrvSet == [pc : {"none", "begin", "bundle", "submit", "await", "broken", "fetch", "stage"},
           term : EndFrame \cup {"none"}, lost : BOOLEAN, sent : BOOLEAN]
PoolRec == [pending : Seq(Job), peer : [Job -> Server \cup {NoServer}], losses : [Job -> 0..MaxLoss],
            status : [Job -> StatusSet], drv : [Job -> DrvSet], att : [Job -> 0..MaxLoss + 1],
            lane : Seq(Job), save : BOOLEAN]

\* One compile: in the pool, with a driver, on the lane, with its worker, or nowhere.
PlaceOf(inPool, inLane, here, s, n, l, bound, pc) ==
    /\ bound # NoServer <=> pc # "none"
    /\ inPool => s = "queued" /\ n = l /\ ~inLane
    /\ pc # "none" => s = "running" /\ n = l + 1 /\ ~inLane /\ ~here
    /\ inLane => s \in {"queued", "running", "cancelled"} /\ ~here
    /\ here => s = "running"
    /\ s = "none" => n = 0 /\ l = 0
    /\ s = "queued" => inPool \/ inLane
    /\ s = "running" => pc # "none" \/ inLane \/ here

Alone(pr) == \A j, k \in Job : j # k /\ pr[j] # NoServer => pr[j] # pr[k]

Places(pend, ln, h, st, at, ls, pr, dr) ==
    /\ Once(pend) /\ Once(ln) /\ Alone(pr)
    /\ \A j \in Job : PlaceOf(Among(pend, j), Among(ln, j), h = j, st[j], at[j], ls[j], pr[j], dr[j].pc)

Good(p) == Places(p.pending, p.lane, held, p.status, p.att, p.losses, p.peer, p.drv)

\* A place changes for one compile only.
LEMMA OneMoves ==
    ASSUME NEW pend, NEW ln, NEW h, NEW st, NEW at, NEW ls, NEW pr, NEW dr,
           Places(pend, ln, h, st, at, ls, pr, dr),
           NEW pend2, NEW ln2, NEW h2, NEW st2, NEW at2, NEW ls2, NEW pr2, NEW dr2, NEW j \in Job,
           Once(pend2), Once(ln2),
           \A k \in Job : k # j =>
              /\ Among(pend2, k) <=> Among(pend, k)
              /\ Among(ln2, k) <=> Among(ln, k)
              /\ h2 = k <=> h = k
              /\ st2[k] = st[k] /\ at2[k] = at[k] /\ ls2[k] = ls[k] /\ pr2[k] = pr[k] /\ dr2[k].pc = dr[k].pc,
           PlaceOf(Among(pend2, j), Among(ln2, j), h2 = j, st2[j], at2[j], ls2[j], pr2[j], dr2[j].pc),
           pr2[j] # NoServer => \A k \in Job : k # j => pr[k] # pr2[j]
    PROVE  Places(pend2, ln2, h2, st2, at2, ls2, pr2, dr2)
<1>1. Alone(pr2)
  BY DEF Places, Alone
<1>2. ASSUME NEW k \in Job
      PROVE  PlaceOf(Among(pend2, k), Among(ln2, k), h2 = k, st2[k], at2[k], ls2[k], pr2[k], dr2[k].pc)
  <2>1. CASE k = j
    BY <2>1
  <2>2. CASE k # j
    <3>1. PlaceOf(Among(pend, k), Among(ln, k), h = k, st[k], at[k], ls[k], pr[k], dr[k].pc)
      BY DEF Places
    <3>2. QED
      BY <2>2, <3>1 DEF PlaceOf
  <2>3. QED
    BY <2>1, <2>2
<1>3. QED
  BY <1>1, <1>2 DEF Places

-----------------------------------------------------------------------------
(* One pass of the matcher *)

LEMMA PoolFacts ==
    /\ MaxLoss \in Nat /\ 0 \in 0..MaxLoss
    /\ NoServer \notin Server /\ NoServer \notin Job
BY PoolAssumption, OrderAssumption

LEMMA DroppedRec ==
    ASSUME NEW p \in PoolRec, NEW j \in Job, Once(p.pending)
    PROVE  LET q == Dropped(p, j) IN
             /\ q \in PoolRec
             /\ q.pending = RemoveFirst(p.pending, j) /\ q.losses = [p.losses EXCEPT ![j] = 0]
             /\ q.peer = p.peer /\ q.status = p.status /\ q.drv = p.drv /\ q.att = p.att
             /\ q.lane = p.lane /\ q.save = p.save
<1>1. p.pending \in Seq(Job) /\ p.losses \in [Job -> 0..MaxLoss]
  BY DEF PoolRec
<1>2. RemoveFirst(p.pending, j) \in Seq(Job)
  BY <1>1, RemoveOnce
<1>3. [p.losses EXCEPT ![j] = 0] \in [Job -> 0..MaxLoss]
  BY <1>1, PoolFacts
<1>4. QED
  BY <1>2, <1>3 DEF Dropped, PoolRec

\* From the pool p to the pool q: compile k stays where it is, or leaves the waiting ones.
Alike(p, q, k) ==
    /\ Among(q.pending, k) <=> Among(p.pending, k)
    /\ Among(q.lane, k) <=> Among(p.lane, k)
    /\ q.status[k] = p.status[k] /\ q.peer[k] = p.peer[k] /\ q.att[k] = p.att[k]
    /\ q.drv[k].pc = p.drv[k].pc
Gone(p, q, k) ==
    /\ Among(p.pending, k) /\ ~Among(q.pending, k)
    /\ \/ /\ q.status[k] = "running" /\ q.drv[k].pc = "begin"
          /\ q.peer[k] \in Server /\ q.att[k] = p.att[k] + 1
       \/ /\ q.peer[k] = p.peer[k] /\ q.att[k] = p.att[k] /\ q.drv[k].pc = p.drv[k].pc
          /\ \/ q.status[k] = "queued" /\ Among(q.lane, k)
             \/ q.status[k] = "failed"

\* What one look at a waiting compile makes of the pool.
Looked(p, q, j) ==
    /\ q \in PoolRec /\ Good(q)
    /\ \A k \in Job : k # j => Alike(p, q, k)
    /\ Alike(p, q, j) \/ Gone(p, q, j)
    /\ \/ q = p /\ Outlook(p.peer, p.lane) = "wait"
       \/ q.pending = RemoveFirst(p.pending, j)
    /\ \A k \in Job : p.status[k] # "queued" => q.status[k] = p.status[k]

\* The pool d once compile j is bound to server b, with l losses, for the n-th time.
Bound(d, j, l, b, n) ==
    [d EXCEPT !.losses[j] = l, !.peer[j] = b, !.status[j] = "running", !.drv[j].pc = "begin", !.att[j] = n]

LEMMA BoundRec ==
    ASSUME NEW d \in PoolRec, NEW j \in Job, NEW l \in 0..MaxLoss, NEW b \in Server, NEW n \in 0..MaxLoss + 1
    PROVE  LET q == Bound(d, j, l, b, n) IN
           /\ q \in PoolRec /\ q.pending = d.pending /\ q.lane = d.lane
           /\ \A k \in Job : k # j =>
                /\ q.status[k] = d.status[k] /\ q.att[k] = d.att[k] /\ q.losses[k] = d.losses[k]
                /\ q.peer[k] = d.peer[k] /\ q.drv[k] = d.drv[k]
           /\ q.status[j] = "running" /\ q.att[j] = n /\ q.losses[j] = l /\ q.peer[j] = b /\ q.drv[j].pc = "begin"
<1> DEFINE q == Bound(d, j, l, b, n)
<1> DEFINE e == [d.drv[j] EXCEPT !.pc = "begin"]
           r == [pending |-> d.pending, peer |-> [d.peer EXCEPT ![j] = b], losses |-> [d.losses EXCEPT ![j] = l],
                 status |-> [d.status EXCEPT ![j] = "running"], drv |-> [d.drv EXCEPT ![j] = e],
                 att |-> [d.att EXCEPT ![j] = n], lane |-> d.lane, save |-> d.save]
<1>1. q = r
  <2>1. ASSUME NEW x, x = [d EXCEPT !.losses[j] = l, !.peer[j] = b, !.status[j] = "running", !.drv[j].pc = "begin",
                                    !.att[j] = n]
        PROVE  x = r
    BY <2>1 DEF PoolRec
  <2>2. QED
    BY <2>1 DEF Bound
<1>2. /\ d.status \in [Job -> StatusSet] /\ d.att \in [Job -> 0..MaxLoss + 1]
      /\ d.losses \in [Job -> 0..MaxLoss] /\ d.peer \in [Job -> Server \cup {NoServer}]
      /\ d.drv \in [Job -> DrvSet] /\ d.pending \in Seq(Job) /\ d.lane \in Seq(Job) /\ d.save \in BOOLEAN
  BY DEF PoolRec
<1>3. e \in DrvSet /\ e.pc = "begin"
  <2>1. d.drv[j] \in DrvSet
    BY <1>2
  <2>2. QED
    BY <2>1 DEF DrvSet
<1>4. "running" \in StatusSet
  BY DEF StatusSet
<1> HIDE DEF e
<1>5. /\ r \in PoolRec /\ r.pending = d.pending /\ r.lane = d.lane
      /\ \A k \in Job : k # j =>
           /\ r.status[k] = d.status[k] /\ r.att[k] = d.att[k] /\ r.losses[k] = d.losses[k]
           /\ r.peer[k] = d.peer[k] /\ r.drv[k] = d.drv[k]
      /\ r.status[j] = "running" /\ r.att[j] = n /\ r.losses[j] = l /\ r.peer[j] = b /\ r.drv[j] = e
  BY <1>2, <1>3, <1>4 DEF PoolRec
<1> HIDE DEF r
<1>6. QED
  BY <1>1, <1>3, <1>5

LEMMA LookRemote ==
    ASSUME NEW p \in PoolRec, Good(p), NEW j \in Job, Among(p.pending, j),
           NEW b \in Server, b \notin BusyPins(p.peer),
           NEW q \in PoolRec, q.pending = RemoveFirst(p.pending, j), q.lane = p.lane,
           \A k \in Job : k # j =>
                /\ q.status[k] = p.status[k] /\ q.att[k] = p.att[k] /\ q.losses[k] = p.losses[k]
                /\ q.peer[k] = p.peer[k] /\ q.drv[k] = p.drv[k],
           q.status[j] = "running", q.att[j] = p.att[j] + 1, q.losses[j] = p.losses[j], q.peer[j] = b,
           q.drv[j].pc = "begin"
    PROVE  Looked(p, q, j)
<1>1. /\ Once(p.pending) /\ p.pending \in Seq(Job) /\ Once(p.lane)
      /\ PlaceOf(Among(p.pending, j), Among(p.lane, j), held = j, p.status[j], p.att[j], p.losses[j], p.peer[j],
                 p.drv[j].pc)
      /\ Places(p.pending, p.lane, held, p.status, p.att, p.losses, p.peer, p.drv)
  BY DEF Good, Places, PoolRec
<1>2. p.status[j] = "queued" /\ p.att[j] = p.losses[j] /\ ~Among(p.lane, j) /\ held # j
  BY <1>1 DEF PlaceOf
<1>3. Once(q.pending) /\ \A k : Among(q.pending, k) <=> Among(p.pending, k) /\ k # j
  BY <1>1, RemoveOnce
<1>4. PlaceOf(Among(q.pending, j), Among(q.lane, j), held = j, q.status[j], q.att[j], q.losses[j], q.peer[j],
              q.drv[j].pc)
  BY <1>2, <1>3, PoolFacts DEF PlaceOf
<1>5. \A k \in Job : p.peer[k] # b
  BY PoolFacts DEF BusyPins
<1>6. Good(q)
  BY <1>1, <1>3, <1>4, <1>5, OneMoves DEF Good
<1>7. /\ \A k \in Job : k # j => Alike(p, q, k)
      /\ Gone(p, q, j)
  BY <1>3 DEF Alike, Gone
<1>8. QED
  BY <1>2, <1>6, <1>7 DEF Looked

\* A compile leaves the pool for the lane, or fails.
LEMMA LookLeave ==
    ASSUME NEW p \in PoolRec, Good(p), NEW j \in Job, Among(p.pending, j),
           NEW q \in PoolRec, q.pending = RemoveFirst(p.pending, j), q.att = p.att, q.peer = p.peer, q.drv = p.drv,
           \A k \in Job : k # j => q.status[k] = p.status[k] /\ q.losses[k] = p.losses[k],
           \/ q.lane = Append(p.lane, j) /\ q.status[j] = "queued"
           \/ q.lane = p.lane /\ q.status[j] = "failed"
    PROVE  Looked(p, q, j)
<1>1. /\ Once(p.pending) /\ p.pending \in Seq(Job) /\ Once(p.lane) /\ p.lane \in Seq(Job)
      /\ PlaceOf(Among(p.pending, j), Among(p.lane, j), held = j, p.status[j], p.att[j], p.losses[j], p.peer[j],
                 p.drv[j].pc)
      /\ Places(p.pending, p.lane, held, p.status, p.att, p.losses, p.peer, p.drv)
  BY DEF Good, Places, PoolRec
<1>2. /\ p.status[j] = "queued" /\ ~Among(p.lane, j) /\ held # j /\ p.drv[j].pc = "none" /\ p.peer[j] = NoServer
  BY <1>1 DEF PlaceOf
<1>3. Once(q.pending) /\ \A k : Among(q.pending, k) <=> Among(p.pending, k) /\ k # j
  BY <1>1, RemoveOnce
<1>4. /\ Once(q.lane)
      /\ \A k : k # j => (Among(q.lane, k) <=> Among(p.lane, k))
      /\ Among(q.lane, j) <=> q.status[j] = "queued"
  <2>1. CASE q.lane = Append(p.lane, j) /\ q.status[j] = "queued"
    BY <1>1, <1>2, <2>1, AppendOnce
  <2>2. CASE q.lane = p.lane /\ q.status[j] = "failed"
    BY <1>1, <1>2, <2>2
  <2>3. QED
    BY <2>1, <2>2
<1>5. PlaceOf(Among(q.pending, j), Among(q.lane, j), held = j, q.status[j], q.att[j], q.losses[j], q.peer[j],
              q.drv[j].pc)
  BY <1>2, <1>3, <1>4 DEF PlaceOf
<1>6. Good(q)
  BY <1>1, <1>2, <1>3, <1>4, <1>5, OneMoves DEF Good
<1>7. /\ \A k \in Job : k # j => Alike(p, q, k)
      /\ Gone(p, q, j)
  BY <1>3, <1>4 DEF Alike, Gone
<1>8. QED
  BY <1>2, <1>6, <1>7 DEF Looked

LEMMA DispatchLooks ==
    ASSUME enabled \in SUBSET Server, NEW p \in PoolRec, Good(p), NEW j \in Job, Among(p.pending, j), NEW idle
    PROVE  Looked(p, DispatchOne(idle, p, j), j)
<1> DEFINE v == BuildView(BusyPins(p.peer), LaneBusy(p.lane), idle)
           t == DispatchTarget(v)
           d == Dropped(p, j)
           q == DispatchOne(idle, p, j)
<1>1. Once(p.pending) /\ p.status[j] = "queued" /\ p.att[j] = p.losses[j] /\ p.losses[j] \in 0..MaxLoss
      /\ p.att[j] + 1 \in 0..MaxLoss + 1
  <2>1. PlaceOf(Among(p.pending, j), Among(p.lane, j), held = j, p.status[j], p.att[j], p.losses[j], p.peer[j],
                p.drv[j].pc)
    BY DEF Good, Places
  <2>2. p.status[j] = "queued" /\ p.att[j] = p.losses[j]
    BY <2>1 DEF PlaceOf
  <2>3. p.losses[j] \in 0..MaxLoss
    BY DEF PoolRec
  <2>4. QED
    BY <2>2, <2>3, PoolFacts DEF Good, Places
<1>2. /\ d \in PoolRec
      /\ d.pending = RemoveFirst(p.pending, j) /\ d.losses = [p.losses EXCEPT ![j] = 0]
      /\ d.peer = p.peer /\ d.status = p.status /\ d.drv = p.drv /\ d.att = p.att
      /\ d.lane = p.lane /\ d.save = p.save
  BY <1>1, DroppedRec
<1>3. \A k \in Job : k # j => d.losses[k] = p.losses[k]
  BY <1>2 DEF PoolRec
<1>4. t \in {"remote", "local", "wait", "fail"} /\ t = Outlook(p.peer, p.lane)
  BY TargetKinds, OutlookOf DEF Outlook
<1>5. CASE t = "remote"
  <2>1. FreePin(v) \in Server /\ FreePin(v) \notin BusyPins(p.peer)
    BY <1>5, RemoteIsEligible, FreePinFree DEF BuildView
  <2>2. q = [d EXCEPT !.losses[j] = p.losses[j], !.peer[j] = FreePin(v), !.status[j] = "running",
                      !.drv[j].pc = "begin", !.att[j] = p.att[j] + 1]
    BY <1>1, <1>5 DEF DispatchOne
  <2> DEFINE l == p.losses[j]
             n == p.att[j] + 1
             b == FreePin(v)
  <2> HIDE DEF d, q, v, t
  <2>3a. d \in PoolRec /\ l \in 0..MaxLoss /\ n \in 0..MaxLoss + 1 /\ b \in Server
    BY <1>1, <1>2, <2>1
  <2>3b. q = Bound(d, j, l, b, n)
    BY <2>2 DEF Bound
  <2> HIDE DEF l, n, b
  <2>3. /\ q \in PoolRec /\ q.pending = d.pending /\ q.lane = d.lane
        /\ \A k \in Job : k # j =>
             /\ q.status[k] = d.status[k] /\ q.att[k] = d.att[k] /\ q.losses[k] = d.losses[k]
             /\ q.peer[k] = d.peer[k] /\ q.drv[k] = d.drv[k]
        /\ q.status[j] = "running" /\ q.att[j] = n /\ q.losses[j] = l /\ q.peer[j] = b
        /\ q.drv[j].pc = "begin"
    BY <2>3a, <2>3b, BoundRec
  <2>4. Looked(p, q, j)
    BY <1>2, <1>3, <2>1, <2>3, LookRemote DEF l, n, b
  <2>5. QED
    BY <2>4 DEF q
<1>6. CASE t = "local"
  <2>1. q = [d EXCEPT !.lane = Append(p.lane, j), !.save = TRUE]
    BY <1>1, <1>6 DEF DispatchOne
  <2> HIDE DEF d, q, v, t
  <2>2. Append(p.lane, j) \in Seq(Job)
    BY DEF PoolRec
  <2>3. /\ q \in PoolRec /\ q.pending = d.pending /\ q.lane = Append(p.lane, j) /\ q.status = d.status
        /\ q.att = d.att /\ q.losses = d.losses /\ q.peer = d.peer /\ q.drv = d.drv
    BY <1>2, <2>1, <2>2 DEF PoolRec
  <2>4. Looked(p, q, j)
    BY <1>1, <1>2, <1>3, <2>3, LookLeave
  <2>5. QED
    BY <2>4 DEF q
<1>7. CASE t = "fail"
  <2>1. q = [d EXCEPT !.status[j] = "failed", !.save = TRUE]
    BY <1>1, <1>7 DEF DispatchOne
  <2> HIDE DEF d, q, v, t
  <2>2. [d.status EXCEPT ![j] = "failed"] \in [Job -> StatusSet]
    BY <1>2 DEF PoolRec, StatusSet, Done
  <2>3. /\ q \in PoolRec /\ q.pending = d.pending /\ q.lane = d.lane /\ q.status = [d.status EXCEPT ![j] = "failed"]
        /\ q.att = d.att /\ q.losses = d.losses /\ q.peer = d.peer /\ q.drv = d.drv
    BY <1>2, <2>1, <2>2 DEF PoolRec
  <2>4. q.status[j] = "failed" /\ \A k \in Job : k # j => q.status[k] = p.status[k]
    BY <1>2, <2>3 DEF PoolRec
  <2>5. Looked(p, q, j)
    BY <1>1, <1>2, <1>3, <2>3, <2>4, LookLeave
  <2>6. QED
    BY <2>5 DEF q
<1>8. CASE t = "wait"
  <2>1. q = p
    BY <1>1, <1>8 DEF DispatchOne
  <2>2. QED
    BY <1>4, <1>8, <2>1 DEF Looked, Alike
<1>9. QED
  BY <1>4, <1>5, <1>6, <1>7, <1>8

LEMMA DispatchWaits ==
    ASSUME NEW p, NEW j, NEW idle, p.status[j] = "queued", Outlook(p.peer, p.lane) = "wait"
    PROVE  DispatchOne(idle, p, j) = p
<1>1. DispatchTarget(BuildView(BusyPins(p.peer), LaneBusy(p.lane), idle)) = "wait"
  BY OutlookOf DEF Outlook
<1>2. QED
  BY <1>1 DEF DispatchOne

\* The pass as its successive pools: by least counterexample, they exist up to any length.
PoolsTo(idle, n, h) ==
    \A k \in 0..n : h[k] = IF k = 0 THEN Pool ELSE DispatchOne(idle, h[k - 1], pending[k])

LEMMA PoolsExist ==
    ASSUME NEW idle, NEW n \in Nat
    PROVE  \E h : PoolsTo(idle, n, h)
<1> DEFINE T == {i \in Nat : ~\E h : PoolsTo(idle, i, h)}
<1>1. CASE T = {}
  BY <1>1
<1>2. CASE T # {}
  <2>1. PICK i \in T : \A m \in T : i <= m
    BY <1>2, LeastNat
  <2>2. CASE i = 0
    <3>1. PoolsTo(idle, 0, [k \in {0} |-> Pool])
      BY DEF PoolsTo
    <3>2. QED
      BY <2>1, <2>2, <3>1
  <2>3. CASE i # 0
    <3>1. i - 1 \in Nat /\ i - 1 \notin T
      BY <2>1, <2>3
    <3>2. PICK h : PoolsTo(idle, i - 1, h)
      BY <3>1
    <3> DEFINE g == [k \in 0..i |-> IF k = i THEN DispatchOne(idle, h[i - 1], pending[i]) ELSE h[k]]
    <3>3. PoolsTo(idle, i, g)
      <4>1. ASSUME NEW k \in 0..i
            PROVE  g[k] = IF k = 0 THEN Pool ELSE DispatchOne(idle, g[k - 1], pending[k])
        <5>1. CASE k = i
          <6>1. k # 0 /\ i - 1 \in 0..i /\ i - 1 # i
            BY <2>1, <2>3, <5>1
          <6>2. QED
            BY <5>1, <6>1
        <5>2. CASE k # i
          <6>1. k \in 0..i - 1 /\ (k # 0 => k - 1 \in 0..i /\ k - 1 # i)
            BY <2>1, <5>2
          <6>2. h[k] = IF k = 0 THEN Pool ELSE DispatchOne(idle, h[k - 1], pending[k])
            BY <3>2, <6>1 DEF PoolsTo
          <6>3. QED
            BY <5>2, <6>1, <6>2
        <5>3. QED
          BY <5>1, <5>2
      <4>2. QED
        BY <4>1 DEF PoolsTo
    <3>4. QED
      BY <2>1, <3>3
  <2>4. QED
    BY <2>2, <2>3
<1>3. QED
  BY <1>1, <1>2

LEMMA PassPools ==
    ASSUME pending \in Seq(Job), NEW idle
    PROVE  \E h : PoolsTo(idle, Len(pending), h) /\ PassOver(idle) = h[Len(pending)]
<1> DEFINE n == Len(pending)
           Step(f) == [k \in 0..n |-> IF k = 0 THEN Pool ELSE DispatchOne(idle, f[k - 1], pending[k])]
           after == CHOOSE f : f = Step(f)
<1>1. n \in Nat
  OBVIOUS
<1>2. PICK h : PoolsTo(idle, n, h)
  BY <1>1, PoolsExist
<1> DEFINE g == [k \in 0..n |-> h[k]]
<1>3. g = Step(g)
  <2>1. ASSUME NEW k \in 0..n
        PROVE  h[k] = IF k = 0 THEN Pool ELSE DispatchOne(idle, g[k - 1], pending[k])
    <3>1. k # 0 => k - 1 \in 0..n
      BY <1>1
    <3>2. QED
      BY <1>2, <3>1 DEF PoolsTo
  <2>2. QED
    BY <2>1
<1>4. after = Step(after)
  <2> HIDE DEF Step, g
  <2>1. QED
    BY <1>3
<1>5. PassOver(idle) = after[n]
  BY DEF PassOver
<1>6. PoolsTo(idle, n, after)
  <2> HIDE DEF after
  <2>1. QED
    BY <1>4 DEF PoolsTo
<1>7. QED
  BY <1>5, <1>6

\* The pool p after k looks: the compiles still to look at wait in it, and once one
\* that was looked at waits, all of them do.
Mid(p, k) ==
    /\ p \in PoolRec /\ Good(p)
    /\ \A i \in k + 1..Len(pending) : Among(p.pending, pending[i])
    /\ \A i \in 1..k : Among(p.pending, pending[i]) => Outlook(p.peer, p.lane) = "wait"
    /\ \A j \in Job : Among(p.pending, j) => Among(pending, j)
    /\ \A j \in Job : status[j] # "queued" => p.status[j] = status[j]
    /\ \A j \in Job : Alike(Pool, p, j) \/ Gone(Pool, p, j)

LEMMA MidStep ==
    ASSUME enabled \in SUBSET Server, pending \in Seq(Job), Once(pending), NEW idle,
           NEW k \in 0..Len(pending), k # Len(pending), NEW p, Mid(p, k)
    PROVE  Mid(DispatchOne(idle, p, pending[k + 1]), k + 1)
<1> DEFINE j == pending[k + 1]
           q == DispatchOne(idle, p, j)
<1>1. k + 1 \in 1..Len(pending) /\ j \in Job /\ Len(pending) \in Nat /\ k + 1 \in k + 1..Len(pending)
  OBVIOUS
<1>2. p \in PoolRec /\ Good(p) /\ Among(p.pending, j) /\ Once(p.pending) /\ p.pending \in Seq(Job)
  BY <1>1 DEF Mid, Good, Places, PoolRec
<1>3. Looked(p, q, j)
  BY <1>1, <1>2, DispatchLooks
<1>4. p.status[j] = "queued"
  <2>1. PlaceOf(Among(p.pending, j), Among(p.lane, j), held = j, p.status[j], p.att[j], p.losses[j], p.peer[j],
                p.drv[j].pc)
    BY <1>1, <1>2 DEF Good, Places
  <2>2. QED
    BY <1>2, <2>1 DEF PlaceOf
<1>5. Outlook(p.peer, p.lane) = "wait" => q = p
  BY <1>4, DispatchWaits
<1> HIDE DEF q
<1>6. q \in PoolRec /\ Good(q)
  BY <1>3 DEF Looked
<1>7. \A n \in Job : status[n] # "queued" => q.status[n] = status[n]
  BY <1>3 DEF Looked, Mid
<1>7a. \A n \in Job : Alike(Pool, q, n) \/ Gone(Pool, q, n)
  <2>1. ASSUME NEW n \in Job
        PROVE  Alike(Pool, q, n) \/ Gone(Pool, q, n)
    <3>1. Alike(Pool, p, n) \/ Gone(Pool, p, n)
      BY DEF Mid
    <3>2. CASE n # j
      <4>1. Alike(p, q, n)
        BY <1>3, <3>2 DEF Looked
      <4>2. QED
        BY <3>1, <4>1 DEF Alike, Gone
    <3>3. CASE n = j
      <4>1. Alike(p, q, j) \/ Gone(p, q, j)
        BY <1>3 DEF Looked
      <4>2. Alike(Pool, p, j)
        BY <1>2, <3>1, <3>3 DEF Gone
      <4>3. QED
        BY <3>3, <4>1, <4>2 DEF Alike, Gone
    <3>4. QED
      BY <3>2, <3>3
  <2>2. QED
    BY <2>1
<1>8. \A i \in 1..k + 1 : i \in 1..k \/ i = k + 1
  OBVIOUS
<1>9. \A i \in k + 2..Len(pending) : i \in k + 1..Len(pending) /\ pending[i] # j /\ i \in 1..Len(pending)
  BY <1>1 DEF Once
<1>10. CASE q = p /\ Outlook(p.peer, p.lane) = "wait"
  <2>1. \A i \in k + 2..Len(pending) : Among(q.pending, pending[i])
    BY <1>9, <1>10 DEF Mid
  <2>2. (k + 1) + 1 = k + 2
    OBVIOUS
  <2>3. Mid(q, k + 1)
    BY <1>6, <1>7, <1>7a, <1>10, <2>1, <2>2 DEF Mid
  <2>4. QED
    BY <2>3 DEF q
<1>11. CASE q.pending = RemoveFirst(p.pending, j)
  <2>1. \A n : Among(q.pending, n) <=> Among(p.pending, n) /\ n # j
    BY <1>2, <1>11, RemoveOnce
  <2>2. Outlook(p.peer, p.lane) # "wait"
    BY <1>2, <1>5, <2>1
  <2>3. \A i \in 1..k : ~Among(p.pending, pending[i])
    BY <2>2 DEF Mid
  <2>4. \A i \in 1..k + 1 : ~Among(q.pending, pending[i])
    BY <1>8, <2>1, <2>3
  <2>5. \A i \in k + 2..Len(pending) : Among(q.pending, pending[i])
    BY <1>9, <2>1 DEF Mid
  <2>6. \A n \in Job : Among(q.pending, n) => Among(pending, n)
    BY <2>1 DEF Mid
  <2>7. (k + 1) + 1 = k + 2
    OBVIOUS
  <2>8. Mid(q, k + 1)
    BY <1>6, <1>7, <1>7a, <2>4, <2>5, <2>6, <2>7 DEF Mid
  <2>9. QED
    BY <2>8 DEF q
<1>12. QED
  BY <1>3, <1>10, <1>11 DEF Looked

\* A pass leaves a good pool in which whoever waits has to: the last look holds for all.
LEMMA PassGood ==
    ASSUME enabled \in SUBSET Server, Pool \in PoolRec, Good(Pool), NEW idle
    PROVE  LET p == PassOver(idle) IN
           /\ p \in PoolRec /\ Good(p)
           /\ p.pending # <<>> => Outlook(p.peer, p.lane) = "wait"
           /\ \A j \in Job : status[j] # "queued" => p.status[j] = status[j]
           /\ \A j \in Job : Alike(Pool, p, j) \/ Gone(Pool, p, j)
<1> DEFINE n == Len(pending)
<1>1. pending \in Seq(Job) /\ Once(pending) /\ n \in Nat
  BY DEF PoolRec, Pool, Good, Places
<1>2. PICK h : PoolsTo(idle, n, h) /\ PassOver(idle) = h[n]
  BY <1>1, PassPools
<1> DEFINE T == {k \in 0..n : ~Mid(h[k], k)}
<1>3. h[0] = Pool /\ \A k \in 0..n : k # 0 => h[k] = DispatchOne(idle, h[k - 1], pending[k])
  BY <1>1, <1>2 DEF PoolsTo
<1>4. Mid(Pool, 0)
  <2>1. \A i \in 0 + 1..n : Among(pending, pending[i])
    BY <1>1 DEF Among
  <2>2. \A i \in 1..0 : FALSE
    OBVIOUS
  <2>3. Pool.pending = pending /\ Pool.status = status
    BY DEF Pool
  <2>4. \A j \in Job : Alike(Pool, Pool, j)
    BY DEF Alike
  <2>5. QED
    BY <2>1, <2>2, <2>3, <2>4 DEF Mid
<1>5. T = {}
  <2>1. SUFFICES ASSUME T # {} PROVE FALSE
    OBVIOUS
  <2>2. PICK k \in T : \A m \in T : k <= m
    <3>1. T \in SUBSET Nat
      BY <1>1
    <3>2. QED
      BY <2>1, <3>1, LeastNat
  <2>3. k # 0
    BY <1>3, <1>4, <2>2
  <2>4. k - 1 \in 0..n /\ k - 1 # n /\ k - 1 \notin T /\ (k - 1) + 1 = k /\ k \in 0..n
    BY <1>1, <2>2, <2>3
  <2>5. Mid(h[k - 1], k - 1)
    BY <2>4
  <2>6. Mid(DispatchOne(idle, h[k - 1], pending[k]), k)
    BY <1>1, <2>4, <2>5, MidStep
  <2>7. QED
    BY <1>3, <2>2, <2>3, <2>4, <2>6
<1>6. Mid(h[n], n)
  BY <1>1, <1>5
<1>7. h[n].pending # <<>> => Outlook(h[n].peer, h[n].lane) = "wait"
  <2>1. SUFFICES ASSUME h[n].pending # <<>> PROVE Outlook(h[n].peer, h[n].lane) = "wait"
    OBVIOUS
  <2>2. h[n].pending \in Seq(Job)
    BY <1>6 DEF Mid, PoolRec
  <2>3. Among(h[n].pending, h[n].pending[1]) /\ h[n].pending[1] \in Job
    BY <2>1, <2>2 DEF Among
  <2>4. PICK i \in 1..n : pending[i] = h[n].pending[1]
    BY <1>6, <2>3 DEF Mid, Among
  <2>5. QED
    BY <1>6, <2>3, <2>4 DEF Mid
<1>8. QED
  BY <1>2, <1>6, <1>7 DEF Mid

-----------------------------------------------------------------------------
(* The invariant of the state *)

PoolInv ==
    /\ RPTypeOK
    /\ Places(pending, lane, held, status, att, losses, peer, drv)
    /\ held # NoJob <=> lpc = "run"

\* While the matcher is awake but not called, whoever waits has to.
StrandInv ==
    /\ loop = "grace" => wake \/ pending = <<>>
    /\ loop # "grace" /\ ~wake /\ lpc # "end" /\ pending # <<>> => Outlook(peer, lane) = "wait"

WinsStep ==
    \A j \in Job :
        /\ j \in cancelReq /\ status[j] = "running" => status'[j] \notin {"completed", "failed"}
        /\ status[j] \in Done => status'[j] = status[j]

\* What the step is to CompileDispatch: one of its steps, or nothing.
Follows == [Dispatch!Next]_(Dispatch!vars)

\* What every step owes.
Kept == PoolInv' /\ WinsStep /\ Follows /\ (StrandInv => StrandInv')

LEMMA Typed ==
    ASSUME RPTypeOK
    PROVE  /\ status \in [Job -> StatusSet] /\ drv \in [Job -> DrvSet]
           /\ att \in [Job -> 0..MaxLoss + 1] /\ losses \in [Job -> 0..MaxLoss]
           /\ peer \in [Job -> Server \cup {NoServer}]
           /\ pending \in Seq(Job) /\ lane \in Seq(Job) /\ cancelReq \in SUBSET Job
BY DEF RPTypeOK, StatusSet, DrvSet

LEMMA PlaceHere ==
    ASSUME PoolInv, NEW j \in Job
    PROVE  PlaceOf(Among(pending, j), Among(lane, j), held = j, status[j], att[j], losses[j], peer[j], drv[j].pc)
BY DEF PoolInv, Places

\* Where a compile is kept, read off its place; and the same after a step.
LEMMA WhereNow ==
    ASSUME PoolInv, NEW j \in Job
    PROVE  /\ Whereabouts(j) \in {"out", "pool", "server", "lane", "bench"}
           /\ Whereabouts(j) = "server" <=> drv[j].pc # "none"
           /\ Whereabouts(j) = "bench" <=> held = j
           /\ Whereabouts(j) = "pool" <=> Among(pending, j)
           /\ Whereabouts(j) = "lane" <=> Among(lane, j) /\ status[j] \in {"queued", "running"}
BY PlaceHere DEF Whereabouts, PlaceOf, InFlight, Contains, Among

LEMMA WhereNext ==
    ASSUME PoolInv', NEW j \in Job
    PROVE  /\ Whereabouts(j)' \in {"out", "pool", "server", "lane", "bench"}
           /\ Whereabouts(j)' = "server" <=> drv'[j].pc # "none"
           /\ Whereabouts(j)' = "bench" <=> held' = j
           /\ Whereabouts(j)' = "pool" <=> Among(pending', j)
           /\ Whereabouts(j)' = "lane" <=> Among(lane', j) /\ status'[j] \in {"queued", "running"}
<1>1. PlaceOf(Among(pending, j), Among(lane, j), held = j, status[j], att[j], losses[j], peer[j], drv[j].pc)'
  BY DEF PoolInv, Places
<1>2. QED
  BY <1>1 DEF Whereabouts, PlaceOf, InFlight, Contains, Among

\* The step leaves compile k where it is.
Sits(k) ==
    /\ Among(pending', k) <=> Among(pending, k)
    /\ Among(lane', k) <=> Among(lane, k)
    /\ held' = k <=> held = k
    /\ status'[k] = status[k] /\ (drv'[k].pc # "none" <=> drv[k].pc # "none")

LEMMA SitsStill ==
    ASSUME NEW k, Sits(k)
    PROVE  Whereabouts(k)' = Whereabouts(k)
BY DEF Sits, Whereabouts, InFlight, Contains, Among

LEMMA NothingMoves ==
    ASSUME UNCHANGED <<status, cancelReq, peer, att>>, \A k \in Job : Sits(k)
    PROVE  Follows
<1>1. [j \in Job |-> Whereabouts(j)]' = [j \in Job |-> Whereabouts(j)]
  BY SitsStill
<1>2. QED
  BY <1>1 DEF Follows, Dispatch!vars

\* Only compile j moves.
LEMMA OneGoes ==
    ASSUME PoolInv, PoolInv', NEW j \in Job, peer'[j] = NoServer, att' = att,
           \A k \in Job : k # j => Sits(k) /\ peer'[k] = peer[k]
    PROVE  Dispatch!Moves(j, status'[j], Whereabouts(j)')
<1>1. /\ status \in [Job -> StatusSet] /\ peer \in [Job -> Server \cup {NoServer}]
      /\ status' \in [Job -> StatusSet] /\ peer' \in [Job -> Server \cup {NoServer}]
  BY DEF PoolInv, RPTypeOK, StatusSet
<1>2. status' = [status EXCEPT ![j] = status'[j]] /\ peer' = [peer EXCEPT ![j] = NoServer]
  BY <1>1 DEF Sits
<1>3. [k \in Job |-> Whereabouts(k)]' = [[k \in Job |-> Whereabouts(k)] EXCEPT ![j] = Whereabouts(j)']
  BY SitsStill
<1>4. QED
  BY <1>2, <1>3 DEF Dispatch!Moves

\* Woken, the matcher owes nothing yet.
LEMMA WokenKeeps ==
    ASSUME wake' \/ pending' = <<>>
    PROVE  StrandInv'
BY DEF StrandInv

\* Not woken, what it last saw still stands: the lane may fill but not empty.
LEMMA QuietKeeps ==
    ASSUME StrandInv, wake' = wake, pending' = pending, peer' = peer,
           loop' = loop \/ (loop = "grace" /\ loop' = "wait") \/ (loop = "save" /\ loop' = "wait"),
           lpc' = "end" \/ lpc # "end",
           on' = on, exact' = exact, share' = share, enabled' = enabled,
           \A s \in Server : link'[s] # "down" <=> link[s] # "down",
           lpc' = "end" \/ (LaneBusy(lane) => LaneBusy(lane)')
    PROVE  StrandInv'
<1>1. SUFFICES ASSUME ~wake', pending' # <<>>, loop' # "grace", lpc' # "end"
               PROVE  Outlook(peer, lane)' = "wait"
  BY DEF StrandInv
<1>2. Outlook(peer, lane) = "wait"
  BY <1>1 DEF StrandInv
<1>3. {s \in Server : link'[s] # "down"} = {s \in Server : link[s] # "down"}
  OBVIOUS
<1>4. BusyPins(peer)' = BusyPins(peer)
  BY DEF BusyPins
<1>5. QED
  BY <1>1, <1>2, <1>3, <1>4
  DEF Outlook, DispatchTarget, BuildView, Eligible, Fitting, BusyEligible, Disconnected

\* One compile moves.
LEMMA JobMoves ==
    ASSUME PoolInv, RPTypeOK', (held # NoJob <=> lpc = "run")', NEW j \in Job,
           Once(pending'), Once(lane'),
           \A k \in Job : k # j =>
              /\ Among(pending', k) <=> Among(pending, k)
              /\ Among(lane', k) <=> Among(lane, k)
              /\ held' = k <=> held = k
              /\ status'[k] = status[k] /\ att'[k] = att[k] /\ losses'[k] = losses[k]
              /\ peer'[k] = peer[k] /\ drv'[k].pc = drv[k].pc,
           PlaceOf(Among(pending, j), Among(lane, j), held = j, status[j], att[j], losses[j], peer[j], drv[j].pc)',
           peer'[j] \in {NoServer, peer[j]}
    PROVE  PoolInv'
<1>1. peer'[j] # NoServer => \A k \in Job : k # j => peer[k] # peer'[j]
  BY DEF PoolInv, Places, Alone
<1>2. Places(pending', lane', held', status', att', losses', peer', drv')
  BY <1>1, OneMoves DEF PoolInv
<1>3. QED
  BY <1>2 DEF PoolInv

\* Drivers move on, and frames and links with them; every compile stays where it is.
LEMMA DriversMove ==
    ASSUME PoolInv,
           UNCHANGED <<status, cancelReq, asked, pending, peer, losses, loop, att, laneVars, setVars>>,
           wake' = wake \/ wake' = TRUE, drops' \in Nat,
           link' \in [Server -> {"up", "closing", "down"}],
           wake' = TRUE \/ \A s \in Server : link'[s] # "down" <=> link[s] # "down",
           drv' \in [Job -> DrvSet],
           \A k \in Job : drv'[k].pc # "none" <=> drv[k].pc # "none"
    PROVE  Kept
<1>1. RPTypeOK'
  BY DEF PoolInv, RPTypeOK, DrvSet, laneVars, setVars
<1>2. Places(pending, lane, held, status, att, losses, peer, drv)'
  <2>1. \A k \in Job :
           PlaceOf(Among(pending, k), Among(lane, k), held = k, status[k], att[k], losses[k], peer[k], drv[k].pc)'
    BY PlaceHere DEF PlaceOf, laneVars
  <2>2. QED
    BY <2>1 DEF PoolInv, Places, laneVars
<1>3. WinsStep
  BY DEF WinsStep, Done
<1>4. StrandInv => StrandInv'
  <2>1. CASE wake' = TRUE
    BY <2>1, WokenKeeps
  <2>2. CASE wake' # TRUE
    <3>1. LaneBusy(lane) => LaneBusy(lane)'
      BY DEF LaneBusy, laneVars
    <3>2. lpc' = "end" \/ lpc # "end"
      BY DEF laneVars
    <3>3. QED
      BY <2>2, <3>1, <3>2, QuietKeeps DEF setVars
  <2>3. QED
    BY <2>1, <2>2
<1>5. Follows
  <2>1. \A k \in Job : Sits(k)
    BY DEF Sits, laneVars
  <2>2. QED
    BY <2>1, NothingMoves
<1>6. QED
  BY <1>1, <1>2, <1>3, <1>4, <1>5 DEF Kept, PoolInv, laneVars

Pcs == {"begin", "bundle", "submit", "await", "broken", "fetch", "stage"}

\* A driver's next await.
LEMMA GoesOn ==
    ASSUME PoolInv, NEW j, NEW pc \in Pcs, Goes(j, pc), j \in Job => InFlight(j),
           Waits, UNCHANGED <<link, drops>>
    PROVE  Kept
<1>1. drv \in [Job -> DrvSet]
  BY Typed DEF PoolInv
<1>2. drv' \in [Job -> DrvSet] /\ \A k \in Job : drv'[k].pc # "none" <=> drv[k].pc # "none"
  <2>1. ASSUME NEW d \in DrvSet
        PROVE  [d EXCEPT !.pc = pc] \in DrvSet /\ [d EXCEPT !.pc = pc].pc = pc
    BY DEF DrvSet, Pcs
  <2>2. CASE j \in Job
    <3>1. drv[j] \in DrvSet
      BY <1>1, <2>2
    <3> DEFINE e == [drv[j] EXCEPT !.pc = pc]
    <3>2. e \in DrvSet /\ e.pc = pc
      BY <2>1, <3>1
    <3>3. drv' = [drv EXCEPT ![j] = e]
      BY DEF Goes
    <3> HIDE DEF e
    <3>4. QED
      BY <1>1, <2>2, <3>2, <3>3 DEF InFlight, Pcs
  <2>3. CASE j \notin Job
    BY <1>1, <2>3 DEF Goes
  <2>4. QED
    BY <2>2, <2>3
<1>3. drops' \in Nat /\ link' \in [Server -> {"up", "closing", "down"}]
  BY DEF PoolInv, RPTypeOK
<1>4. QED
  BY <1>2, <1>3, DriversMove DEF Waits, poolVars, jobVars

\* A driver ends: its compile has a terminal status and no place any more.
LEMMA Finishes ==
    ASSUME PoolInv, NEW j \in Job, InFlight(j), NEW st \in Done, Finish(j, st),
           st = "cancelled" \/ j \notin cancelReq, UNCHANGED <<link, drops>>
    PROVE  Kept
<1>1. /\ UNCHANGED <<asked, pending, loop, att, lane, lpc, held, on, exact, share, enabled, toggles>>
      /\ wake' = TRUE
      /\ status' = [status EXCEPT ![j] = st] /\ losses' = [losses EXCEPT ![j] = 0]
      /\ peer' = [peer EXCEPT ![j] = NoServer] /\ drv' = [drv EXCEPT ![j] = NoDrv]
      /\ cancelReq' \in SUBSET cancelReq
  BY DEF Finish, Release, laneVars, setVars
<1>2. /\ NoDrv \in DrvSet /\ NoDrv.pc = "none" /\ st \in StatusSet /\ st \notin {"none", "queued", "running"}
  BY DEF NoDrv, DrvSet, StatusSet, Done
<1>3. PlaceOf(Among(pending, j), Among(lane, j), held = j, status[j], att[j], losses[j], peer[j], drv[j].pc)
  BY PlaceHere
<1>4. status[j] = "running" /\ ~Among(pending, j) /\ ~Among(lane, j) /\ held # j
  BY <1>3 DEF PlaceOf, InFlight
<1>5. /\ status \in [Job -> StatusSet] /\ drv \in [Job -> DrvSet] /\ losses \in [Job -> 0..MaxLoss]
      /\ peer \in [Job -> Server \cup {NoServer}]
  BY Typed DEF PoolInv
<1>6. /\ status' \in [Job -> StatusSet] /\ drv' \in [Job -> DrvSet] /\ losses' \in [Job -> 0..MaxLoss]
      /\ peer' \in [Job -> Server \cup {NoServer}]
  BY <1>1, <1>2, <1>5, PoolFacts
<1>7. RPTypeOK'
  BY <1>1, <1>6 DEF PoolInv, RPTypeOK, DrvSet, StatusSet
<1>8. /\ status'[j] = st /\ losses'[j] = 0 /\ peer'[j] = NoServer /\ drv'[j] = NoDrv
      /\ \A k \in Job : k # j =>
           status'[k] = status[k] /\ losses'[k] = losses[k] /\ peer'[k] = peer[k] /\ drv'[k] = drv[k]
  BY <1>1, <1>5
<1>9. PlaceOf(Among(pending, j), Among(lane, j), held = j, status[j], att[j], losses[j], peer[j], drv[j].pc)'
  BY <1>1, <1>2, <1>4, <1>8 DEF PlaceOf
<1>10. PoolInv'
  <2>1. Once(pending') /\ Once(lane') /\ (held # NoJob <=> lpc = "run")'
    BY <1>1 DEF PoolInv, Places
  <2>2. QED
    BY <1>1, <1>7, <1>8, <1>9, <2>1, JobMoves
<1>11. WinsStep
  BY <1>4, <1>8 DEF WinsStep, Done
<1>12. Follows
  <2>1. \A k \in Job : k # j => Sits(k) /\ peer'[k] = peer[k]
    BY <1>1, <1>8 DEF Sits
  <2>2. Dispatch!Moves(j, st, Whereabouts(j)')
    BY <1>1, <1>8, <1>10, <2>1, OneGoes
  <2>3. Whereabouts(j)' = "out"
    BY <1>2, <1>8 DEF Whereabouts, InFlight
  <2>4. Whereabouts(j) = "server" /\ st \in Dispatch!Over
    BY WhereNow DEF InFlight, Done, Dispatch!Over
  <2>5. cancelReq' = cancelReq \ {j}
    BY DEF Finish
  <2>6. Dispatch!End(j, st)
    BY <2>2, <2>3, <2>4, <2>5 DEF Dispatch!End
  <2>7. QED
    BY <2>4, <2>6 DEF Follows, Dispatch!Next
<1>13. QED
  BY <1>1, <1>10, <1>11, <1>12, WokenKeeps DEF Kept

LEMMA FailsLocally ==
    ASSUME PoolInv, NEW j \in Job, InFlight(j), FailLocally(j), UNCHANGED <<link, drops>>
    PROVE  Kept
<1>1. CASE j \in cancelReq
  <2>1. Finish(j, "cancelled") /\ "cancelled" \in Done
    BY <1>1 DEF FailLocally, Done
  <2>2. QED
    BY <2>1, Finishes
<1>2. CASE j \notin cancelReq
  <2>1. Finish(j, "failed") /\ "failed" \in Done
    BY <1>2 DEF FailLocally, Done
  <2>2. QED
    BY <1>2, <2>1, Finishes
<1>3. QED
  BY <1>1, <1>2

-----------------------------------------------------------------------------
(* The actions *)

LEMMA ServerStepQuiet ==
    ASSUME NEW s, ServerStep(s)
    PROVE  UNCHANGED <<link, drops>>
BY DEF ServerStep, ReceiveSubmit, ReceiveCancel, ReceiveFetch, ExtractCancelled, ExtractFails, ExtractDone,
       Handoff, ServerTake, ServerEnd

LEMMA SubmitKeeps ==
    ASSUME PoolInv, NEW j \in Job, Submit(j)
    PROVE  Kept
<1>1. /\ status[j] = "none" /\ status' = [status EXCEPT ![j] = "queued"]
      /\ UNCHANGED <<link, drops, cancelReq, asked, peer, losses, loop, drv, att, lpc, held,
                     on, exact, share, enabled, toggles>>
      /\ \/ pending' = Append(pending, j) /\ wake' = TRUE /\ lane' = lane
         \/ lane' = Append(lane, j) /\ pending' = pending /\ wake' = wake
  BY DEF Submit, serverVars, drvVars, setVars
<1>2. /\ ~Among(pending, j) /\ ~Among(lane, j) /\ held # j /\ drv[j].pc = "none" /\ peer[j] = NoServer
      /\ att[j] = 0 /\ losses[j] = 0
  BY <1>1, PlaceHere DEF PlaceOf
<1>3. /\ status \in [Job -> StatusSet] /\ pending \in Seq(Job) /\ lane \in Seq(Job)
      /\ Once(pending) /\ Once(lane) /\ "queued" \in StatusSet
  BY Typed DEF PoolInv, Places, StatusSet
<1>4. status' \in [Job -> StatusSet] /\ status'[j] = "queued" /\ \A k \in Job : k # j => status'[k] = status[k]
  BY <1>1, <1>3
<1>5. /\ pending' \in Seq(Job) /\ Once(pending') /\ lane' \in Seq(Job) /\ Once(lane')
      /\ \A k : k # j => (Among(pending', k) <=> Among(pending, k)) /\ (Among(lane', k) <=> Among(lane, k))
      /\ \/ Among(pending', j) /\ ~Among(lane', j)
         \/ Among(lane', j) /\ ~Among(pending', j)
  <2>1. CASE pending' = Append(pending, j) /\ lane' = lane
    BY <1>2, <1>3, <2>1, AppendOnce
  <2>2. CASE lane' = Append(lane, j) /\ pending' = pending
    BY <1>2, <1>3, <2>2, AppendOnce
  <2>3. QED
    BY <1>1, <2>1, <2>2
<1>6. RPTypeOK'
  <2>1. wake' \in BOOLEAN
    BY <1>1 DEF PoolInv, RPTypeOK
  <2>2. QED
    BY <1>1, <1>4, <1>5, <2>1 DEF PoolInv, RPTypeOK, StatusSet
<1>7. PlaceOf(Among(pending, j), Among(lane, j), held = j, status[j], att[j], losses[j], peer[j], drv[j].pc)'
  BY <1>1, <1>2, <1>4, <1>5 DEF PlaceOf
<1>8. PoolInv'
  <2>1. (held # NoJob <=> lpc = "run")'
    BY <1>1 DEF PoolInv
  <2>2. QED
    BY <1>1, <1>4, <1>5, <1>6, <1>7, <2>1, JobMoves
<1>9. WinsStep
  BY <1>1, <1>4 DEF WinsStep, Done
<1>10. StrandInv => StrandInv'
  <2>1. CASE wake' = TRUE
    BY <2>1, WokenKeeps
  <2>2. CASE lane' = Append(lane, j) /\ pending' = pending /\ wake' = wake
    <3>1. lane' # <<>>
      BY <1>3, <2>2
    <3>2. LaneBusy(lane)'
      BY <3>1 DEF LaneBusy
    <3>3. QED
      BY <1>1, <2>2, <3>2, QuietKeeps
  <2>3. QED
    BY <1>1, <2>1, <2>2
<1>11. Follows
  <2>1. \A k \in Job : k # j => Sits(k) /\ peer'[k] = peer[k]
    BY <1>1, <1>4, <1>5 DEF Sits
  <2>2. Dispatch!Moves(j, "queued", Whereabouts(j)')
    BY <1>1, <1>2, <1>4, <1>8, <2>1, OneGoes
  <2>3. Whereabouts(j)' \in {"pool", "lane"}
    BY <1>4, <1>5, <1>8, WhereNext
  <2>4. Dispatch!Submit(j)
    BY <1>1, <2>2, <2>3 DEF Dispatch!Submit
  <2>5. QED
    BY <2>4 DEF Follows, Dispatch!Next
<1>12. QED
  BY <1>8, <1>9, <1>10, <1>11 DEF Kept

LEMMA CancelQueuedKeeps ==
    ASSUME PoolInv, NEW j \in Job, CancelQueued(j)
    PROVE  Kept
<1>1. /\ status[j] = "queued" /\ status' = [status EXCEPT ![j] = "cancelled"]
      /\ losses' = [losses EXCEPT ![j] = 0] /\ pending' = RemoveFirst(pending, j) /\ wake' = TRUE
      /\ asked' = asked \cup {j}
      /\ UNCHANGED <<link, drops, cancelReq, peer, loop, drv, att, lane, lpc, held,
                     on, exact, share, enabled, toggles>>
  BY DEF CancelQueued, serverVars, drvVars, laneVars, setVars
<1>2. drv[j].pc = "none" /\ peer[j] = NoServer /\ held # j
  BY <1>1, PlaceHere DEF PlaceOf
<1>3. /\ status \in [Job -> StatusSet] /\ pending \in Seq(Job) /\ losses \in [Job -> 0..MaxLoss]
      /\ Once(pending) /\ Once(lane) /\ "cancelled" \in StatusSet
  BY Typed DEF PoolInv, Places, StatusSet, Done
<1>4. /\ status' \in [Job -> StatusSet] /\ losses' \in [Job -> 0..MaxLoss]
      /\ status'[j] = "cancelled" /\ losses'[j] = 0
      /\ \A k \in Job : k # j => status'[k] = status[k] /\ losses'[k] = losses[k]
  BY <1>1, <1>3, PoolFacts
<1>5. /\ pending' \in Seq(Job) /\ Once(pending')
      /\ \A k : Among(pending', k) <=> Among(pending, k) /\ k # j
  BY <1>1, <1>3, RemoveOnce
<1>6. RPTypeOK'
  BY <1>1, <1>4, <1>5 DEF PoolInv, RPTypeOK, StatusSet
<1>7. PlaceOf(Among(pending, j), Among(lane, j), held = j, status[j], att[j], losses[j], peer[j], drv[j].pc)'
  BY <1>1, <1>2, <1>4, <1>5, PlaceHere DEF PlaceOf
<1>8. PoolInv'
  <2>1. Once(lane') /\ (held # NoJob <=> lpc = "run")'
    BY <1>1, <1>3 DEF PoolInv
  <2>2. QED
    BY <1>1, <1>4, <1>5, <1>6, <1>7, <2>1, JobMoves
<1>9. WinsStep
  BY <1>1, <1>4 DEF WinsStep, Done
<1>10. Follows
  <2>1. \A k \in Job : k # j => Sits(k) /\ peer'[k] = peer[k]
    BY <1>1, <1>4, <1>5 DEF Sits
  <2>2. Dispatch!Moves(j, "cancelled", Whereabouts(j)')
    BY <1>1, <1>2, <1>4, <1>8, <2>1, OneGoes
  <2>3. Whereabouts(j)' = "out"
    BY <1>4 DEF Whereabouts, InFlight
  <2>4. Dispatch!Withdraw(j)
    BY <1>1, <2>2, <2>3 DEF Dispatch!Withdraw
  <2>5. QED
    BY <2>4 DEF Follows, Dispatch!Next
<1>11. QED
  BY <1>1, <1>8, <1>9, <1>10, WokenKeeps DEF Kept

LEMMA CancelRunningKeeps ==
    ASSUME PoolInv, NEW j \in Job, CancelRunning(j)
    PROVE  Kept
<1>1. /\ cancelReq' = cancelReq \cup {j} /\ asked' = asked \cup {j}
      /\ UNCHANGED <<link, drops, status, pending, peer, losses, wake, loop, drv, att, lane, lpc, held,
                     on, exact, share, enabled, toggles>>
  BY DEF CancelRunning, serverVars, poolVars, drvVars, laneVars, setVars
<1>2. RPTypeOK'
  BY <1>1 DEF PoolInv, RPTypeOK
<1>3. PoolInv'
  BY <1>1, <1>2 DEF PoolInv
<1>4. WinsStep
  BY <1>1 DEF WinsStep, Done
<1>5. LaneBusy(lane) => LaneBusy(lane)'
  BY <1>1 DEF LaneBusy
<1>6. StrandInv => StrandInv'
  BY <1>1, <1>5, QuietKeeps
<1>7. Follows
  <2>1. \A k \in Job : Sits(k)
    BY <1>1 DEF Sits
  <2>2. [k \in Job |-> Whereabouts(k)]' = [k \in Job |-> Whereabouts(k)]
    BY <2>1, SitsStill
  <2>3. Whereabouts(j) \in {"server", "bench"} /\ j \notin cancelReq
    BY WhereNow DEF CancelRunning, InFlight
  <2>4. Dispatch!Ask(j)
    BY <1>1, <2>2, <2>3 DEF Dispatch!Ask
  <2>5. QED
    BY <2>4 DEF Follows, Dispatch!Next
<1>8. QED
  BY <1>3, <1>4, <1>6, <1>7 DEF Kept

\* The matcher's loop between its passes.
LEMMA LoopKeeps ==
    ASSUME PoolInv, GraceOver \/ PassSaved
    PROVE  Kept
<1>1. /\ (loop = "grace" /\ loop' = "wait") \/ (loop = "save" /\ loop' = "wait")
      /\ UNCHANGED <<link, drops, status, cancelReq, asked, pending, peer, losses, wake, drv, att, lane, lpc, held,
                     on, exact, share, enabled, toggles>>
  BY DEF GraceOver, PassSaved, serverVars, jobVars, drvVars, laneVars, setVars
<1>2. RPTypeOK'
  BY <1>1 DEF PoolInv, RPTypeOK
<1>3. PoolInv'
  BY <1>1, <1>2 DEF PoolInv
<1>4. WinsStep
  BY <1>1 DEF WinsStep, Done
<1>5. LaneBusy(lane) => LaneBusy(lane)'
  BY <1>1 DEF LaneBusy
<1>6. StrandInv => StrandInv'
  BY <1>1, <1>5, QuietKeeps
<1>7. Follows
  <2>1. \A k \in Job : Sits(k)
    BY <1>1 DEF Sits
  <2>2. QED
    BY <1>1, <2>1, NothingMoves
<1>8. QED
  BY <1>3, <1>4, <1>6, <1>7 DEF Kept

LEMMA PassKeeps ==
    ASSUME PoolInv, Pass
    PROVE  Kept
<1>1. PICK idle \in SUBSET Server :
        LET p == PassOver(idle) IN
        /\ pending' = p.pending /\ peer' = p.peer /\ losses' = p.losses
        /\ status' = p.status /\ drv' = p.drv /\ att' = p.att /\ lane' = p.lane
        /\ loop' \in {"save", "wait"}
  BY DEF Pass
<1> DEFINE p == PassOver(idle)
<1>2. UNCHANGED <<link, drops, cancelReq, asked, lpc, held, on, exact, share, enabled, toggles>> /\ wake' = FALSE
  BY DEF Pass, serverVars, setVars
<1>3. enabled \in SUBSET Server /\ Pool \in PoolRec /\ Good(Pool)
  <2>1. Pool \in PoolRec
    BY Typed DEF PoolInv, Pool, PoolRec
  <2>2. Good(Pool)
    BY DEF PoolInv, Good, Pool
  <2>3. QED
    BY <2>1, <2>2 DEF PoolInv, RPTypeOK
<1>4. /\ p \in PoolRec /\ Good(p)
      /\ p.pending # <<>> => Outlook(p.peer, p.lane) = "wait"
      /\ \A j \in Job : status[j] # "queued" => p.status[j] = status[j]
      /\ \A j \in Job : Alike(Pool, p, j) \/ Gone(Pool, p, j)
  BY <1>3, PassGood
<1> HIDE DEF p
<1>5. /\ pending' = p.pending /\ peer' = p.peer /\ losses' = p.losses
      /\ status' = p.status /\ drv' = p.drv /\ att' = p.att /\ lane' = p.lane
      /\ loop' \in {"save", "wait"}
  BY <1>1 DEF p
<1>6. RPTypeOK'
  BY <1>2, <1>4, <1>5 DEF PoolInv, RPTypeOK, PoolRec, DrvSet, StatusSet
<1>7. Places(pending, lane, held, status, att, losses, peer, drv)'
  <2>1. Places(pending', lane', held, status', att', losses', peer', drv')
    BY <1>4, <1>5 DEF Good
  <2>2. QED
    BY <1>2, <2>1
<1>8. PoolInv'
  BY <1>2, <1>6, <1>7 DEF PoolInv
<1>9. WinsStep
  BY <1>4, <1>5 DEF WinsStep, Done
<1>10. StrandInv'
  <2>1. Outlook(peer', lane') = "wait" => Outlook(peer, lane)' = "wait"
    BY <1>2 DEF Outlook, DispatchTarget, BuildView, Eligible, Fitting, BusyEligible, Disconnected, BusyPins, LaneBusy
  <2>2. QED
    BY <1>4, <1>5, <2>1 DEF StrandInv
<1>11. Follows
  <2>1. ASSUME NEW j \in Job
        PROVE  Dispatch!Stays(j) \/ Dispatch!Leaves(j)
    <3>1. CASE Alike(Pool, p, j)
      <4>1. /\ Sits(j) /\ peer'[j] = peer[j] /\ att'[j] = att[j]
        BY <1>2, <1>5, <3>1 DEF Alike, Pool, Sits
      <4>2. Dispatch!Stays(j)
        BY <4>1, SitsStill DEF Dispatch!Stays, Sits
      <4>3. QED
        BY <4>2
    <3>2. CASE Gone(Pool, p, j)
      <4>1. Among(pending, j) /\ ~Among(pending', j)
        BY <1>5, <3>2 DEF Gone, Pool
      <4>2. Whereabouts(j) = "pool"
        BY <4>1, WhereNow
      <4>3. CASE status'[j] = "running" /\ drv'[j].pc = "begin" /\ peer'[j] \in Server /\ att'[j] = att[j] + 1
        <5>1. Whereabouts(j)' = "server"
          BY <1>8, <4>3, WhereNext
        <5>2. QED
          BY <4>2, <4>3, <5>1 DEF Dispatch!Leaves
      <4>4. CASE status'[j] = "queued" /\ Among(lane', j) /\ peer'[j] = peer[j] /\ att'[j] = att[j]
        <5>1. Whereabouts(j)' = "lane"
          BY <1>8, <4>4, WhereNext
        <5>2. QED
          BY <4>2, <4>4, <5>1 DEF Dispatch!Leaves
      <4>5. CASE status'[j] = "failed" /\ peer'[j] = peer[j] /\ att'[j] = att[j]
        <5>1. Whereabouts(j)' = "out"
          BY <4>5 DEF Whereabouts, InFlight
        <5>2. QED
          BY <4>2, <4>5, <5>1 DEF Dispatch!Leaves
      <4>6. QED
        BY <1>5, <3>2, <4>3, <4>4, <4>5 DEF Gone, Pool
    <3>3. QED
      BY <1>4, <3>1, <3>2
  <2>2. /\ status' \in [Job -> Dispatch!Stage] /\ peer' \in [Job -> Server \cup {NoServer}]
        /\ att' \in [Job -> 0..MaxLoss + 1]
    BY <1>6 DEF RPTypeOK, Dispatch!Stage, Dispatch!Over, Done
  <2>3. [j \in Job |-> Whereabouts(j)]' \in [Job -> Dispatch!Place]
    BY <1>8, WhereNext DEF Dispatch!Place
  <2>4. \A j, k \in Job : j # k /\ peer'[j] # NoServer => peer'[j] # peer'[k]
    BY <1>8 DEF PoolInv, Places, Alone
  <2>5. Dispatch!Match
    BY <1>2, <2>1, <2>2, <2>3, <2>4 DEF Dispatch!Match
  <2>6. QED
    BY <2>5 DEF Follows, Dispatch!Next
<1>12. QED
  BY <1>8, <1>9, <1>10, <1>11 DEF Kept

LEMMA SendsQuiet ==
    ASSUME NEW j, NEW t, Sends(j, t)
    PROVE  UNCHANGED <<link, drops>>
BY DEF Sends

\* _requeue_after_provision_failure: the compile goes to the lane as it is.
LEMMA TermProvisionKeeps ==
    ASSUME PoolInv, NEW j \in Job, TermProvision(j)
    PROVE  Kept
<1>1. /\ drv[j].pc = "await" /\ lane' = Append(lane, j) /\ losses' = [losses EXCEPT ![j] = 0]
      /\ peer' = [peer EXCEPT ![j] = NoServer] /\ drv' = [drv EXCEPT ![j] = NoDrv] /\ wake' = TRUE
      /\ UNCHANGED <<link, drops, status, cancelReq, asked, pending, loop, att, lpc, held,
                     on, exact, share, enabled, toggles>>
  BY DEF TermProvision, HasTerm, At, Release, serverVars, jobVars, setVars
<1>2. status[j] = "running" /\ ~Among(pending, j) /\ ~Among(lane, j) /\ held # j
  BY <1>1, PlaceHere DEF PlaceOf
<1>3. /\ drv \in [Job -> DrvSet] /\ losses \in [Job -> 0..MaxLoss] /\ peer \in [Job -> Server \cup {NoServer}]
      /\ lane \in Seq(Job) /\ Once(lane) /\ Once(pending) /\ NoDrv \in DrvSet /\ NoDrv.pc = "none"
  BY Typed DEF PoolInv, Places, NoDrv, DrvSet
<1>4. /\ drv' \in [Job -> DrvSet] /\ losses' \in [Job -> 0..MaxLoss] /\ peer' \in [Job -> Server \cup {NoServer}]
      /\ losses'[j] = 0 /\ peer'[j] = NoServer /\ drv'[j] = NoDrv
      /\ \A k \in Job : k # j => losses'[k] = losses[k] /\ peer'[k] = peer[k] /\ drv'[k] = drv[k]
  BY <1>1, <1>3, PoolFacts
<1>5. /\ lane' \in Seq(Job) /\ Once(lane')
      /\ \A k : Among(lane', k) <=> Among(lane, k) \/ k = j
  BY <1>1, <1>2, <1>3, AppendOnce
<1>6. RPTypeOK'
  BY <1>1, <1>4, <1>5 DEF PoolInv, RPTypeOK, DrvSet
<1>7. PlaceOf(Among(pending, j), Among(lane, j), held = j, status[j], att[j], losses[j], peer[j], drv[j].pc)'
  BY <1>1, <1>2, <1>3, <1>4, <1>5 DEF PlaceOf
<1>8. PoolInv'
  <2>1. Once(pending') /\ (held # NoJob <=> lpc = "run")'
    BY <1>1, <1>3 DEF PoolInv
  <2>2. QED
    BY <1>1, <1>4, <1>5, <1>6, <1>7, <2>1, JobMoves
<1>9. WinsStep
  BY <1>1 DEF WinsStep, Done
<1>10. Follows
  <2>1. \A k \in Job : k # j => Sits(k) /\ peer'[k] = peer[k]
    BY <1>1, <1>4, <1>5 DEF Sits
  <2>2. Dispatch!Moves(j, "running", Whereabouts(j)')
    BY <1>1, <1>2, <1>4, <1>8, <2>1, OneGoes
  <2>3. Whereabouts(j) = "server" /\ Whereabouts(j)' = "lane" /\ j \notin cancelReq
    BY <1>1, <1>2, <1>5, <1>8, WhereNow, WhereNext DEF TermProvision
  <2>4. Dispatch!FallBack(j)
    BY <1>1, <2>2, <2>3 DEF Dispatch!FallBack
  <2>5. QED
    BY <2>4 DEF Follows, Dispatch!Next
<1>11. QED
  BY <1>1, <1>8, <1>9, <1>10, WokenKeeps DEF Kept

\* The server was lost: back to the pool, one loss more.
LEMMA ServerLostKeeps ==
    ASSUME PoolInv, NEW j \in Job, ServerLost(j)
    PROVE  Kept
<1>1. /\ drv[j].pc = "await" /\ losses[j] < MaxLoss /\ pending' = Append(pending, j)
      /\ losses' = [losses EXCEPT ![j] = losses[j] + 1] /\ status' = [status EXCEPT ![j] = "queued"]
      /\ peer' = [peer EXCEPT ![j] = NoServer] /\ drv' = [drv EXCEPT ![j] = NoDrv] /\ wake' = TRUE
      /\ UNCHANGED <<link, drops, cancelReq, asked, lane, loop, att, lpc, held,
                     on, exact, share, enabled, toggles>>
  BY DEF ServerLost, IsLost, Requeue, At, Release, serverVars, laneVars, setVars
<1>2. status[j] = "running" /\ ~Among(pending, j) /\ ~Among(lane, j) /\ held # j /\ att[j] = losses[j] + 1
  BY <1>1, PlaceHere DEF PlaceOf
<1>3. /\ drv \in [Job -> DrvSet] /\ losses \in [Job -> 0..MaxLoss] /\ peer \in [Job -> Server \cup {NoServer}]
      /\ status \in [Job -> StatusSet] /\ "queued" \in StatusSet
      /\ pending \in Seq(Job) /\ Once(lane) /\ Once(pending) /\ NoDrv \in DrvSet /\ NoDrv.pc = "none"
  BY Typed DEF PoolInv, Places, NoDrv, DrvSet, StatusSet
<1>4. losses[j] + 1 \in 0..MaxLoss
  <2>1. losses[j] \in 0..MaxLoss
    BY <1>3
  <2>2. QED
    BY <1>1, <2>1, PoolFacts
<1>5. /\ drv' \in [Job -> DrvSet] /\ losses' \in [Job -> 0..MaxLoss] /\ peer' \in [Job -> Server \cup {NoServer}]
      /\ status' \in [Job -> StatusSet]
      /\ losses'[j] = losses[j] + 1 /\ peer'[j] = NoServer /\ drv'[j] = NoDrv /\ status'[j] = "queued"
      /\ \A k \in Job : k # j =>
           losses'[k] = losses[k] /\ peer'[k] = peer[k] /\ drv'[k] = drv[k] /\ status'[k] = status[k]
  BY <1>1, <1>3, <1>4
<1>6. /\ pending' \in Seq(Job) /\ Once(pending')
      /\ \A k : Among(pending', k) <=> Among(pending, k) \/ k = j
  BY <1>1, <1>2, <1>3, AppendOnce
<1>7. RPTypeOK'
  BY <1>1, <1>5, <1>6 DEF PoolInv, RPTypeOK, DrvSet, StatusSet
<1>8. PlaceOf(Among(pending, j), Among(lane, j), held = j, status[j], att[j], losses[j], peer[j], drv[j].pc)'
  BY <1>1, <1>2, <1>3, <1>5, <1>6 DEF PlaceOf
<1>9. PoolInv'
  <2>1. Once(lane') /\ (held # NoJob <=> lpc = "run")'
    BY <1>1, <1>3 DEF PoolInv
  <2>2. QED
    BY <1>1, <1>5, <1>6, <1>7, <1>8, <2>1, JobMoves
<1>10. WinsStep
  BY <1>1, <1>2, <1>5 DEF WinsStep, Done
<1>11. Follows
  <2>1. \A k \in Job : k # j => Sits(k) /\ peer'[k] = peer[k]
    BY <1>1, <1>5, <1>6 DEF Sits
  <2>2. Dispatch!Moves(j, "queued", Whereabouts(j)')
    BY <1>1, <1>5, <1>9, <2>1, OneGoes
  <2>3. Whereabouts(j) = "server" /\ Whereabouts(j)' = "pool" /\ j \notin cancelReq
    BY <1>1, <1>6, <1>9, WhereNow, WhereNext DEF ServerLost
  <2>4. att[j] <= MaxLoss
    BY <1>2, <1>4, PoolFacts
  <2>5. Dispatch!Bounce(j)
    BY <1>1, <2>2, <2>3, <2>4 DEF Dispatch!Bounce
  <2>6. QED
    BY <2>5 DEF Follows, Dispatch!Next
<1>12. QED
  BY <1>1, <1>9, <1>10, <1>11, WokenKeeps DEF Kept

LEMMA SendCancelKeeps ==
    ASSUME PoolInv, NEW j \in Job, SendCancel(j)
    PROVE  Kept
<1>1. drv[j].pc = "await" /\ InFlight(j) /\ drv \in [Job -> DrvSet]
  BY Typed DEF SendCancel, At, InFlight, PoolInv
<1>2. CASE Sends(j, "cancel") /\ drv' = [drv EXCEPT ![j].sent = TRUE] /\ Waits
  <2> DEFINE e == [drv[j] EXCEPT !.sent = TRUE]
  <2>1. e \in DrvSet /\ e.pc = drv[j].pc
    <3>1. drv[j] \in DrvSet
      BY <1>1
    <3>2. QED
      BY <3>1 DEF DrvSet
  <2>2. drv' = [drv EXCEPT ![j] = e]
    BY <1>2
  <2> HIDE DEF e
  <2>3. drv' \in [Job -> DrvSet] /\ \A k \in Job : drv'[k].pc # "none" <=> drv[k].pc # "none"
    BY <1>1, <2>1, <2>2
  <2>4. UNCHANGED <<link, drops>> /\ drops' \in Nat /\ link' \in [Server -> {"up", "closing", "down"}]
    BY <1>2 DEF Sends, PoolInv, RPTypeOK
  <2>5. QED
    BY <1>2, <2>3, <2>4, DriversMove DEF Waits, poolVars, jobVars
<1>3. CASE link[peer[j]] # "up" /\ Finish(j, "cancelled") /\ UNCHANGED serverVars
  <2>1. "cancelled" \in Done /\ UNCHANGED <<link, drops>>
    BY <1>3 DEF Done, serverVars
  <2>2. QED
    BY <1>1, <1>3, <2>1, Finishes
<1>4. QED
  BY <1>2, <1>3 DEF SendCancel

LEMMA DriverKeeps ==
    ASSUME PoolInv, NEW j \in Job, Driver(j)
    PROVE  Kept
<1>1. CASE DriverBegun(j)
  <2>1. InFlight(j) /\ Goes(j, "bundle") /\ Waits /\ "bundle" \in Pcs /\ UNCHANGED <<link, drops>>
    BY <1>1 DEF DriverBegun, At, InFlight, Pcs, serverVars
  <2>2. QED
    BY <2>1, GoesOn
<1>2. CASE BundleReady(j)
  <2>1. InFlight(j) /\ Goes(j, "submit") /\ Waits /\ "submit" \in Pcs /\ UNCHANGED <<link, drops>>
    BY <1>2, SendsQuiet DEF BundleReady, At, InFlight, Pcs
  <2>2. QED
    BY <2>1, GoesOn
<1>3. CASE BundleFails(j) \/ SubmitTimeout(j) \/ RequestLost(j) \/ TermFailed(j) \/ GivesUp(j) \/ StageFails(j)
  <2>1. InFlight(j) /\ FailLocally(j) /\ UNCHANGED <<link, drops>>
    BY <1>3 DEF BundleFails, SubmitTimeout, RequestLost, TermFailed, GivesUp, StageFails, HasTerm, IsLost, At,
                InFlight, serverVars
  <2>2. QED
    BY <2>1, FailsLocally
<1>4. CASE TermCancelled(j)
  <2>1. InFlight(j) /\ Finish(j, "cancelled") /\ "cancelled" \in Done /\ UNCHANGED <<link, drops>>
    BY <1>4 DEF TermCancelled, HasTerm, At, InFlight, Done, serverVars
  <2>2. QED
    BY <2>1, Finishes
<1>5. CASE Staged(j)
  <2>1. InFlight(j) /\ Finish(j, "completed") /\ j \notin cancelReq /\ "completed" \in Done /\ UNCHANGED <<link, drops>>
    BY <1>5 DEF Staged, At, InFlight, Done, serverVars
  <2>2. QED
    BY <2>1, Finishes
<1>6. CASE TermCompleted(j)
  <2>1. InFlight(j)
    BY <1>6 DEF TermCompleted, HasTerm, At, InFlight
  <2>2. CASE Sends(j, "fetch") /\ Goes(j, "fetch") /\ Waits
    <3>1. "fetch" \in Pcs /\ UNCHANGED <<link, drops>>
      BY <2>2, SendsQuiet DEF Pcs
    <3>2. QED
      BY <2>1, <2>2, <3>1, GoesOn
  <2>3. CASE FailLocally(j) /\ UNCHANGED serverVars
    BY <2>1, <2>3, FailsLocally DEF serverVars
  <2>4. QED
    BY <1>6, <2>2, <2>3 DEF TermCompleted
<1>7. CASE TermProvision(j)
  BY <1>7, TermProvisionKeeps
<1>8. CASE ServerLost(j)
  BY <1>8, ServerLostKeeps
<1>9. CASE SendCancel(j)
  BY <1>9, SendCancelKeeps
<1>10. QED
  BY <1>1, <1>2, <1>3, <1>4, <1>5, <1>6, <1>7, <1>8, <1>9 DEF Driver

\* A frame nobody waits for, a step of a server.
LEMMA IgnoredKeeps ==
    ASSUME PoolInv, Ignored, UNCHANGED <<link, drops>>
    PROVE  Kept
<1>1. drv' \in [Job -> DrvSet] /\ drv' = drv /\ drops' \in Nat /\ link' \in [Server -> {"up", "closing", "down"}]
  BY Typed DEF Ignored, drvVars, PoolInv, RPTypeOK
<1>2. QED
  BY <1>1, DriversMove DEF Ignored, jobVars, poolVars, drvVars

LEMMA StrayFails ==
    ASSUME PoolInv, NEW j, j \notin Job, FailLocally(j), UNCHANGED <<link, drops>>
    PROVE  Kept
<1>1. PICK st : Finish(j, st)
  BY DEF FailLocally
<1>2. cancelReq \in SUBSET Job /\ status \in [Job -> StatusSet] /\ losses \in [Job -> 0..MaxLoss]
      /\ drv \in [Job -> DrvSet] /\ peer \in [Job -> Server \cup {NoServer}]
  BY Typed DEF PoolInv
<1>3. /\ UNCHANGED <<status, cancelReq, asked, pending, peer, losses, loop, att, laneVars, setVars, drv>>
      /\ wake' = TRUE
  BY <1>1, <1>2 DEF Finish, Release
<1>4. drops' \in Nat /\ link' \in [Server -> {"up", "closing", "down"}]
  BY DEF PoolInv, RPTypeOK
<1>5. QED
  BY <1>2, <1>3, <1>4, DriversMove

LEMMA AnswerKeeps ==
    ASSUME PoolInv, NEW s, GotAck(s) \/ GotFiles(s)
    PROVE  Kept
<1> DEFINE j == Head(down[s]).job
<1>1. UNCHANGED <<link, drops>>
  BY DEF GotAck, GotFiles, Got
<1>2. \/ Ignored
      \/ /\ drv[j].pc \in {"submit", "fetch"}
         /\ \/ \E pc \in Pcs : Goes(j, pc) /\ Waits
            \/ FailLocally(j)
  BY DEF GotAck, GotFiles, At, Pcs
<1> HIDE DEF j
<1>3. CASE Ignored
  BY <1>1, <1>3, IgnoredKeeps
<1>4. ASSUME drv[j].pc \in {"submit", "fetch"}, NEW pc \in Pcs, Goes(j, pc), Waits
      PROVE  Kept
  <2>1. InFlight(j)
    BY <1>4 DEF InFlight
  <2>2. QED
    BY <1>1, <1>4, <2>1, GoesOn
<1>5. CASE drv[j].pc \in {"submit", "fetch"} /\ FailLocally(j)
  <2>1. InFlight(j)
    BY <1>5 DEF InFlight
  <2>2. QED
    BY <1>1, <1>5, <2>1, FailsLocally, StrayFails
<1>6. QED
  BY <1>2, <1>3, <1>4, <1>5

LEMMA GotEndKeeps ==
    ASSUME PoolInv, NEW s, GotEnd(s)
    PROVE  Kept
<1> DEFINE f == Head(down[s])
           j == f.job
<1>1. UNCHANGED <<link, drops>> /\ f.type \in EndFrame
  BY DEF GotEnd, Got
<1>2. \/ Ignored
      \/ drv' = [drv EXCEPT ![j].term = f.type] /\ Waits
  BY DEF GotEnd
<1>3. CASE Ignored
  BY <1>1, <1>3, IgnoredKeeps
<1>4. CASE drv' = [drv EXCEPT ![j].term = f.type] /\ Waits
  <2> HIDE DEF f
  <2>1. drv \in [Job -> DrvSet]
    BY Typed DEF PoolInv
  <2>2. drv' \in [Job -> DrvSet] /\ \A k \in Job : drv'[k].pc = drv[k].pc
    <3> HIDE DEF j
    <3>1. CASE j \in Job
      <4> DEFINE e == [drv[j] EXCEPT !.term = f.type]
      <4>1. drv[j] \in DrvSet
        BY <2>1, <3>1
      <4>2. e \in DrvSet /\ e.pc = drv[j].pc
        BY <1>1, <4>1 DEF DrvSet
      <4>3. drv' = [drv EXCEPT ![j] = e]
        BY <1>4
      <4> HIDE DEF e
      <4>4. QED
        BY <2>1, <3>1, <4>2, <4>3
    <3>2. CASE j \notin Job
      BY <1>4, <2>1, <3>2
    <3>3. QED
      BY <3>1, <3>2
  <2>3. drops' \in Nat /\ link' \in [Server -> {"up", "closing", "down"}]
    BY <1>1 DEF PoolInv, RPTypeOK
  <2>4. QED
    BY <1>1, <1>4, <2>2, <2>3, DriversMove DEF Waits, jobVars, poolVars
<1>5. QED
  BY <1>2, <1>3, <1>4

\* What happens to a link: a lost session, the close seen, a new session, a status push.
LEMMA LinkKeeps ==
    ASSUME PoolInv, NEW s \in Server, Drop(s) \/ Closed(s) \/ Connect(s) \/ QueueStatus(s)
    PROVE  Kept
<1>1. drv \in [Job -> DrvSet] /\ link \in [Server -> {"up", "closing", "down"}] /\ drops \in Nat
  BY Typed DEF PoolInv, RPTypeOK
<1>2. CASE Drop(s)
  <2>1. /\ link[s] = "up" /\ link' = [link EXCEPT ![s] = "closing"] /\ drops' = drops + 1 /\ Waits
        /\ drv' = [j \in Job |-> IF peer[j] = s /\ drv[j].pc \in {"submit", "fetch"}
                                 THEN [drv[j] EXCEPT !.pc = "broken"] ELSE drv[j]]
    BY <1>2 DEF Drop, LinkDrop
  <2>2. drops' \in Nat /\ link' \in [Server -> {"up", "closing", "down"}]
        /\ \A z \in Server : link'[z] # "down" <=> link[z] # "down"
    BY <1>1, <2>1
  <2>3. ASSUME NEW d \in DrvSet
        PROVE  [d EXCEPT !.pc = "broken"] \in DrvSet /\ [d EXCEPT !.pc = "broken"].pc = "broken"
    BY DEF DrvSet
  <2>4. drv' \in [Job -> DrvSet] /\ \A k \in Job : drv'[k].pc # "none" <=> drv[k].pc # "none"
    <3>1. ASSUME NEW j \in Job
          PROVE  drv'[j] \in DrvSet /\ (drv'[j].pc # "none" <=> drv[j].pc # "none")
      <4>1. drv[j] \in DrvSet
        BY <1>1
      <4>2. CASE drv[j].pc \in {"submit", "fetch"} /\ drv'[j] = [drv[j] EXCEPT !.pc = "broken"]
        BY <2>3, <4>1, <4>2
      <4>3. CASE drv'[j] = drv[j]
        BY <4>1, <4>3
      <4>4. QED
        BY <2>1, <4>2, <4>3
    <3>2. QED
      BY <2>1, <3>1
  <2>5. QED
    BY <2>1, <2>2, <2>4, DriversMove DEF Waits, jobVars, poolVars
<1>3. CASE Closed(s)
  <2>1. /\ link' = [link EXCEPT ![s] = "down"] /\ drops' = drops /\ wake' = TRUE
        /\ UNCHANGED <<status, cancelReq, asked, pending, peer, losses, loop, att, laneVars, setVars>>
        /\ drv' = [j \in Job |-> [drv[j] EXCEPT !.lost = drv[j].lost \/ (peer[j] = s /\ Listens(j))]]
    BY <1>3 DEF Closed, LinkState, Wakes, jobVars
  <2>2. ASSUME NEW d \in DrvSet, NEW b \in BOOLEAN
        PROVE  [d EXCEPT !.lost = b] \in DrvSet /\ [d EXCEPT !.lost = b].pc = d.pc
    BY DEF DrvSet
  <2>3. drv' \in [Job -> DrvSet] /\ \A k \in Job : drv'[k].pc = drv[k].pc
    <3>1. ASSUME NEW j \in Job
          PROVE  drv'[j] \in DrvSet /\ drv'[j].pc = drv[j].pc
      <4> DEFINE b == drv[j].lost \/ (peer[j] = s /\ Listens(j))
      <4>1. drv[j] \in DrvSet /\ b \in BOOLEAN
        BY <1>1
      <4>2. drv'[j] = [drv[j] EXCEPT !.lost = b]
        BY <2>1
      <4> HIDE DEF b
      <4>3. QED
        BY <2>2, <4>1, <4>2
    <3>2. QED
      BY <2>1, <3>1
  <2>4. drops' \in Nat /\ link' \in [Server -> {"up", "closing", "down"}]
    BY <1>1, <2>1
  <2>5. QED
    BY <2>1, <2>3, <2>4, DriversMove
<1>4. CASE Connect(s) \/ QueueStatus(s)
  <2>1. /\ drops' = drops /\ wake' = TRUE
        /\ link' = link \/ link' = [link EXCEPT ![s] = "up"]
        /\ UNCHANGED <<status, cancelReq, asked, pending, peer, losses, loop, att, laneVars, setVars, drv>>
    BY <1>4 DEF Connect, QueueStatus, LinkState, Wakes, jobVars, serverVars
  <2>2. drops' \in Nat /\ link' \in [Server -> {"up", "closing", "down"}]
    BY <1>1, <2>1
  <2>3. QED
    BY <1>1, <2>1, <2>2, DriversMove
<1>5. QED
  BY <1>2, <1>3, <1>4

\* A setting changes.  The matcher is called for the settings of WakesOn only.
LEMMA SettingKeeps ==
    ASSUME PoolInv, NEW x, ChangeSetting(x)
    PROVE  PoolInv' /\ WinsStep /\ Follows /\ (Toggles \subseteq WakesOn /\ StrandInv => StrandInv')
<1>1. /\ x \in Toggles /\ toggles' = toggles + 1
      /\ on' \in {on, ~on} /\ exact' \in {exact, ~exact} /\ share' \in {share, ~share}
      /\ wake' = (wake \/ x \in WakesOn)
      /\ UNCHANGED <<link, drops, status, cancelReq, asked, pending, peer, losses, loop, drv, att, lane, lpc, held>>
  BY DEF ChangeSetting, serverVars, jobVars, drvVars, laneVars
<1>2. enabled' \subseteq Server
  BY DEF ChangeSetting, PoolInv, RPTypeOK
<1>3. RPTypeOK'
  <2>1. on \in BOOLEAN /\ exact \in BOOLEAN /\ share \in BOOLEAN /\ wake \in BOOLEAN
    BY DEF PoolInv, RPTypeOK
  <2>2. on' \in BOOLEAN /\ exact' \in BOOLEAN /\ share' \in BOOLEAN /\ wake' \in BOOLEAN
    BY <1>1, <2>1
  <2>3. toggles' \in Nat
    BY <1>1 DEF PoolInv, RPTypeOK
  <2>4. QED
    BY <1>1, <1>2, <2>2, <2>3 DEF PoolInv, RPTypeOK
<1>4. PoolInv'
  BY <1>1, <1>3 DEF PoolInv
<1>5. WinsStep
  BY <1>1 DEF WinsStep, Done
<1>6. Toggles \subseteq WakesOn => StrandInv'
  BY <1>1, WokenKeeps
<1>7. Follows
  <2>1. \A k \in Job : Sits(k)
    BY <1>1 DEF Sits
  <2>2. QED
    BY <1>1, <2>1, NothingMoves
<1>8. QED
  BY <1>4, <1>5, <1>6, <1>7

LEMMA LaneTakeKeeps ==
    ASSUME PoolInv, LaneTake
    PROVE  Kept
<1>1. /\ lpc = "idle" /\ lane # <<>> /\ lane' = Tail(lane) /\ lane \in Seq(Job) /\ pending \in Seq(Job)
      /\ Once(lane) /\ Once(pending) /\ held = NoJob /\ status \in [Job -> StatusSet]
  BY Typed DEF LaneTake, PoolInv, Places
<1>2. PICK j \in Job :
        /\ j = Head(lane) /\ lane' \in Seq(Job) /\ Once(lane') /\ Among(lane, j)
        /\ \A k : Among(lane', k) <=> Among(lane, k) /\ k # j
  <2>1. /\ Tail(lane) \in Seq(Job) /\ Once(Tail(lane)) /\ Head(lane) \in Job /\ Among(lane, Head(lane))
        /\ \A k : Among(Tail(lane), k) <=> Among(lane, k) /\ k # Head(lane)
    BY <1>1, TailOnce
  <2>2. QED
    BY <1>1, <2>1
<1>2a. PlaceOf(Among(pending, j), Among(lane, j), held = j, status[j], att[j], losses[j], peer[j], drv[j].pc)
  BY PlaceHere
<1>3. status[j] \in {"queued", "running", "cancelled"} /\ ~Among(pending, j) /\ drv[j].pc = "none"
      /\ held # j /\ peer[j] = NoServer
  BY <1>2, <1>2a DEF PlaceOf
<1>4. UNCHANGED <<link, drops, cancelReq, asked, pending, peer, losses, loop, drv, att, on, exact, share, enabled, toggles>>
  BY DEF LaneTake, serverVars, drvVars, setVars
<1>5. CASE status[j] = "cancelled" /\ Rearm /\ UNCHANGED <<status, lpc, held>>
  <2>1. RPTypeOK'
    <3>1. wake' \in BOOLEAN
      BY <1>5 DEF Rearm
    <3>2. QED
      BY <1>2, <1>4, <1>5, <3>1 DEF PoolInv, RPTypeOK
  <2>2. PlaceOf(Among(pending, j), Among(lane, j), held = j, status[j], att[j], losses[j], peer[j], drv[j].pc)'
    BY <1>2, <1>3, <1>4, <1>5 DEF PlaceOf
  <2>3. PoolInv'
    <3>1. Once(pending') /\ (held # NoJob <=> lpc = "run")'
      BY <1>1, <1>4, <1>5 DEF PoolInv
    <3>2. QED
      BY <1>2, <1>4, <1>5, <2>1, <2>2, <3>1, JobMoves
  <2>4. WinsStep
    BY <1>5 DEF WinsStep, Done
  <2>5. StrandInv'
    BY <1>4, <1>5, WokenKeeps DEF Rearm
  <2>6. Follows
    <3>1. Whereabouts(j)' = "out" /\ Whereabouts(j) = "out"
      BY <1>5 DEF Whereabouts, InFlight
    <3>2. \A k \in Job : k # j => Sits(k)
      BY <1>2, <1>4, <1>5 DEF Sits
    <3>3. [k \in Job |-> Whereabouts(k)]' = [k \in Job |-> Whereabouts(k)]
      BY <3>1, <3>2, SitsStill
    <3>4. QED
      BY <1>4, <1>5, <3>3 DEF Follows, Dispatch!vars
  <2>7. QED
    BY <2>3, <2>4, <2>5, <2>6 DEF Kept
<1>6. CASE status[j] # "cancelled" /\ status' = [status EXCEPT ![j] = "running"] /\ lpc' = "run" /\ held' = j
           /\ wake' = wake
  <2>1. /\ status' \in [Job -> StatusSet] /\ status'[j] = "running"
        /\ \A k \in Job : k # j => status'[k] = status[k]
    BY <1>1, <1>2, <1>6 DEF StatusSet
  <2>2. RPTypeOK'
    BY <1>2, <1>4, <1>6, <2>1 DEF PoolInv, RPTypeOK, StatusSet
  <2>3. PlaceOf(Among(pending, j), Among(lane, j), held = j, status[j], att[j], losses[j], peer[j], drv[j].pc)'
    BY <1>2, <1>3, <1>4, <1>6, <2>1 DEF PlaceOf
  <2>4. PoolInv'
    <3>1. Once(pending') /\ (held # NoJob <=> lpc = "run")' /\ \A k \in Job : held # k
      BY <1>1, <1>2, <1>4, <1>6, PoolFacts DEF NoJob
    <3>2. QED
      BY <1>2, <1>4, <1>6, <2>1, <2>2, <2>3, <3>1, JobMoves
  <2>5. WinsStep
    BY <1>3, <1>6, <2>1 DEF WinsStep, Done
  <2>6. StrandInv => StrandInv'
    <3>1. LaneBusy(lane)'
      BY <1>6 DEF LaneBusy
    <3>2. lpc # "end"
      BY <1>1
    <3>3. QED
      BY <1>4, <1>6, <3>1, <3>2, QuietKeeps
  <2>7. Follows
    <3>1. \A k \in Job : k # j => Sits(k) /\ peer'[k] = peer[k]
      <4>1. \A k \in Job : held # k
        BY <1>1, PoolFacts DEF NoJob
      <4>2. QED
        BY <1>2, <1>4, <1>6, <2>1, <4>1 DEF Sits
    <3>2. Dispatch!Moves(j, "running", Whereabouts(j)')
      BY <1>3, <1>4, <2>1, <2>4, <3>1, OneGoes
    <3>3. Whereabouts(j) = "lane" /\ Whereabouts(j)' = "bench"
      BY <1>2, <1>3, <1>6, <2>4, WhereNow, WhereNext
    <3>4. \A k \in Job : Whereabouts(k) # "bench"
      BY <1>1, WhereNow, PoolFacts DEF NoJob
    <3>5. Dispatch!Bench(j)
      BY <1>4, <3>2, <3>3, <3>4 DEF Dispatch!Bench
    <3>6. QED
      BY <3>5 DEF Follows, Dispatch!Next
  <2>8. QED
    BY <2>4, <2>5, <2>6, <2>7 DEF Kept
<1>7. QED
  BY <1>2, <1>5, <1>6 DEF LaneTake

LEMMA LaneDoneKeeps ==
    ASSUME PoolInv, NEW st \in {"completed", "failed"}, LaneDone(st)
    PROVE  Kept
<1> DEFINE e == IF held \in cancelReq THEN "cancelled" ELSE st
<1>1. /\ lpc = "run" /\ lpc' = "end" /\ held' = NoJob /\ held # NoJob
      /\ status' = [status EXCEPT ![held] = e] /\ cancelReq' = cancelReq \ {held}
      /\ UNCHANGED <<link, drops, asked, pending, peer, losses, wake, loop, drv, att, lane,
                     on, exact, share, enabled, toggles>>
  BY DEF LaneDone, serverVars, poolVars, drvVars, setVars, PoolInv
<1>2. held \in Job /\ status \in [Job -> StatusSet] /\ Once(lane) /\ Once(pending)
  BY <1>1, Typed DEF PoolInv, RPTypeOK, Places
<1>3. status[held] = "running" /\ ~Among(pending, held) /\ ~Among(lane, held) /\ drv[held].pc = "none"
  BY <1>2, PlaceHere DEF PlaceOf
<1>4. e \in Done /\ e \in StatusSet /\ (held \in cancelReq => e = "cancelled")
      /\ e \notin {"none", "queued", "running"}
  BY DEF Done, StatusSet
<1> HIDE DEF e
<1>5. /\ status' \in [Job -> StatusSet] /\ status'[held] = e
      /\ \A k \in Job : k # held => status'[k] = status[k]
  BY <1>1, <1>2, <1>4
<1>6. RPTypeOK'
  BY <1>1, <1>5 DEF PoolInv, RPTypeOK, StatusSet
<1>7. PoolInv'
  <2>1. ASSUME NEW j \in Job, j = held
        PROVE  PoolInv'
    <3>1. PlaceOf(Among(pending, j), Among(lane, j), held = j, status[j], att[j], losses[j], peer[j], drv[j].pc)'
      BY <1>1, <1>3, <1>4, <1>5, <2>1, PlaceHere, PoolFacts DEF PlaceOf, NoJob
    <3>2. \A k \in Job : k # j => (held' = k <=> held = k)
      BY <1>1, <2>1, PoolFacts DEF NoJob
    <3>3. (held # NoJob <=> lpc = "run")' /\ Once(pending') /\ Once(lane')
      BY <1>1, <1>2
    <3>4. QED
      BY <1>1, <1>5, <1>6, <2>1, <3>1, <3>2, <3>3, JobMoves
  <2>2. QED
    BY <1>2, <2>1
<1>8. WinsStep
  BY <1>3, <1>4, <1>5 DEF WinsStep, Done
<1>9. StrandInv => StrandInv'
  BY <1>1, QuietKeeps
<1>10. Follows
  <2>1. ASSUME NEW j \in Job, j = held
        PROVE  Follows
    <3>1. \A k \in Job : k # j => Sits(k) /\ peer'[k] = peer[k]
      BY <1>1, <1>5, <2>1, PoolFacts DEF Sits, NoJob
    <3>2. peer'[j] = NoServer
      BY <1>1, <1>3, <2>1, PlaceHere DEF PlaceOf
    <3>3. Dispatch!Moves(j, e, Whereabouts(j)')
      BY <1>1, <1>5, <1>7, <2>1, <3>1, <3>2, OneGoes
    <3>4. Whereabouts(j) = "bench" /\ Whereabouts(j)' = "out"
      BY <1>4, <1>5, <2>1, WhereNow DEF Whereabouts, InFlight
    <3>5. Dispatch!End(j, e) /\ e \in Dispatch!Over
      BY <1>1, <1>4, <2>1, <3>3, <3>4 DEF Dispatch!End, Dispatch!Over, Done
    <3>6. QED
      BY <3>5 DEF Follows, Dispatch!Next
  <2>2. QED
    BY <1>2, <2>1
<1>11. QED
  BY <1>7, <1>8, <1>9, <1>10 DEF Kept

LEMMA LaneEndKeeps ==
    ASSUME PoolInv, LaneEnd
    PROVE  Kept
<1>1. /\ lpc = "end" /\ lpc' = "idle" /\ wake' = (wake \/ pending # <<>>)
      /\ UNCHANGED <<link, drops, status, cancelReq, asked, pending, peer, losses, loop, drv, att, lane, held,
                     on, exact, share, enabled, toggles>>
  BY DEF LaneEnd, Rearm, serverVars, jobVars, drvVars, setVars
<1>2. RPTypeOK'
  BY <1>1 DEF PoolInv, RPTypeOK
<1>3. PoolInv'
  BY <1>1, <1>2 DEF PoolInv
<1>4. WinsStep
  BY <1>1 DEF WinsStep, Done
<1>5. Follows
  <2>1. \A k \in Job : Sits(k)
    BY <1>1 DEF Sits
  <2>2. QED
    BY <1>1, <2>1, NothingMoves
<1>6. QED
  BY <1>1, <1>3, <1>4, <1>5, WokenKeeps DEF Kept

-----------------------------------------------------------------------------
(* Every step, and the theorems *)

LEMMA PoolInit ==
    ASSUME Init
    PROVE  PoolInv /\ StrandInv
<1>1. drops \in Nat /\ toggles \in Nat /\ share \in BOOLEAN /\ enabled \subseteq Server
  <2>1. PICK st \in Start : share = st.share /\ enabled = st.enabled /\ drops = st.drops /\ toggles = st.toggles
    BY DEF Init, RPInit
  <2>2. st \in [share : BOOLEAN, enabled : SUBSET Server, drops : 0..MaxDrops, toggles : 0..MaxToggles]
    BY PoolAssumption
  <2>3. QED
    BY <2>1, <2>2, PoolAssumption
<1>2. RPTypeOK
  <2>1. NoDrv \in DrvSet
    BY DEF NoDrv, DrvSet
  <2>2. Exact \in BOOLEAN
    BY PoolAssumption
  <2>3. /\ status \in [Job -> {"none", "queued", "running"} \cup Done]
        /\ peer \in [Job -> Server \cup {NoServer}] /\ losses \in [Job -> 0..MaxLoss]
        /\ att \in [Job -> 0..MaxLoss + 1]
    BY PoolFacts DEF Init, RPInit
  <2>4. drv \in [Job -> DrvSet] /\ link \in [Server -> {"up", "closing", "down"}]
    BY <2>1 DEF Init, RPInit, ServerInit
  <2>5. pending \in Seq(Job) /\ lane \in Seq(Job) /\ held \in Job \cup {NoJob}
    BY DEF Init, RPInit
  <2>6. QED
    BY <1>1, <2>2, <2>3, <2>4, <2>5 DEF Init, RPInit, RPTypeOK, DrvSet
<1>3. \A j \in Job : ~Among(<<>>, j)
  BY DEF Among
<1>4. Places(pending, lane, held, status, att, losses, peer, drv)
  BY <1>3, PoolFacts DEF Init, RPInit, Places, PlaceOf, Once, Alone, NoDrv, NoJob
<1>5. QED
  BY <1>2, <1>4 DEF PoolInv, StrandInv, Init, RPInit

LEMMA PoolNext ==
    ASSUME PoolInv, [Next]_vars
    PROVE  PoolInv' /\ WinsStep /\ Follows /\ (Toggles \subseteq WakesOn /\ StrandInv => StrandInv')
<1>1. ASSUME Kept
      PROVE  PoolInv' /\ WinsStep /\ Follows /\ (Toggles \subseteq WakesOn /\ StrandInv => StrandInv')
  BY <1>1 DEF Kept
<1>2. CASE \E j \in Job : User(j)
  BY <1>1, <1>2, SubmitKeeps, CancelQueuedKeeps, CancelRunningKeeps DEF User
<1>3. CASE \E j \in Job : Driver(j)
  BY <1>1, <1>3, DriverKeeps
<1>4. CASE Matcher
  BY <1>1, <1>4, LoopKeeps, PassKeeps DEF Matcher
<1>5. CASE Local
  BY <1>1, <1>5, LaneTakeKeeps, LaneDoneKeeps, LaneEndKeeps DEF Local
<1>6. CASE \E s \in Server : Remote(s)
  BY <1>1, <1>6, ServerStepQuiet, IgnoredKeeps DEF Remote
<1>7. CASE \E s \in Server : Offloader(s)
  BY <1>1, <1>7, AnswerKeeps, GotEndKeeps DEF Offloader
<1>8. CASE \E s \in Server : Drop(s) \/ Closed(s) \/ Connect(s) \/ QueueStatus(s)
  BY <1>1, <1>8, LinkKeeps
<1>9. CASE \E x \in Setting : ChangeSetting(x)
  BY <1>9, SettingKeeps
<1>10. CASE UNCHANGED vars
  <2>1. Ignored /\ UNCHANGED <<link, drops>>
    BY <1>10 DEF vars, Ignored, serverVars
  <2>2. QED
    BY <1>1, <2>1, IgnoredKeeps
<1>11. QED
  BY <1>2, <1>3, <1>4, <1>5, <1>6, <1>7, <1>8, <1>9, <1>10 DEF Next

\* The state of RemoteDispatchState, the drivers and the compile lane keeps its shape.
\* In particular losses never pass _MAX_SERVER_LOSS_RETRIES, so that a compile is
\* dispatched at most once more than that, however often its servers are lost.
THEOREM PoolTypesHold == Spec => []RPTypeOK
<1>1. Init => PoolInv
  BY PoolInit
<1>2. PoolInv /\ [Next]_vars => PoolInv'
  BY PoolNext
<1>3. PoolInv => RPTypeOK
  BY DEF PoolInv
<1>4. QED
  BY <1>1, <1>2, <1>3, PTL DEF Spec

\* busy_build_server_pins: whatever the passes, the losses and the returns to the pool,
\* two compiles are never bound to the same build server.
THEOREM OneBuildPerServerHolds == Spec => []OneBuildPerServer
<1>1. Init => PoolInv
  BY PoolInit
<1>2. PoolInv /\ [Next]_vars => PoolInv'
  BY PoolNext
<1>3. PoolInv => OneBuildPerServer
  BY DEF PoolInv, Places, Alone, OneBuildPerServer
<1>4. QED
  BY <1>1, <1>2, <1>3, PTL DEF Spec

LEMMA CountOnce ==
    ASSUME NEW q \in Seq(Job), Once(q), NEW j
    PROVE  Count(q, j) = IF Among(q, j) THEN 1 ELSE 0
<1> DEFINE I == {i \in DOMAIN q : q[i] = j}
<1>1. DOMAIN q = 1..Len(q)
  OBVIOUS
<1>2. CASE Among(q, j)
  <2>1. PICK i \in 1..Len(q) : q[i] = j
    BY <1>2 DEF Among
  <2>2. I = {i}
    BY <1>1, <2>1 DEF Once
  <2>3. Cardinality(I) = 1
    BY <2>2, FS_Singleton
  <2>4. QED
    BY <1>2, <2>3 DEF Count
<1>3. CASE ~Among(q, j)
  <2>1. I = {}
    BY <1>1, <1>3 DEF Among
  <2>2. Cardinality(I) = 0
    BY <2>1, FS_EmptySet
  <2>3. QED
    BY <1>3, <2>2 DEF Count
<1>4. QED
  BY <1>2, <1>3

\* place_on_lane, release and the requeues: an active compile is in the pool's waiting
\* set, with a driver, on the compile lane or with its worker, and in one of them only.
THEOREM OnePlaceHoldsInPool == Spec => []OnePlace
<1>1. Init => PoolInv
  BY PoolInit
<1>2. PoolInv /\ [Next]_vars => PoolInv'
  BY PoolNext
<1>3. PoolInv => OnePlace
  <2>1. SUFFICES ASSUME PoolInv, NEW j \in Job, status[j] \in {"queued", "running"}
                 PROVE  Count(pending, j) + (IF InFlight(j) THEN 1 ELSE 0) + Count(lane, j)
                          + (IF held = j THEN 1 ELSE 0) = 1
    BY DEF OnePlace
  <2>2. /\ Count(pending, j) = IF Among(pending, j) THEN 1 ELSE 0
        /\ Count(lane, j) = IF Among(lane, j) THEN 1 ELSE 0
    <3>1. pending \in Seq(Job) /\ lane \in Seq(Job) /\ Once(pending) /\ Once(lane)
      BY <2>1, Typed DEF PoolInv, Places
    <3>2. QED
      BY <3>1, CountOnce
  <2>3. PlaceOf(Among(pending, j), Among(lane, j), held = j, status[j], att[j], losses[j], peer[j], drv[j].pc)
    BY <2>1, PlaceHere
  <2>4. QED
    BY <2>1, <2>2, <2>3 DEF PlaceOf, InFlight
<1>4. QED
  BY <1>1, <1>2, <1>3, PTL DEF Spec

\* "User intent wins": a compile whose cancel was accepted while it ran ends neither
\* completed nor failed, and a status once terminal stands.
THEOREM CancelWinsHolds == Spec => CancelWins
<1>1. Init => PoolInv
  BY PoolInit
<1>2. PoolInv /\ [Next]_vars => PoolInv'
  BY PoolNext
<1>3. PoolInv /\ [Next]_vars =>
        [\A j \in Job :
           /\ j \in cancelReq /\ status[j] = "running" => status'[j] \notin {"completed", "failed"}
           /\ status[j] \in Done => status'[j] = status[j]]_vars
  BY PoolNext DEF WinsStep
<1>4. QED
  BY <1>1, <1>2, <1>3, PTL DEF Spec, CancelWins

\* run_dispatch_loop sleeps on wake: when the settings a user changes are those the
\* matcher is subscribed to, no compile waits that a fresh look at the pool would place.
\* (The other two settings do strand compiles: the loop is not told of them.)
THEOREM NoStrandHolds == Toggles \subseteq WakesOn => (Spec => []NoStrand)
<1> SUFFICES ASSUME Toggles \subseteq WakesOn PROVE Spec => []NoStrand
  OBVIOUS
<1>1. Init => PoolInv /\ StrandInv
  BY PoolInit
<1>2. PoolInv /\ StrandInv /\ [Next]_vars => (PoolInv /\ StrandInv)'
  BY PoolNext
<1>3. PoolInv /\ StrandInv => NoStrand
  BY DEF StrandInv, NoStrand, Outlook
<1>4. QED
  BY <1>1, <1>2, <1>3, PTL DEF Spec

LEMMA StartsOut ==
    ASSUME Init
    PROVE  Dispatch!Init
<1>1. \A j \in Job : Whereabouts(j) = "out"
  BY DEF Init, RPInit, Whereabouts, InFlight
<1>2. QED
  BY <1>1 DEF Init, RPInit, Dispatch!Init

\* The dispatch of remote compiles implements CompileDispatch: whatever the frames, the
\* drops, the passes, the settings and the number of compiles and servers, each compile
\* goes from place to place as that module says.  It goes back to the pool only with a
\* lost server, uncancelled and at most _MAX_SERVER_LOSS_RETRIES times, and once
\* _requeue_after_provision_failure or the matcher put it on the lane it stays here.
THEOREM PoolImplementsDispatch == Spec => ImplementsDispatch
<1>1. Init => PoolInv
  BY PoolInit
<1>2. PoolInv /\ [Next]_vars => PoolInv'
  BY PoolNext
<1>3. Init => Dispatch!Init
  BY StartsOut
<1>4. PoolInv /\ [Next]_vars => [Dispatch!Next]_(Dispatch!vars)
  BY PoolNext DEF Follows
<1>5. QED
  BY <1>1, <1>2, <1>3, <1>4, PTL DEF Spec, ImplementsDispatch, Dispatch!Spec
=============================================================================
