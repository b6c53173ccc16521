------------------------ MODULE RobinHoodIndex_proofs -------------------------
(***************************************************************************)
(* Type correctness of the index, and that a finished table finds exactly  *)
(* the keys that were written, for any keys, hashes, group size, longest    *)
(* probe and number of records.                                            *)
(***************************************************************************)
EXTENDS RobinHoodIndex, TLAPS

-----------------------------------------------------------------------------
(* Arithmetic of positions                                                  *)

\* A remainder by a positive number is below it.
LEMMA ModRange == ASSUME NEW a \in Nat, NEW n \in Nat \ {0} PROVE a % n \in 0 .. n - 1
OBVIOUS

\* Adding less than a table's length wraps around at most once.
LEMMA ModSum ==
    ASSUME NEW n \in Nat \ {0}, NEW h \in 0 .. n - 1, NEW j \in 0 .. n
    PROVE  (h + j) % n = IF h + j < n THEN h + j ELSE h + j - n
<1>1. h + j = n * ((h + j) \div n) + ((h + j) % n) /\ (h + j) % n \in 0 .. n - 1
      /\ (h + j) \div n \in Int
  OBVIOUS
<1> DEFINE q == (h + j) \div n
<1>2. q = 0 \/ q = 1
  <2>1. q < 0 => n * q <= -n
    BY <1>1
  <2>2. q > 1 => n * q >= 2 * n
    BY <1>1
  <2> QED
    BY <1>1, <2>1, <2>2
<1> QED
  BY <1>1, <1>2

\* The groups that are probed cover the table.
LEMMA ProbeCovers == ASSUME IndexTypeOK PROVE ProbeLimit \in Nat /\ ProbeLimit >= nb
<1> DEFINE x == nb + GroupSize - 1
<1>1. nb \in Nat /\ GroupSize \in Nat /\ GroupSize > 0
  BY IndexAssumption DEF IndexTypeOK
<1>2. x = GroupSize * (x \div GroupSize) + (x % GroupSize) /\ x % GroupSize \in 0 .. GroupSize - 1
      /\ x \div GroupSize \in Nat
  BY <1>1
<1>3. GroupSize * (x \div GroupSize) = (x \div GroupSize) * GroupSize
  BY <1>1, <1>2
<1>4. (x \div GroupSize) * GroupSize \in Nat
  BY <1>1, <1>2
<1> QED
  BY <1>1, <1>2, <1>3, <1>4 DEF ProbeLimit

\* Moving on by one bucket adds the bucket left behind to the run.
LEMMA RunStep ==
    ASSUME nb \in Nat \ {0}, NEW h \in 0 .. nb - 1, NEW p \in 0 .. nb - 1, NEW e \in 0 .. nb - 1,
           InRun(h, NextPosition(e), p)
    PROVE  InRun(h, e, p) \/ p = e
<1>1. 1 \in 0 .. nb
  OBVIOUS
<1>2. NextPosition(e) = IF e + 1 < nb THEN e + 1 ELSE e + 1 - nb
  BY <1>1, ModSum, Zenon DEF NextPosition
<1> QED
  BY <1>2 DEF InRun

\* The number after one that is below another is in range too.
LEMMA StepUp ==
    ASSUME NEW m \in Nat, NEW a \in 0 .. m, NEW b \in 0 .. m, a < b
    PROVE  a + 1 \in 0 .. m
OBVIOUS

\* A function with one value replaced by another of its range.
LEMMA Updated ==
    ASSUME NEW A, NEW B, NEW f \in [A -> B], NEW a, NEW b \in B
    PROVE  [f EXCEPT ![a] = b] \in [A -> B]
BY Zenon

-----------------------------------------------------------------------------
(* The inductive invariant: what the lookup needs, and where the record in   *)
(* hand is.                                                                  *)

IInv ==
    /\ IndexTypeOK
    /\ pc = "write" => nb = 0
    /\ pc = "insert" => nb > 0 /\ pos \in 0 .. nb - 1 /\ cur # 0
    /\ NoGaps
    /\ NoneLost

\* A record has a positive fingerprint, and a home in every table.
LEMMA Homes ==
    ASSUME IndexTypeOK, NEW i \in 1 .. Len(log), NEW n \in Nat \ {0}
    PROVE  Fp(i) \in Nat /\ HomePosition(Fp(i), n) \in 0 .. n - 1
<1>1. log[i].key \in Key
  <2> DEFINE Rec == [key : Key, off : 0 .. MaxOffset]
  <2>1. log \in Seq(Rec)
    BY DEF IndexTypeOK
  <2> HIDE DEF Rec
  <2>2. log[i] \in Rec
    BY <2>1
  <2> QED
    BY <2>2 DEF Rec
<1>2. hash[log[i].key] \in 0 .. MaxHash
  <2>1. hash \in [Key -> 0 .. MaxHash]
    BY IndexAssumption, Zenon DEF IndexTypeOK
  <2> QED
    BY <1>1, <2>1, Zenon
<1>3. Fp(i) \in Nat
  BY <1>2, IndexAssumption DEF Fp, CompactFingerprint
<1> QED
  BY <1>3, ModRange, Zenon DEF HomePosition

\* A run that ends where it starts is empty.
LEMMA EmptyRun == ASSUME NEW h \in Int, NEW p \in Int PROVE ~InRun(h, h, p)
BY DEF InRun

\* What a call of insert for record i leaves in hand.
LEMMA InsertStarts ==
    ASSUME IndexTypeOK, NEW i \in Nat \ {0}, i <= Len(log) + 1, NEW n \in Nat,
           i <= Len(log) => n > 0, Insert(i, n)
    PROVE  /\ taken' \in 0 .. Len(log) /\ cur' \in 0 .. Len(log)
           /\ pos' \in Nat /\ psl' = 0
           /\ pc' \in {"insert", "done"}
           /\ pc' = "insert" => /\ i <= Len(log) /\ n > 0
                                /\ taken' = i /\ cur' = i
                                /\ pos' = HomePosition(Fp(i), n) /\ pos' \in 0 .. n - 1
           /\ pc' = "done" => i = Len(log) + 1
<1>1. Len(log) \in Nat /\ taken \in 0 .. Len(log)
  BY DEF IndexTypeOK
<1>2. CASE i > Len(log)
  BY <1>1, <1>2 DEF Insert
<1>3. CASE i <= Len(log)
  <2>1. i \in 1 .. Len(log)
    BY <1>1, <1>3
  <2>2. HomePosition(Fp(i), n) \in 0 .. n - 1
    BY <1>3, <2>1, Homes
  <2> QED
    BY <1>1, <1>3, <2>1, <2>2 DEF Insert
<1> QED
  BY <1>1, <1>2, <1>3

LEMMA InitInv == Init => IInv
<1> SUFFICES ASSUME Init PROVE IInv
  OBVIOUS
<1>1. IndexTypeOK
  BY IndexAssumption DEF Init, IndexTypeOK
<1>2. NoGaps /\ NoneLost
  BY DEF Init, NoGaps, NoneLost
<1> QED
  BY <1>1, <1>2 DEF Init, IInv

\* A new table, whatever was there before.
LEMMA NewTableInv ==
    ASSUME IInv, NEW n \in Nat, Len(log) > 0 => n > 0, NewTable(n), UNCHANGED input
    PROVE  IInv'
<1>1. Len(log) \in Nat /\ MaxPsl \in Nat
  BY IndexAssumption DEF IInv, IndexTypeOK
<1>2. Insert(1, n) /\ IndexTypeOK
  BY DEF NewTable, IInv
<1>3. /\ taken' \in 0 .. Len(log) /\ cur' \in 0 .. Len(log) /\ pos' \in Nat /\ psl' = 0
      /\ pc' \in {"insert", "done"}
      /\ pc' = "insert" => /\ n > 0 /\ taken' = 1 /\ cur' = 1
                           /\ pos' = HomePosition(Fp(1), n) /\ pos' \in 0 .. n - 1
      /\ pc' = "done" => Len(log) = 0
  BY <1>1, <1>2, InsertStarts
<1>4. nb' = n /\ log' = log /\ hash' = hash /\ top' = top
  BY DEF NewTable, input
<1>5. table' = [p \in 0 .. n - 1 |-> 0] /\ psls' = [p \in 0 .. n - 1 |-> 0]
  BY DEF NewTable
<1>6. IndexTypeOK'
  BY <1>1, <1>2, <1>3, <1>4, <1>5 DEF IndexTypeOK
<1>7. NoGaps'
  <2>1. pc' = "insert" => HomePosition(Fp(cur), nb)' = pos'
    BY <1>3, <1>4 DEF HomePosition, Fp, CompactFingerprint
  <2> QED
    BY <1>3, <1>4, <1>5, <2>1, EmptyRun DEF NoGaps
<1>8. NoneLost'
  BY <1>1, <1>3, <1>4 DEF NoneLost
<1> QED
  BY <1>3, <1>4, <1>6, <1>7, <1>8 DEF IInv

\* What the insert steps start from.
LEMMA InHand ==
    ASSUME IInv, pc = "insert"
    PROVE  /\ IndexTypeOK /\ Len(log) \in Nat /\ nb \in Nat \ {0}
           /\ pos \in 0 .. nb - 1 /\ cur \in 1 .. Len(log) /\ taken \in 0 .. Len(log)
           /\ psl \in 0 .. MaxPsl /\ table[pos] \in 0 .. Len(log) /\ psls[pos] \in 0 .. MaxPsl
           /\ NextPosition(pos) \in 0 .. nb - 1
<1>1. IndexTypeOK /\ nb > 0 /\ pos \in 0 .. nb - 1 /\ cur # 0
  BY DEF IInv
<1>2. Len(log) \in Nat /\ nb \in Nat /\ cur \in 0 .. Len(log) /\ taken \in 0 .. Len(log)
      /\ psl \in 0 .. MaxPsl /\ table \in [0 .. nb - 1 -> 0 .. Len(log)]
      /\ psls \in [0 .. nb - 1 -> 0 .. MaxPsl]
  BY <1>1 DEF IndexTypeOK
<1>3. nb \in Nat \ {0} /\ pos + 1 \in Nat
  BY <1>1, <1>2
<1>4. NextPosition(pos) \in 0 .. nb - 1
  BY <1>3, ModRange, Zenon DEF NextPosition
<1> QED
  BY <1>1, <1>2, <1>3, <1>4

\* The types survive a step that leaves the input alone and keeps those of the rest.
LEMMA TypeKept ==
    ASSUME IndexTypeOK, hash' = hash, log' = log, top' = top, nb' = nb,
           table' \in [0 .. nb - 1 -> 0 .. Len(log)], psls' \in [0 .. nb - 1 -> 0 .. MaxPsl],
           taken' \in 0 .. Len(log), cur' \in 0 .. Len(log), pos' \in Nat,
           psl' \in 0 .. MaxPsl, pc' \in {"insert", "done"}
    PROVE  IndexTypeOK'
<1>1. hash' \in Hashings /\ top' \in Nat /\ nb' \in Nat
      /\ log' \in Seq([key : Key, off : 0 .. MaxOffset]) /\ Len(log') \in 0 .. MaxRecords
  BY Zenon DEF IndexTypeOK
<1>2. /\ table' \in [0 .. nb' - 1 -> 0 .. Len(log')] /\ psls' \in [0 .. nb' - 1 -> 0 .. MaxPsl]
      /\ taken' \in 0 .. Len(log') /\ cur' \in 0 .. Len(log')
  OBVIOUS
<1>3. pc' \in {"write", "insert", "done", "refused", "full"}
  OBVIOUS
<1> QED
  BY <1>1, <1>2, <1>3, Zenon DEF IndexTypeOK

LEMMA PlaceInv == IInv /\ PlaceInEmpty => IInv'
<1> SUFFICES ASSUME IInv, PlaceInEmpty PROVE IInv'
  OBVIOUS
<1>1. pc = "insert" /\ table[pos] = 0 /\ table' = [table EXCEPT ![pos] = cur]
      /\ psls' = [psls EXCEPT ![pos] = psl] /\ Insert(taken + 1, nb)
      /\ hash' = hash /\ log' = log /\ top' = top /\ nb' = nb
  BY DEF PlaceInEmpty, input
<1>2. /\ IndexTypeOK /\ Len(log) \in Nat /\ nb \in Nat \ {0}
      /\ pos \in 0 .. nb - 1 /\ cur \in 1 .. Len(log) /\ taken \in 0 .. Len(log)
      /\ psl \in 0 .. MaxPsl
  BY <1>1, InHand
<1>3. /\ taken' \in 0 .. Len(log) /\ cur' \in 0 .. Len(log) /\ pos' \in Nat /\ psl' = 0
      /\ pc' \in {"insert", "done"}
      /\ pc' = "insert" => /\ taken' = taken + 1 /\ cur' = taken + 1
                           /\ pos' = HomePosition(Fp(taken + 1), nb) /\ pos' \in 0 .. nb - 1
      /\ pc' = "done" => taken = Len(log)
  <2>1. taken + 1 \in Nat \ {0} /\ taken + 1 <= Len(log) + 1
    BY <1>2
  <2> QED
    BY <1>1, <1>2, <2>1, InsertStarts
<1>4. table \in [0 .. nb - 1 -> 0 .. Len(log)] /\ psls \in [0 .. nb - 1 -> 0 .. MaxPsl]
      /\ MaxPsl \in Nat
  BY <1>2, IndexAssumption, Zenon DEF IndexTypeOK
<1>5. IndexTypeOK'
  <2>1. table' \in [0 .. nb - 1 -> 0 .. Len(log)] /\ psls' \in [0 .. nb - 1 -> 0 .. MaxPsl]
    <3>1. cur \in 0 .. Len(log)
      BY <1>2
    <3> QED
      BY <1>1, <1>2, <1>4, <3>1, Updated, Zenon
  <2>2. psl' \in 0 .. MaxPsl
    BY <1>3, <1>4
  <2> QED
    BY <1>1, <1>2, <1>3, <2>1, <2>2, TypeKept, Zenon
<1>6. \A i \in 1 .. Len(log) : HomePosition(Fp(i), nb)' = HomePosition(Fp(i), nb)
  BY <1>1 DEF HomePosition, Fp, CompactFingerprint
<1>7. NoGaps'
  <2>1. \A p \in 0 .. nb - 1 : table[p] # 0 => table'[p] # 0
    BY <1>1, <1>2, <1>4
  <2>2. ASSUME NEW q \in 0 .. nb - 1, table'[q] # 0, NEW p \in 0 .. nb - 1,
               InRun(HomePosition(Fp(table'[q]), nb), q, p)
        PROVE  table'[p] # 0
    <3>1. CASE q = pos
      <4>1. table'[q] = cur
        BY <1>1, <1>2, <1>4, <3>1
      <4> QED
        BY <1>1, <2>1, <2>2, <3>1, <4>1 DEF IInv, NoGaps
    <3>2. CASE q # pos
      <4>1. table'[q] = table[q]
        BY <1>1, <1>4, <3>2
      <4> QED
        BY <2>1, <2>2, <4>1 DEF IInv, NoGaps
    <3> QED
      BY <3>1, <3>2
  <2>3. \A q \in 0 .. nb - 1 : HomePosition(Fp(table[q]), nb)' = HomePosition(Fp(table'[q]), nb)
    BY <1>1 DEF HomePosition, Fp, CompactFingerprint
  <2>4. pc' = "insert" => HomePosition(Fp(cur), nb)' = pos'
    BY <1>1, <1>3 DEF HomePosition, Fp, CompactFingerprint
  <2>5. ASSUME pc' = "insert", NEW p \in 0 .. nb - 1 PROVE ~InRun(pos', pos', p)
    BY <1>3, EmptyRun
  <2> QED
    BY <1>1, <2>2, <2>3, <2>4, <2>5 DEF NoGaps
<1>8. NoneLost'
  <2>1. ASSUME NEW i \in 1 .. taken PROVE \E p \in 0 .. nb - 1 : table'[p] = i
    <3>1. CASE i = cur
      BY <1>1, <1>2, <1>4, <3>1
    <3>2. CASE i # cur
      <4>1. PICK p \in 0 .. nb - 1 : table[p] = i
        BY <1>1, <3>2 DEF IInv, NoneLost
      <4>2. p # pos
        BY <1>1, <1>2, <4>1
      <4> QED
        BY <1>1, <1>4, <4>1, <4>2
    <3> QED
      BY <3>1, <3>2
  <2>2. CASE pc' = "insert"
    <3>1. \A i \in 1 .. taken' : i \in 1 .. taken \/ i = cur'
      BY <1>2, <1>3, <2>2
    <3> QED
      BY <1>1, <2>1, <2>2, <3>1 DEF NoneLost
  <2>3. CASE pc' = "done"
    BY <1>1, <1>3, <2>1, <2>3 DEF NoneLost
  <2> QED
    BY <1>3, <2>2, <2>3
<1> QED
  BY <1>1, <1>2, <1>3, <1>5, <1>7, <1>8 DEF IInv

LEMMA DisplaceInv == IInv /\ Displace => IInv'
<1> SUFFICES ASSUME IInv, Displace PROVE IInv'
  OBVIOUS
<1> DEFINE e == table[pos]
<1>1. pc = "insert" /\ e # 0 /\ Displaced /\ ~Overflow
      /\ table' = [table EXCEPT ![pos] = cur] /\ psls' = [psls EXCEPT ![pos] = psl]
      /\ cur' = e /\ pos' = NextPosition(pos) /\ psl' = psls[pos] + 1
      /\ taken' = taken /\ pc' = pc
      /\ hash' = hash /\ log' = log /\ top' = top /\ nb' = nb
  BY DEF Displace, Advance, input
<1>2. /\ IndexTypeOK /\ Len(log) \in Nat /\ nb \in Nat \ {0}
      /\ pos \in 0 .. nb - 1 /\ cur \in 1 .. Len(log) /\ taken \in 0 .. Len(log)
      /\ psl \in 0 .. MaxPsl /\ e \in 1 .. Len(log) /\ psls[pos] \in 0 .. MaxPsl
      /\ NextPosition(pos) \in 0 .. nb - 1
  BY <1>1, InHand
<1>4. table \in [0 .. nb - 1 -> 0 .. Len(log)] /\ psls \in [0 .. nb - 1 -> 0 .. MaxPsl]
      /\ MaxPsl \in Nat
  BY <1>2, IndexAssumption, Zenon DEF IndexTypeOK
<1>5. IndexTypeOK'
  <2>1. table' = [table EXCEPT ![pos] = cur] /\ psls' = [psls EXCEPT ![pos] = psl]
    BY <1>1
  <2>2. table' \in [0 .. nb - 1 -> 0 .. Len(log)] /\ psls' \in [0 .. nb - 1 -> 0 .. MaxPsl]
    <3>1. cur \in 0 .. Len(log)
      BY <1>2
    <3> QED
      BY <1>2, <1>4, <2>1, <3>1, Updated, Zenon
  <2>3. psls[pos] < psl /\ psl' = psls[pos] + 1
    BY <1>1 DEF Displaced
  <2>4. psl' \in 0 .. MaxPsl
    BY <1>2, <1>4, <2>3, StepUp, Zenon
  <2>5. cur' \in 0 .. Len(log) /\ taken' \in 0 .. Len(log) /\ pos' \in Nat /\ pc' = "insert"
    BY <1>1, <1>2
  <2>6. hash' = hash /\ log' = log /\ top' = top /\ nb' = nb
    BY <1>1
  <2> QED
    BY <1>2, <2>2, <2>4, <2>5, <2>6, TypeKept, Zenon
<1>7. NoGaps'
  <2>1. \A p \in 0 .. nb - 1 : table[p] # 0 => table'[p] # 0
    BY <1>1, <1>2, <1>4
  <2>2. ASSUME NEW q \in 0 .. nb - 1, table'[q] # 0, NEW p \in 0 .. nb - 1,
               InRun(HomePosition(Fp(table'[q]), nb), q, p)
        PROVE  table'[p] # 0
    <3>1. CASE q = pos
      <4>1. table'[q] = cur
        BY <1>1, <1>2, <1>4, <3>1
      <4> QED
        BY <1>1, <2>1, <2>2, <3>1, <4>1 DEF IInv, NoGaps
    <3>2. CASE q # pos
      <4>1. table'[q] = table[q]
        BY <1>1, <1>4, <3>2
      <4> QED
        BY <2>1, <2>2, <4>1 DEF IInv, NoGaps
    <3> QED
      BY <3>1, <3>2
  <2>3. \A q \in 0 .. nb - 1 : HomePosition(Fp(table[q]), nb)' = HomePosition(Fp(table'[q]), nb)
    BY <1>1 DEF HomePosition, Fp, CompactFingerprint
  <2>4. HomePosition(Fp(cur), nb)' = HomePosition(Fp(e), nb)
    BY <1>1 DEF HomePosition, Fp, CompactFingerprint
  <2>5. ASSUME NEW p \in 0 .. nb - 1, InRun(HomePosition(Fp(e), nb), NextPosition(pos), p)
        PROVE  table'[p] # 0
    <3>1. HomePosition(Fp(e), nb) \in 0 .. nb - 1
      BY <1>2, Homes, Zenon
    <3>2. InRun(HomePosition(Fp(e), nb), pos, p) \/ p = pos
      BY <1>2, <2>5, <3>1, RunStep
    <3> QED
      BY <1>1, <1>2, <2>1, <3>2 DEF IInv, NoGaps
  <2> QED
    BY <1>1, <2>2, <2>3, <2>4, <2>5 DEF NoGaps
<1>8. NoneLost'
  <2>1. ASSUME NEW i \in 1 .. taken PROVE i = e \/ \E p \in 0 .. nb - 1 : table'[p] = i
    <3>1. CASE i = cur
      BY <1>1, <1>2, <1>4, <3>1
    <3>2. CASE i # cur
      <4>1. PICK p \in 0 .. nb - 1 : table[p] = i
        BY <1>1, <3>2 DEF IInv, NoneLost
      <4> QED
        BY <1>1, <1>4, <4>1
    <3> QED
      BY <3>1, <3>2
  <2> QED
    BY <1>1, <2>1 DEF NoneLost
<1> QED
  BY <1>1, <1>2, <1>5, <1>7, <1>8 DEF IInv

LEMMA PassOverInv == IInv /\ PassOver => IInv'
<1> SUFFICES ASSUME IInv, PassOver PROVE IInv'
  OBVIOUS
<1>1. pc = "insert" /\ table[pos] # 0 /\ ~Displaced /\ ~Overflow
      /\ cur' = cur /\ pos' = NextPosition(pos) /\ psl' = psl + 1
      /\ taken' = taken /\ pc' = pc
      /\ hash' = hash /\ log' = log /\ top' = top /\ nb' = nb /\ table' = table /\ psls' = psls
  BY DEF PassOver, Advance, input, buckets
<1>2. /\ IndexTypeOK /\ Len(log) \in Nat /\ nb \in Nat \ {0}
      /\ pos \in 0 .. nb - 1 /\ cur \in 1 .. Len(log) /\ psl \in 0 .. MaxPsl
      /\ NextPosition(pos) \in 0 .. nb - 1
  BY <1>1, InHand
<1>3. IndexTypeOK'
  <2>1. psl' \in 0 .. MaxPsl
    BY <1>1, <1>2, IndexAssumption DEF Overflow
  <2>2. table' \in [0 .. nb - 1 -> 0 .. Len(log)] /\ psls' \in [0 .. nb - 1 -> 0 .. MaxPsl]
        /\ taken' \in 0 .. Len(log)
    BY <1>1, <1>2, Zenon DEF IndexTypeOK
  <2>3. cur' \in 0 .. Len(log) /\ pos' \in Nat /\ pc' = "insert"
    BY <1>1, <1>2
  <2> QED
    BY <1>1, <1>2, <2>1, <2>2, <2>3, TypeKept, Zenon
<1>4. NoGaps'
  <2>1. ASSUME NEW p \in 0 .. nb - 1, InRun(HomePosition(Fp(cur), nb), NextPosition(pos), p)
        PROVE  table[p] # 0
    <3>1. HomePosition(Fp(cur), nb) \in 0 .. nb - 1
      BY <1>2, Homes
    <3>2. InRun(HomePosition(Fp(cur), nb), pos, p) \/ p = pos
      BY <1>2, <2>1, <3>1, RunStep
    <3> QED
      BY <1>1, <3>2 DEF IInv, NoGaps
  <2>2. \A i : HomePosition(Fp(i), nb)' = HomePosition(Fp(i), nb)
    BY <1>1 DEF HomePosition, Fp, CompactFingerprint
  <2> QED
    BY <1>1, <2>1, <2>2 DEF IInv, NoGaps, Fp, HomePosition
<1>5. NoneLost'
  BY <1>1 DEF IInv, NoneLost
<1> QED
  BY <1>1, <1>2, <1>3, <1>4, <1>5 DEF IInv

LEMMA NextInv == IInv /\ [Next]_vars => IInv'
<1> SUFFICES ASSUME IInv, [Next]_vars PROVE IInv'
  OBVIOUS
<1>t. IndexTypeOK /\ Len(log) \in Nat /\ nb \in Nat
  <2>1. IndexTypeOK
    BY Zenon DEF IInv
  <2>2. Len(log) \in 0 .. MaxRecords /\ nb \in Nat
    BY <2>1, Zenon DEF IndexTypeOK
  <2> QED
    BY <2>1, <2>2
<1>1. ASSUME NEW k \in Key, Write(k) PROVE IInv'
  <2>1. nb = 0 /\ nb' = 0 /\ table' = table /\ psls' = psls /\ pc' \in {"write", "full"}
    BY <1>1 DEF Write, WriteValue, OffsetFits, IInv, buckets
  <2>2. IndexTypeOK'
    <3>1. CASE top <= MaxOffset
      <4> DEFINE Rec == [key : Key, off : 0 .. MaxOffset]
                 r == [key |-> k, off |-> top]
      <4>1. r \in Rec /\ log \in Seq(Rec)
        BY <1>t, <3>1, IndexAssumption DEF IndexTypeOK
      <4>2. log' = Append(log, r)
        BY <1>1, <3>1 DEF Write, WriteValue, OffsetFits
      <4> HIDE DEF r, Rec
      <4>3. log' \in Seq(Rec) /\ Len(log') = Len(log) + 1
        BY <4>1, <4>2
      <4>4. Len(log) < MaxRecords /\ pc' = pc /\ hash' = hash /\ top' = top + Units[k]
            /\ UNCHANGED hand
        BY <1>1, <3>1 DEF Write, WriteValue, OffsetFits
      <4>5. top' \in Nat
        BY <1>t, <4>4, IndexAssumption DEF IndexTypeOK
      <4>6. Len(log') \in 0 .. MaxRecords
        BY <1>t, <4>3, <4>4, IndexAssumption
      <4>7. table' \in [0 .. nb' - 1 -> 0 .. Len(log')] /\ psls' \in [0 .. nb' - 1 -> 0 .. MaxPsl]
        BY <1>t, <2>1, <4>3 DEF IndexTypeOK
      <4>8. taken' \in 0 .. Len(log') /\ cur' \in 0 .. Len(log') /\ pos' \in Nat
            /\ psl' \in 0 .. MaxPsl
        BY <1>t, <4>3, <4>4 DEF IndexTypeOK, hand
      <4> QED
        BY <1>t, <2>1, <4>3, <4>4, <4>5, <4>6, <4>7, <4>8 DEF IndexTypeOK, Rec
    <3>2. CASE ~(top <= MaxOffset)
      BY <1>1, <1>t, <2>1, <3>2, IndexAssumption DEF Write, WriteValue, OffsetFits, IndexTypeOK, buckets, hand
    <3> QED
      BY <3>1, <3>2
  <2>3. NoGaps' /\ NoneLost'
    BY <2>1 DEF NoGaps, NoneLost
  <2> QED
    BY <2>1, <2>2, <2>3 DEF IInv
<1>2. CASE BuildIndex
  <2>1. BucketCount(Len(log)) \in Nat /\ (Len(log) > 0 => BucketCount(Len(log)) > 0)
    BY <1>t DEF BucketCount
  <2> QED
    BY <1>2, <2>1, NewTableInv DEF BuildIndex
<1>3. CASE RefuseDuplicates
  BY <1>3 DEF RefuseDuplicates, IInv, IndexTypeOK, NoGaps, NoneLost, Fp, input, buckets, hand
<1>4. CASE Regrow
  <2>1. nb > 0
    BY <1>4 DEF Regrow, IInv
  <2>2. Grown(nb) \in Nat /\ Grown(nb) > 0
    BY <1>t, <2>1, IndexAssumption DEF Grown, LongestTable
  <2> QED
    BY <1>4, <2>2, NewTableInv DEF Regrow
<1>5. CASE PlaceInEmpty
  BY <1>5, PlaceInv, Zenon
<1>6. CASE Displace
  BY <1>6, DisplaceInv, Zenon
<1>7. CASE PassOver
  BY <1>7, PassOverInv, Zenon
<1>8. CASE UNCHANGED vars
  <2>1. /\ hash' = hash /\ log' = log /\ top' = top /\ nb' = nb /\ table' = table
        /\ psls' = psls /\ taken' = taken /\ cur' = cur /\ pos' = pos /\ psl' = psl /\ pc' = pc
    BY <1>8 DEF vars, input, buckets, hand
  <2>2. IndexTypeOK'
    BY <1>t, <2>1, Zenon DEF IndexTypeOK
  <2>3. NoGaps' /\ NoneLost'
    BY <2>1, Zenon DEF IInv, NoGaps, NoneLost, HomePosition, Fp
  <2> QED
    BY <2>1, <2>2, <2>3 DEF IInv
<1> QED
  BY <1>1, <1>2, <1>3, <1>4, <1>5, <1>6, <1>7, <1>8 DEF Next, Finished
-----------------------------------------------------------------------------
(* The lookup                                                               *)

\* A record that is in the table is among the buckets its lookup looks at.
LEMMA FoundWhereItIs ==
    ASSUME IInv, NEW i \in 1 .. Len(log), NEW p \in 0 .. nb - 1, table[p] = i
    PROVE  \E j \in Probed(Fp(i)) : Bucket(Fp(i), j) = i
<1> DEFINE h == HomePosition(Fp(i), nb)
           d == IF h <= p THEN p - h ELSE p + nb - h
<1>1. IndexTypeOK /\ nb \in Nat \ {0} /\ p \in Nat /\ i # 0
  <2>1. IndexTypeOK
    BY DEF IInv
  <2>2. nb \in Nat /\ Len(log) \in Nat
    BY <2>1 DEF IndexTypeOK
  <2> QED
    BY <2>1, <2>2
<1>2. h \in 0 .. nb - 1
  BY <1>1, Homes
<1>3. d \in 0 .. nb - 1 /\ d \in 0 .. ProbeLimit - 1
  <2> HIDE DEF h
  <2>1. ProbeLimit \in Nat /\ ProbeLimit >= nb
    BY <1>1, ProbeCovers, Zenon
  <2>2. d \in 0 .. nb - 1
    BY <1>1, <1>2
  <2> HIDE DEF d
  <2> QED
    BY <1>1, <2>1, <2>2
<1>4. ASSUME NEW j \in 0 .. d
      PROVE  /\ Bucket(Fp(i), j) # 0
             /\ j = d => Bucket(Fp(i), j) = i
  <2> DEFINE x == IF h + j < nb THEN h + j ELSE h + j - nb
  <2>1. j \in 0 .. nb
    BY <1>1, <1>3
  <2>2. (h + j) % nb = x
    BY <1>1, <1>2, <2>1, ModSum, Zenon
  <2>3. x \in 0 .. nb - 1 /\ (j = d => x = p) /\ (j # d => InRun(h, p, x))
    <3> HIDE DEF h
    <3>1. /\ nb \in Nat /\ nb > 0 /\ h \in Nat /\ h < nb /\ p \in Nat /\ p < nb
          /\ j \in Nat /\ j <= d /\ d \in Nat
      BY <1>1, <1>2, <1>3
    <3>2. CASE h <= p
      BY <3>1, <3>2 DEF InRun
    <3>3. CASE p < h /\ h + j < nb
      BY <3>1, <3>3 DEF InRun
    <3>4. CASE p < h /\ ~(h + j < nb)
      BY <3>1, <3>4 DEF InRun
    <3> QED
      BY <3>1, <3>2, <3>3, <3>4
  <2>4. Bucket(Fp(i), j) = table[x]
    BY <2>2 DEF Bucket
  <2>5. j # d => table[x] # 0
    <3> HIDE DEF x, d
    <3> QED
      BY <1>1, <2>3 DEF IInv, NoGaps
  <2> HIDE DEF x, d
  <2> QED
    BY <1>1, <2>3, <2>4, <2>5
<1> HIDE DEF d
<1>5. \A j \in 0 .. d : Bucket(Fp(i), j) # 0
  BY <1>4
<1>6. d \in 0 .. d
  BY <1>3
<1>7. d \in Probed(Fp(i))
  BY <1>1, <1>3, <1>5 DEF Probed
<1> QED
  BY <1>4, <1>6, <1>7

LEMMA InvFinds == IInv => FindsWhatWasWritten
<1> SUFFICES ASSUME IInv, pc = "done", NEW k \in Key PROVE Hit(k) <=> Present(k)
  BY DEF FindsWhatWasWritten
<1>1. Hit(k) => Present(k)
  BY DEF Hit, Verified, Present
<1>2. ASSUME NEW i \in 1 .. Len(log), log[i].key = k PROVE Hit(k)
  <2>1. Fp(i) = CompactFingerprint(hash[k])
    BY <1>2 DEF Fp
  <2>2. PICK p \in 0 .. nb - 1 : table[p] = i
    BY DEF IInv, NoneLost
  <2>3. PICK j \in Probed(Fp(i)) : Bucket(Fp(i), j) = i
    BY <2>2, FoundWhereItIs
  <2>4. log[i].off # NoMatch
    <3> DEFINE Rec == [key : Key, off : 0 .. MaxOffset]
    <3>1. log \in Seq(Rec)
      BY DEF IInv, IndexTypeOK
    <3> HIDE DEF Rec
    <3>2. log[i] \in Rec
      BY <3>1
    <3>3. log[i].off \in 0 .. MaxOffset
      BY <3>2 DEF Rec
    <3> QED
      BY <3>3, IndexAssumption DEF NoMatch
  <2>5. j \in Candidates(Fp(i))
    BY <2>3, <2>4 DEF Candidates
  <2>6. Verified(k, log[Bucket(Fp(i), j)].off)
    BY <1>2, <2>3 DEF Verified
  <2> QED
    BY <2>1, <2>5, <2>6 DEF Hit
<1> QED
  BY <1>1, <1>2 DEF Present

LEMMA InvHolds == Spec => []IInv
<1> QED
  BY InitInv, NextInv, PTL DEF Spec

\* Every state of the index build is well typed: in particular a stored probe
\* length fits the byte that holds it, and a stored offset is never NO_MATCH.
THEOREM IndexTypeCorrect == Spec => []IndexTypeOK
<1>1. IInv => IndexTypeOK
  BY DEF IInv
<1> QED
  BY <1>1, InvHolds, PTL

\* No insertion step, displacement or growth leaves an empty bucket between a
\* record and its home, so that get may stop at the first empty bucket.
THEOREM NoGapsAlways == Spec => []NoGaps
<1>1. IInv => NoGaps
  BY DEF IInv
<1> QED
  BY <1>1, InvHolds, PTL

\* PartitionReader::get on a table that build has finished hits exactly the keys
\* that PartitionWriter::write was given.
THEOREM LookupCorrect == Spec => []FindsWhatWasWritten
BY InvFinds, InvHolds, PTL
=============================================================================
