-------------------------- MODULE DownloaderProofs ---------------------------
(***************************************************************************)
(* Theorems about Downloader, for any submissions, ids, files and workers, *)
(* any channel and history, and any number of restarts: the table is       *)
(* sound, and the container keeps the promises of Sidecar.  And about the  *)
(* instance T of Transfers in DownloaderMC, for any transfers, versions,   *)
(* lengths and limits: what has its real name is whole.                    *)
(***************************************************************************)
EXTENDS DownloaderMC, FiniteSetTheorems, SequenceTheorems, WellFoundedInduction, TLAPS

-----------------------------------------------------------------------------
(* The table and its order *)

\* What TableInOrder says, of any table and any order.
InOrder(tab, ord) ==
  /\ \A i \in Ids : tab[i] # Null => \E n \in DOMAIN ord : ord[n] = i
  /\ \A m, n \in DOMAIN ord : ord[m] = ord[n] => m = n
  /\ \A n \in DOMAIN ord : tab[ord[n]] # Null

Tables == [Ids -> Jobs \cup {Null}]
States == [Jobs -> Active \cup Over]

\* A set of positions that has every position before one of its own is an initial segment.
LEMMA Segment ==
  ASSUME NEW N \in Int, NEW S, S \subseteq 1..N,
         \A n \in S : \A m \in 1..n : m \in S
  PROVE  Cardinality(S) \in Nat /\ S = 1..Cardinality(S)
<1> DEFINE outside == Nat \ (S \cup {0})
<1>1. outside # {}
  <2>1. CASE N \in Nat
    <3>1. N + 1 \in outside
      BY <2>1
    <3> QED
      BY <3>1
  <2>2. CASE N \notin Nat
    <3>1. 1 \in outside
      BY <2>2
    <3> QED
      BY <3>1
  <2> QED
    BY <2>1, <2>2
<1>2. PICK k \in outside : \A m \in outside : ~(m < k)
  <2>1. PICK k \in outside : \A m \in outside : ~(<<m, k>> \in OpToRel(<, Nat))
    <3> HIDE DEF outside
    <3>1. outside \subseteq Nat
      BY DEF outside
    <3> QED
      BY <1>1, <3>1, NatLessThanWellFounded, WFMin, Zenon
  <2> QED
    BY <2>1 DEF OpToRel
<1>3. S = 1..(k - 1)
  <2>1. ASSUME NEW n \in S
        PROVE  n \in 1..(k - 1)
    <3>1. n \in Nat /\ n >= 1
      OBVIOUS
    <3>2. k \in Nat /\ k >= 1 /\ k \notin S
      OBVIOUS
    <3>3. ~(k \in 1..n)
      BY <3>2
    <3> QED
      BY <3>1, <3>2, <3>3
  <2>2. ASSUME NEW n \in 1..(k - 1)
        PROVE  n \in S
    <3>1. n \in Nat /\ n # 0 /\ n < k
      OBVIOUS
    <3> QED
      BY <3>1, <1>2
  <2> QED
    BY <2>1, <2>2
<1>4. Cardinality(1..(k - 1)) = k - 1
  BY FS_Interval
<1> QED
  BY <1>3, <1>4

\* What an eviction does to a table in order: it stays in order, and what leaves it is over.
LEMMA Evicting ==
  ASSUME NEW tab \in Tables, NEW ord \in Seq(Ids), NEW st \in States,
         InOrder(tab, ord), Evict(tab, ord, st)
  PROVE  /\ table' \in Tables
         /\ order' \in Seq(Ids)
         /\ InOrder(table', order')
         /\ \A i \in Ids : table'[i] \in {tab[i], Null}
         /\ \A i \in Ids : tab[i] # Null /\ table'[i] = Null => st[tab[i]] \in Over
<1> DEFINE gone == Evictable(tab, ord, st)
           k    == Cardinality(gone)
<1>1. Len(ord) \in Nat /\ DOMAIN ord = 1..Len(ord) /\ \A n \in 1..Len(ord) : ord[n] \in Ids
  BY LenProperties, ElementOfSeq
<1>2. gone \subseteq 1..(Len(ord) - History) /\ History \in Nat \ {0}
  BY DownloaderAssumption DEF Evictable
<1>3. \A n \in gone : \A m \in 1..n : m \in gone
  BY <1>1, <1>2 DEF Evictable
<1>4. k \in Nat /\ gone = 1..k
  <2>1. Len(ord) - History \in Int
    BY <1>1, <1>2
  <2> HIDE DEF gone
  <2> QED
    BY <1>2, <1>3, <2>1, Segment
<1>5. k <= Len(ord)
  BY <1>1, <1>2, <1>4
<1>6. \A n \in gone : n \in DOMAIN ord /\ tab[ord[n]] # Null /\ st[tab[ord[n]]] \in Over
  <2> SUFFICES ASSUME NEW n \in gone
               PROVE  n \in DOMAIN ord /\ tab[ord[n]] # Null /\ st[tab[ord[n]]] \in Over
    OBVIOUS
  <2>1. n \in DOMAIN ord
    BY <1>1, <1>4, <1>5
  <2>2. n \in 1..n
    BY <1>4
  <2> QED
    BY <2>1, <2>2 DEF InOrder, Evictable
<1>7. /\ table' = [i \in Ids |-> IF \E n \in gone : ord[n] = i THEN Null ELSE tab[i]]
      /\ order' = SubSeq(ord, k + 1, Len(ord))
  BY DEF Evict
<1> HIDE DEF gone, k
<1>8. /\ order' \in Seq(Ids)
      /\ Len(order') = Len(ord) - k
      /\ DOMAIN order' = 1..(Len(ord) - k)
      /\ \A n \in 1..(Len(ord) - k) : order'[n] = ord[n + k]
  <2>1. k + 1 \in Int /\ Len(ord) \in Int /\ \A n \in (k + 1)..Len(ord) : ord[n] \in Ids
    BY <1>1, <1>4
  <2>2. /\ order' \in Seq(Ids)
        /\ Len(order') = IF k + 1 <= Len(ord) THEN Len(ord) - (k + 1) + 1 ELSE 0
        /\ \A n \in 1..(Len(ord) - (k + 1) + 1) : order'[n] = ord[k + 1 + n - 1]
    BY <1>7, <2>1, SubSeqProperties
  <2>3. Len(order') = Len(ord) - k
    <3>1. \A l \in Nat : k <= l => (IF k + 1 <= l THEN l - (k + 1) + 1 ELSE 0) = l - k
      BY <1>4
    <3> QED
      BY <1>1, <1>5, <2>2, <3>1
  <2>4. DOMAIN order' = 1..(Len(ord) - k)
    BY <2>2, <2>3, LenProperties
  <2>5. \A n \in 1..(Len(ord) - k) : order'[n] = ord[n + k]
    <3> TAKE n \in 1..(Len(ord) - k)
    <3>1. n \in 1..(Len(ord) - (k + 1) + 1) /\ k + 1 + n - 1 = n + k
      BY <1>1, <1>4
    <3> QED
      BY <2>2, <3>1
  <2> QED
    BY <2>2, <2>3, <2>4, <2>5
<1>9. table' \in Tables /\ \A i \in Ids : table'[i] \in {tab[i], Null}
  BY <1>7 DEF Tables
<1>10. \A i \in Ids : tab[i] # Null /\ table'[i] = Null => st[tab[i]] \in Over
  BY <1>6, <1>7
<1>11. \A n \in 1..(Len(ord) - k) : n + k \in DOMAIN ord /\ n + k \notin gone
  BY <1>1, <1>4, <1>5
<1>12. InOrder(table', order')
  <2>1. ASSUME NEW i \in Ids, table'[i] # Null
        PROVE  \E n \in DOMAIN order' : order'[n] = i
    <3>1. tab[i] # Null /\ \A n \in gone : ord[n] # i
      BY <1>7, <2>1
    <3>2. PICK m \in DOMAIN ord : ord[m] = i
      BY <3>1 DEF InOrder
    <3>3. m \in 1..Len(ord) /\ ~(m \in 1..k)
      BY <1>1, <1>4, <3>1, <3>2
    <3>4. m - k \in 1..(Len(ord) - k) /\ (m - k) + k = m
      BY <1>1, <1>4, <3>3
    <3> QED
      BY <1>8, <3>2, <3>4
  <2>2. ASSUME NEW m \in DOMAIN order', NEW n \in DOMAIN order', order'[m] = order'[n]
        PROVE  m = n
    <3>1. m \in 1..(Len(ord) - k) /\ n \in 1..(Len(ord) - k) /\ ord[m + k] = ord[n + k]
      BY <1>8, <2>2
    <3>2. m + k = n + k
      BY <1>11, <3>1 DEF InOrder
    <3> QED
      BY <1>1, <1>4, <3>1, <3>2
  <2>3. ASSUME NEW n \in DOMAIN order'
        PROVE  table'[order'[n]] # Null
    <3>1. n \in 1..(Len(ord) - k) /\ order'[n] = ord[n + k] /\ n + k \in DOMAIN ord /\ n + k \notin gone
      BY <1>8, <1>11
    <3>2. tab[ord[n + k]] # Null /\ ord[n + k] \in Ids
      BY <1>1, <3>1 DEF InOrder
    <3>3. \A m \in gone : ord[m] # ord[n + k]
      BY <1>6, <3>1 DEF InOrder
    <3> QED
      BY <1>7, <3>1, <3>2, <3>3
  <2> QED
    BY <2>1, <2>2, <2>3 DEF InOrder
<1> QED
  BY <1>8, <1>9, <1>10, <1>12

\* A new entry goes to the end.
LEMMA Registering ==
  ASSUME NEW tab \in Tables, NEW ord \in Seq(Ids), NEW i \in Ids, NEW j \in Jobs,
         InOrder(tab, ord), tab[i] = Null
  PROVE  /\ [tab EXCEPT ![i] = j] \in Tables
         /\ Append(ord, i) \in Seq(Ids)
         /\ InOrder([tab EXCEPT ![i] = j], Append(ord, i))
<1> DEFINE new == [tab EXCEPT ![i] = j]
           app == Append(ord, i)
<1>1. Len(ord) \in Nat /\ DOMAIN ord = 1..Len(ord) /\ \A n \in 1..Len(ord) : ord[n] \in Ids
  BY LenProperties, ElementOfSeq
<1>2. /\ app \in Seq(Ids)
      /\ Len(app) = Len(ord) + 1
      /\ \A n \in 1..Len(ord) : app[n] = ord[n]
      /\ app[Len(ord) + 1] = i
  BY AppendProperties
<1>3. DOMAIN app = 1..(Len(ord) + 1)
  BY <1>2, LenProperties
<1>4. new \in Tables /\ new[i] = j /\ j # Null /\ \A k \in Ids : k # i => new[k] = tab[k]
  BY DownloaderAssumption DEF Tables
<1>5. \A n \in 1..Len(ord) : ord[n] # i
  BY <1>1 DEF InOrder
<1> HIDE DEF new, app
<1>6. ASSUME NEW k \in Ids, new[k] # Null
      PROVE  \E n \in DOMAIN app : app[n] = k
  <2>1. CASE k = i
    BY <1>1, <1>2, <1>3, <2>1
  <2>2. CASE k # i
    <3>1. PICK n \in 1..Len(ord) : ord[n] = k
      BY <1>1, <1>4, <1>6, <2>2 DEF InOrder
    <3> QED
      BY <1>1, <1>2, <1>3, <3>1
  <2> QED
    BY <2>1, <2>2
<1>7. \A m, n \in DOMAIN app : app[m] = app[n] => m = n
  BY <1>1, <1>2, <1>3, <1>5 DEF InOrder
<1>8. \A n \in DOMAIN app : new[app[n]] # Null
  BY <1>1, <1>2, <1>3, <1>4, <1>5 DEF InOrder
<1> QED
  BY <1>2, <1>4, <1>6, <1>7, <1>8 DEF InOrder, new, app

\* The entry of an id is taken out together with its job.
LEMMA Dropping ==
  ASSUME table \in Tables, order \in Seq(Ids), InOrder(table, order), NEW i \in Ids
  PROVE  /\ [table EXCEPT ![i] = Null] \in Tables
         /\ Without(i) \in Seq(Ids)
         /\ InOrder([table EXCEPT ![i] = Null], Without(i))
<1> DEFINE new == [table EXCEPT ![i] = Null]
           entries == {n \in DOMAIN order : order[n] = i}
           L == Len(order)
<1>1. L \in Nat /\ DOMAIN order = 1..L /\ \A n \in 1..L : order[n] \in Ids
  BY LenProperties, ElementOfSeq
<1>2. new \in Tables /\ new[i] = Null /\ \A k \in Ids : k # i => new[k] = table[k]
  BY DEF Tables
<1>3. CASE entries = {}
  <2>1. Without(i) = order /\ table[i] = Null
    BY <1>1, <1>3 DEF Without, InOrder
  <2>2. new = table
    BY <2>1 DEF Tables
  <2> QED
    BY <1>2, <2>1, <2>2
<1>4. CASE entries # {}
  <2>1. PICK f \in 1..L : order[f] = i
    BY <1>1, <1>4
  <2>2. entries = {f}
    BY <1>1, <2>1 DEF InOrder
  <2>3. (CHOOSE n \in entries : \A m \in entries : n <= m) = f
    BY <1>1, <2>1, <2>2
  <2>4. Without(i) = SubSeq(order, 1, f - 1) \o SubSeq(order, f + 1, L)
    BY <1>4, <2>3 DEF Without
  <2> DEFINE front == SubSeq(order, 1, f - 1)
             back  == SubSeq(order, f + 1, L)
             rest  == Without(i)
  <2>5. /\ front \in Seq(Ids) /\ Len(front) = f - 1
        /\ \A n \in 1..(f - 1) : front[n] = order[n]
    <3>1. \A n \in 1..(f - 1) : order[n] \in Ids
      BY <1>1
    <3>2. /\ front \in Seq(Ids)
          /\ Len(front) = IF 1 <= f - 1 THEN (f - 1) - 1 + 1 ELSE 0
          /\ \A n \in 1..((f - 1) - 1 + 1) : front[n] = order[1 + n - 1]
      BY <3>1, SubSeqProperties
    <3> HIDE DEF front
    <3>3. \A n \in 1..(f - 1) : n \in 1..((f - 1) - 1 + 1) /\ 1 + n - 1 = n
      OBVIOUS
    <3>4. (IF 1 <= f - 1 THEN (f - 1) - 1 + 1 ELSE 0) = f - 1
      OBVIOUS
    <3> QED
      BY <3>2, <3>3, <3>4
  <2>6. /\ back \in Seq(Ids) /\ Len(back) = L - f
        /\ \A n \in 1..(L - f) : back[n] = order[f + n]
    <3>1. \A n \in (f + 1)..L : order[n] \in Ids
      BY <1>1
    <3>2. /\ back \in Seq(Ids)
          /\ Len(back) = IF f + 1 <= L THEN L - (f + 1) + 1 ELSE 0
          /\ \A n \in 1..(L - (f + 1) + 1) : back[n] = order[f + 1 + n - 1]
      BY <1>1, <3>1, SubSeqProperties
    <3> HIDE DEF back, L
    <3>3. \A n \in 1..(L - f) : n \in 1..(L - (f + 1) + 1) /\ f + 1 + n - 1 = f + n
      BY <1>1
    <3>4. (IF f + 1 <= L THEN L - (f + 1) + 1 ELSE 0) = L - f
      BY <1>1
    <3> QED
      BY <3>2, <3>3, <3>4
  <2>7. /\ rest \in Seq(Ids) /\ DOMAIN rest = 1..(L - 1)
        /\ \A n \in 1..(L - 1) : rest[n] = IF n < f THEN order[n] ELSE order[n + 1]
    <3>1. /\ rest \in Seq(Ids)
          /\ Len(rest) = (f - 1) + (L - f)
          /\ \A n \in 1..((f - 1) + (L - f)) :
               rest[n] = IF n <= f - 1 THEN front[n] ELSE back[n - (f - 1)]
      <4>1. rest = front \o back
        BY <2>4
      <4> HIDE DEF front, back, rest, L
      <4>2. /\ front \o back \in Seq(Ids)
            /\ Len(front \o back) = Len(front) + Len(back)
            /\ \A n \in 1..(Len(front) + Len(back)) :
                 (front \o back)[n] = IF n <= Len(front) THEN front[n] ELSE back[n - Len(front)]
        BY <2>5, <2>6, ConcatProperties
      <4> QED
        BY <2>5, <2>6, <4>1, <4>2
    <3>2. (f - 1) + (L - f) = L - 1
      BY <1>1
    <3>3. DOMAIN rest = 1..(L - 1)
      BY <3>1, <3>2, LenProperties
    <3>4. ASSUME NEW n \in 1..(L - 1)
          PROVE  rest[n] = IF n < f THEN order[n] ELSE order[n + 1]
      <4>1. CASE n < f
        <5>1. n \in 1..(f - 1)
          BY <4>1
        <5> QED
          BY <2>5, <3>1, <3>2, <4>1, <5>1
      <4>2. CASE ~(n < f)
        <5>1. n - (f - 1) \in 1..(L - f) /\ f + (n - (f - 1)) = n + 1
          BY <1>1, <4>2
        <5> HIDE DEF front, back, rest
        <5>2. rest[n] = back[n - (f - 1)]
          BY <3>1, <3>2, <4>2
        <5> QED
          BY <2>6, <4>2, <5>1, <5>2
      <4> QED
        BY <4>1, <4>2
    <3> QED
      BY <3>1, <3>3, <3>4
  <2> HIDE DEF new, rest, L, entries
  <2>8. ASSUME NEW k \in Ids, new[k] # Null
        PROVE  \E n \in DOMAIN rest : rest[n] = k
    <3>1. PICK n \in 1..L : order[n] = k /\ n # f
      BY <1>1, <1>2, <2>1, <2>8 DEF InOrder
    <3>2. CASE n < f
      BY <1>1, <2>7, <3>1, <3>2
    <3>3. CASE n > f
      <4>1. n - 1 \in 1..(L - 1) /\ ~(n - 1 < f) /\ (n - 1) + 1 = n
        BY <1>1, <3>3
      <4> QED
        BY <2>7, <3>1, <4>1
    <3> QED
      BY <3>1, <3>2, <3>3
  <2> DEFINE at(n) == IF n < f THEN n ELSE n + 1
  <2>9. \A n \in 1..(L - 1) : at(n) \in 1..L /\ at(n) # f /\ rest[n] = order[at(n)]
    BY <1>1, <2>7
  <2>10. \A m, n \in 1..(L - 1) : at(m) = at(n) => m = n
    BY <1>1
  <2> HIDE DEF at
  <2>11. ASSUME NEW m \in DOMAIN rest, NEW n \in DOMAIN rest, rest[m] = rest[n]
         PROVE  m = n
    <3>1. at(m) = at(n)
      BY <1>1, <2>7, <2>9, <2>11 DEF InOrder
    <3> QED
      BY <2>7, <2>10, <3>1
  <2>12. ASSUME NEW n \in DOMAIN rest
         PROVE  new[rest[n]] # Null
    <3>1. at(n) \in 1..L /\ at(n) # f /\ rest[n] = order[at(n)]
      BY <2>7, <2>9
    <3>2. order[at(n)] # i /\ order[at(n)] \in Ids /\ table[order[at(n)]] # Null
      BY <1>1, <2>1, <3>1 DEF InOrder
    <3> QED
      BY <1>2, <3>1, <3>2
  <2>13. rest \in Seq(Ids) /\ InOrder(new, rest)
    BY <2>7, <2>8, <2>11, <2>12 DEF InOrder
  <2> QED
    BY <1>2, <2>13 DEF new, rest
<1> QED
  BY <1>3, <1>4

-----------------------------------------------------------------------------
(* The inductive invariant *)

Unstarted == {"queued", "cancelled"}

\* A job is in one place at most, and in a state that goes with it.
JobInv ==
  /\ \A j \in Jobs : handler[j] = "new" => state[j] = "queued"
  /\ \A j \in Jobs : handler[j] = "sending" => state[j] \in Unstarted
  /\ \A n \in DOMAIN queue : handler[queue[n]] = "accepted" /\ state[queue[n]] \in Unstarted
  /\ \A m, n \in DOMAIN queue : queue[m] = queue[n] => m = n
  /\ \A w \in Workers : current[w] # Null =>
       handler[current[w]] = "accepted" /\ \A n \in DOMAIN queue : queue[n] # current[w]
  /\ \A v, w \in Workers : current[v] # Null /\ current[v] = current[w] => v = w
  /\ \A w \in Workers : worker[w] = "begin" => state[current[w]] \in Unstarted
  /\ \A w \in Workers : worker[w] \in {"fetching", "finish"} => state[current[w]] \in {"running", "cancelled"}

\* The job of an entry is the last one registered under its id, and so is one being sent.
KnownInv ==
  /\ \A i \in Ids : table[i] # Null => table[i] = latest[i]
  /\ \A i \in Ids : latest[i] # Null => IdOf[latest[i]] = i /\ handler[latest[i]] \in {"sending", "accepted"}
  /\ \A j \in Jobs : handler[j] = "sending" => latest[IdOf[j]] = j

TableInv == TableSound /\ JobInv /\ KnownInv

\* TableInOrder is InOrder of the table and the order there are.
LEMMA TableIsInOrder == TableInOrder <=> InOrder(table, order)
BY DEF TableInOrder, InOrder

\* The table starts empty, and sound.
LEMMA TableInitial == Init => TableInv
<1> SUFFICES ASSUME Init
             PROVE  TableInv
  OBVIOUS
<1> USE DownloaderAssumption DEF Init
<1>1. TypeOK
  BY EmptySeq DEF TypeOK, Active, Over
<1>2. LiveIsKnown /\ TableInOrder
  BY DEF LiveIsKnown, Live, TableInOrder
<1>3. JobInv /\ KnownInv
  BY DEF JobInv, KnownInv, Unstarted
<1> QED
  BY <1>1, <1>2, <1>3 DEF TableInv, TableSound

\* A step that neither registers, drops nor evicts, and makes no job live.
LEMMA Unlisted ==
  ASSUME TableInv, UNCHANGED <<table, order, latest>>,
         \A j \in Jobs : Live(j)' => Live(j),
         \A j \in Jobs : /\ handler'[j] = "sending" => handler[j] = "sending"
                         /\ handler[j] \in {"sending", "accepted"} => handler'[j] \in {"sending", "accepted"}
  PROVE  KnownInv' /\ LiveIsKnown' /\ TableInOrder'
<1>1. TypeOK /\ KnownInv /\ LiveIsKnown /\ TableInOrder
  BY DEF TableInv, TableSound
<1>2. LiveIsKnown'
  BY <1>1 DEF LiveIsKnown
<1>3. TableInOrder'
  BY <1>1 DEF TableInOrder
<1>4. KnownInv'
  BY <1>1 DEF KnownInv, TypeOK
<1> QED
  BY <1>2, <1>3, <1>4

\* Positions of the channel, before and after it moves.
LEMMA Channel ==
  ASSUME NEW q \in Seq(Jobs)
  PROVE  /\ Len(q) \in Nat /\ DOMAIN q = 1..Len(q)
         /\ \A n \in DOMAIN q : q[n] \in Jobs
         /\ \A j \in Jobs : /\ Append(q, j) \in Seq(Jobs)
                            /\ DOMAIN Append(q, j) = 1..(Len(q) + 1)
                            /\ \A n \in DOMAIN q : Append(q, j)[n] = q[n]
                            /\ Append(q, j)[Len(q) + 1] = j
         /\ q # <<>> => /\ Head(q) = q[1] /\ 1 \in DOMAIN q
                        /\ Tail(q) \in Seq(Jobs)
                        /\ \A n \in DOMAIN Tail(q) : /\ n + 1 \in DOMAIN q /\ n + 1 # 1
                                                     /\ Tail(q)[n] = q[n + 1]
<1>1. Len(q) \in Nat /\ DOMAIN q = 1..Len(q) /\ \A n \in DOMAIN q : q[n] \in Jobs
  BY LenProperties, ElementOfSeq
<1>2. ASSUME NEW j \in Jobs
      PROVE  /\ Append(q, j) \in Seq(Jobs)
             /\ DOMAIN Append(q, j) = 1..(Len(q) + 1)
             /\ \A n \in DOMAIN q : Append(q, j)[n] = q[n]
             /\ Append(q, j)[Len(q) + 1] = j
  BY <1>1, AppendProperties, LenProperties
<1>3. ASSUME q # <<>>
      PROVE  /\ Head(q) = q[1] /\ 1 \in DOMAIN q
             /\ Tail(q) \in Seq(Jobs)
             /\ \A n \in DOMAIN Tail(q) : /\ n + 1 \in DOMAIN q /\ n + 1 # 1
                                          /\ Tail(q)[n] = q[n + 1]
  <2>1. Len(q) >= 1 /\ 1 \in DOMAIN q
    BY <1>1, <1>3, EmptySeq
  <2>2. Head(q) = q[1]
    OBVIOUS
  <2>3. /\ Tail(q) \in Seq(Jobs) /\ Len(Tail(q)) = Len(q) - 1
        /\ \A n \in 1..Len(Tail(q)) : Tail(q)[n] = q[n + 1]
    BY <1>3, HeadTailProperties
  <2>4. DOMAIN Tail(q) = 1..(Len(q) - 1)
    BY <2>3, LenProperties
  <2> QED
    BY <1>1, <2>1, <2>2, <2>3, <2>4
<1> QED
  BY <1>1, <1>2, <1>3

\* TableInv is inductive.
LEMMA TableStep == TableInv /\ [Next]_vars => TableInv'
<1> SUFFICES ASSUME TableInv, [Next]_vars
             PROVE  TableInv'
  OBVIOUS
<1> USE DownloaderAssumption
<1>0. /\ TypeOK /\ LiveIsKnown /\ TableInOrder /\ JobInv /\ KnownInv
      /\ table \in Tables /\ order \in Seq(Ids) /\ queue \in Seq(Jobs) /\ state \in States
      /\ InOrder(table, order)
  BY TableIsInOrder DEF TableInv, TableSound, TypeOK, Tables, States
<1>1. CASE UNCHANGED vars
  <2>1. TypeOK'
    BY <1>0, <1>1 DEF TypeOK, vars, manager, slots, process
  <2>2. JobInv' /\ KnownInv'
    BY <1>0, <1>1 DEF JobInv, KnownInv, vars, manager, slots, process
  <2>3. LiveIsKnown' /\ TableInOrder'
    BY <1>0, <1>1 DEF LiveIsKnown, Live, TableInOrder, vars, manager, slots, process
  <2> QED
    BY <2>1, <2>2, <2>3 DEF TableInv, TableSound
<1>2. ASSUME NEW j \in Jobs, SubmitKnown(j)
      PROVE  TableInv'
  <2>1. /\ handler[j] = "new" /\ handler' = [handler EXCEPT ![j] = "known"]
        /\ UNCHANGED <<table, order, queue, state, worker, current, stopped, item, verdict, closing, restarts, latest>>
    BY <1>2 DEF SubmitKnown, Handled, manager, slots, process
  <2>2. TypeOK'
    BY <1>0, <2>1 DEF TypeOK
  <2>3. JobInv'
    BY <1>0, <2>1, Channel DEF TypeOK, JobInv
  <2>4. KnownInv' /\ LiveIsKnown' /\ TableInOrder'
    BY <1>0, <2>1, Unlisted DEF TypeOK, Live
  <2> QED
    BY <2>2, <2>3, <2>4 DEF TableInv, TableSound
<1>3. ASSUME NEW j \in Jobs, Register(j)
      PROVE  TableInv'
  <2> DEFINE i   == IdOf[j]
             tab == [table EXCEPT ![i] = j]
  <2>1. /\ handler[j] = "new" /\ handler' = [handler EXCEPT ![j] = "sending"]
        /\ i \in Ids /\ table[i] = Null
        /\ \A k \in Jobs : handler[k] = "sending" => IdOf[k] # i
        /\ latest' = [latest EXCEPT ![i] = j]
        /\ UNCHANGED <<queue, state, worker, current, stopped, item, verdict, closing, restarts>>
    BY <1>3 DEF Register, Handled, slots, process
  <2>2. /\ tab \in Tables /\ Append(order, i) \in Seq(Ids) /\ InOrder(tab, Append(order, i))
        /\ Evict(tab, Append(order, i), state)
    BY <1>0, <1>3, <2>1, Registering DEF Register
  <2>3. tab[i] = j /\ \A k \in Ids : k # i => tab[k] = table[k]
    BY <1>0, <2>1 DEF Tables
  <2> HIDE DEF tab
  <2>4. /\ table' \in Tables /\ order' \in Seq(Ids) /\ InOrder(table', order')
        /\ \A k \in Ids : table'[k] \in {tab[k], Null}
        /\ \A k \in Ids : tab[k] # Null /\ table'[k] = Null => state[tab[k]] \in Over
    BY <1>0, <2>2, Evicting
  <2>5. TypeOK'
    BY <1>0, <2>1, <2>4 DEF TypeOK, Tables
  <2>6. JobInv'
    BY <1>0, <2>1, Channel DEF TypeOK, JobInv, Unstarted
  <2>7. KnownInv'
    BY <1>0, <2>1, <2>3, <2>4 DEF TypeOK, KnownInv
  <2>8. LiveIsKnown'
    <3> SUFFICES ASSUME NEW k \in Jobs, Live(k)'
                 PROVE  table'[IdOf[k]] = k
      BY DEF LiveIsKnown
    <3>1. tab[IdOf[k]] = k
      <4>1. CASE k = j
        BY <2>3, <4>1
      <4>2. CASE k # j
        <5>1. Live(k)
          BY <1>0, <2>1, <4>2 DEF Live, TypeOK
        <5>2. table[IdOf[k]] = k /\ IdOf[k] # i
          BY <1>0, <2>1, <5>1 DEF LiveIsKnown
        <5> QED
          BY <2>3, <5>2
      <4> QED
        BY <4>1, <4>2
    <3>2. state[k] \notin Over
      BY <2>1 DEF Live, Active, Over
    <3> QED
      BY <2>4, <3>1, <3>2
  <2>9. TableInOrder'
    BY <2>4 DEF TableInOrder, InOrder
  <2> QED
    BY <2>5, <2>6, <2>7, <2>8, <2>9 DEF TableInv, TableSound
<1>4. ASSUME NEW j \in Jobs, Send(j)
      PROVE  TableInv'
  <2>1. /\ handler[j] = "sending" /\ handler' = [handler EXCEPT ![j] = "accepted"]
        /\ queue' = Append(queue, j)
        /\ UNCHANGED <<table, order, state, worker, current, stopped, item, verdict, closing, restarts, latest>>
    BY <1>4 DEF Send, Handled, slots, process
  <2>2. TypeOK'
    BY <1>0, <2>1, Channel DEF TypeOK
  <2>3. JobInv'
    <3>1. /\ queue' \in Seq(Jobs) /\ DOMAIN queue' = 1..(Len(queue) + 1)
          /\ Len(queue) \in Nat /\ DOMAIN queue = 1..Len(queue)
          /\ \A n \in DOMAIN queue : queue'[n] = queue[n] /\ queue[n] \in Jobs
          /\ queue'[Len(queue) + 1] = j
      BY <1>0, <2>1, Channel
    <3>2. \A n \in DOMAIN queue' : n = Len(queue) + 1 \/ n \in DOMAIN queue
      BY <3>1
    <3>3. \A n \in DOMAIN queue : queue[n] # j
      BY <1>0, <2>1 DEF JobInv
    <3>4. \A w \in Workers : current[w] # j
      BY <1>0, <2>1 DEF JobInv
    <3>5. \A n \in DOMAIN queue' : handler'[queue'[n]] = "accepted" /\ state[queue'[n]] \in Unstarted
      BY <1>0, <2>1, <3>1, <3>2 DEF JobInv, TypeOK
    <3>6. \A m, n \in DOMAIN queue' : queue'[m] = queue'[n] => m = n
      BY <1>0, <3>1, <3>2, <3>3 DEF JobInv
    <3> QED
      BY <1>0, <2>1, <3>1, <3>2, <3>4, <3>5, <3>6 DEF JobInv, TypeOK
  <2>4. KnownInv' /\ LiveIsKnown' /\ TableInOrder'
    BY <1>0, <2>1, Unlisted DEF TypeOK, Live
  <2> QED
    BY <2>2, <2>3, <2>4 DEF TableInv, TableSound
<1>5. ASSUME NEW j \in Jobs, Refuse(j)
      PROVE  TableInv'
  <2> DEFINE i == IdOf[j]
  <2>1. /\ handler[j] = "sending" /\ handler' = [handler EXCEPT ![j] = "refused"]
        /\ i \in Ids /\ latest[i] = j
        /\ table' = [table EXCEPT ![i] = Null] /\ order' = Without(i)
        /\ latest' = [latest EXCEPT ![i] = Null]
        /\ UNCHANGED <<queue, state, worker, current, stopped, item, verdict, closing, restarts>>
    BY <1>0, <1>5 DEF Refuse, Handled, KnownInv, slots, process
  <2>2. table' \in Tables /\ order' \in Seq(Ids) /\ InOrder(table', order')
    BY <1>0, <2>1, Dropping
  <2>3. TypeOK'
    BY <1>0, <2>1, <2>2 DEF TypeOK, Tables
  <2>4. JobInv'
    BY <1>0, <2>1, Channel DEF TypeOK, JobInv
  <2>5. KnownInv'
    BY <1>0, <2>1 DEF TypeOK, KnownInv
  <2>6. LiveIsKnown'
    BY <1>0, <2>1 DEF TypeOK, KnownInv, LiveIsKnown, Live
  <2>7. TableInOrder'
    BY <2>2 DEF TableInOrder, InOrder
  <2> QED
    BY <2>3, <2>4, <2>5, <2>6, <2>7 DEF TableInv, TableSound
<1>6. ASSUME NEW i \in Ids, Cancel(i)
      PROVE  TableInv'
  <2> DEFINE j == table[i]
  <2>1. /\ j \in Jobs /\ state[j] \in Active /\ state' = [state EXCEPT ![j] = "cancelled"]
        /\ stopped' = [w \in Workers |-> stopped[w] \/ (current[w] = j /\ state[j] = "running")]
        /\ UNCHANGED <<table, order, queue, handler, worker, current, item, verdict, closing, restarts, latest>>
    BY <1>0, <1>6 DEF Cancel, TypeOK, manager, process
  <2>2. TypeOK'
    BY <1>0, <2>1 DEF TypeOK, Over
  <2>3. JobInv'
    <3>1. handler[j] # "new"
      BY <1>0, <2>1 DEF KnownInv
    <3> QED
      BY <1>0, <2>1, <3>1, Channel DEF TypeOK, JobInv, Unstarted
  <2>4. KnownInv' /\ LiveIsKnown' /\ TableInOrder'
    BY <1>0, <2>1, Unlisted DEF TypeOK, Live, Active
  <2> QED
    BY <2>2, <2>3, <2>4 DEF TableInv, TableSound
<1>7. ASSUME NEW w \in Workers, Take(w)
      PROVE  TableInv'
  <2>1. /\ worker[w] = "idle" /\ queue # <<>>
        /\ current' = [current EXCEPT ![w] = Head(queue)]
        /\ queue' = Tail(queue)
        /\ worker' = [worker EXCEPT ![w] = "begin"]
        /\ UNCHANGED <<table, order, handler, state, stopped, item, verdict, closing, restarts, latest>>
    BY <1>7 DEF Take, Goto, process
  <2>2. /\ Head(queue) = queue[1] /\ 1 \in DOMAIN queue /\ Head(queue) \in Jobs
        /\ queue' \in Seq(Jobs)
        /\ \A n \in DOMAIN queue' : n + 1 \in DOMAIN queue /\ n + 1 # 1 /\ queue'[n] = queue[n + 1]
        /\ DOMAIN queue' \subseteq Int
    BY <1>0, <2>1, Channel
  <2>3. TypeOK'
    BY <1>0, <2>1, <2>2 DEF TypeOK
  <2>4. JobInv'
    <3>0. \A m, n \in DOMAIN queue : queue[m] = queue[n] => m = n
      BY <1>0 DEF JobInv
    <3>1. \A n \in DOMAIN queue' : queue'[n] # Head(queue)
      BY <2>2, <3>0
    <3>2. \A m, n \in DOMAIN queue' : queue'[m] = queue'[n] => m = n
      <4> SUFFICES ASSUME NEW m \in DOMAIN queue', NEW n \in DOMAIN queue', queue'[m] = queue'[n]
                   PROVE  m = n
        OBVIOUS
      <4>1. m + 1 = n + 1
        BY <2>2, <3>0
      <4> QED
        BY <2>2, <4>1
    <3>3. \A n \in DOMAIN queue' : handler[queue'[n]] = "accepted" /\ state[queue'[n]] \in Unstarted
      BY <1>0, <2>2 DEF JobInv
    <3>4. handler[Head(queue)] = "accepted" /\ state[Head(queue)] \in Unstarted
      BY <1>0, <2>2 DEF JobInv
    <3>5. \A v \in Workers : v # w => current'[v] = current[v] /\ worker'[v] = worker[v]
      BY <2>1
    <3>6. current'[w] = Head(queue) /\ worker'[w] = "begin"
      BY <1>0, <2>1 DEF TypeOK
    <3>7. ASSUME NEW v \in Workers
          PROVE  current[v] # Head(queue)
      <4>1. current[v] # Null => current[v] # queue[1]
        BY <1>0, <2>2 DEF JobInv
      <4> QED
        BY <2>2, <4>1
    <3>8. \A v \in Workers : current'[v] # Null =>
            handler[current'[v]] = "accepted" /\ \A n \in DOMAIN queue' : queue'[n] # current'[v]
      BY <1>0, <2>2, <3>1, <3>4, <3>5, <3>6 DEF JobInv
    <3>9. \A u, v \in Workers : current'[u] # Null /\ current'[u] = current'[v] => u = v
      BY <1>0, <3>5, <3>6, <3>7 DEF JobInv
    <3>10. /\ \A v \in Workers : worker'[v] = "begin" => state[current'[v]] \in Unstarted
           /\ \A v \in Workers : worker'[v] \in {"fetching", "finish"} => state[current'[v]] \in {"running", "cancelled"}
      BY <1>0, <3>4, <3>5, <3>6 DEF JobInv
    <3> QED
      BY <1>0, <2>1, <3>2, <3>3, <3>8, <3>9, <3>10 DEF JobInv
  <2>5. KnownInv' /\ LiveIsKnown' /\ TableInOrder'
    BY <1>0, <2>1, Unlisted DEF TypeOK, Live
  <2> QED
    BY <2>3, <2>4, <2>5 DEF TableInv, TableSound
<1>8. ASSUME NEW w \in Workers, Skip(w) \/ FinishLate(w)
      PROVE  TableInv'
  <2>1. /\ worker' = [worker EXCEPT ![w] = "idle"]
        /\ current' = [current EXCEPT ![w] = Null]
        /\ stopped' = [stopped EXCEPT ![w] = FALSE]
        /\ item' = [item EXCEPT ![w] = [x \in Items |-> "queued"]]
        /\ verdict' = [verdict EXCEPT ![w] = "none"]
        /\ UNCHANGED <<table, order, queue, handler, state, closing, restarts, latest>>
    BY <1>8 DEF Skip, FinishLate, Free, Goto, manager, process
  <2>2. TypeOK'
    BY <1>0, <2>1 DEF TypeOK
  <2>3. JobInv'
    BY <1>0, <2>1 DEF TypeOK, JobInv
  <2>4. KnownInv' /\ LiveIsKnown' /\ TableInOrder'
    BY <1>0, <2>1, Unlisted DEF TypeOK, Live
  <2> QED
    BY <2>2, <2>3, <2>4 DEF TableInv, TableSound
<1>9. ASSUME NEW w \in Workers, Begin(w)
      PROVE  TableInv'
  <2> DEFINE j == current[w]
  <2>1. /\ worker[w] = "begin" /\ j \in Jobs /\ state[j] = "queued"
        /\ state' = [state EXCEPT ![j] = "running"]
        /\ stopped' = [stopped EXCEPT ![w] = closing]
        /\ worker' = [worker EXCEPT ![w] = "fetching"]
        /\ UNCHANGED <<table, order, queue, handler, current, item, verdict, closing, restarts, latest>>
    BY <1>0, <1>9 DEF Begin, Goto, TypeOK, JobInv, Unstarted, manager, process
  <2>2. TypeOK'
    BY <1>0, <2>1 DEF TypeOK, Active
  <2>3. JobInv'
    <3>1. handler[j] = "accepted" /\ \A n \in DOMAIN queue : queue[n] # j
      BY <1>0, <2>1 DEF JobInv
    <3>2. \A v \in Workers : v # w => current[v] # j
      BY <1>0, <2>1 DEF JobInv
    <3>3. state'[j] = "running" /\ \A k \in Jobs : k # j => state'[k] = state[k]
      BY <1>0, <2>1 DEF States
    <3>4. worker'[w] = "fetching" /\ \A v \in Workers : v # w => worker'[v] = worker[v]
      BY <1>0, <2>1 DEF TypeOK
    <3>5. \A v \in Workers : worker[v] # "idle" => current[v] \in Jobs
      BY <1>0 DEF TypeOK
    <3>6. \A n \in DOMAIN queue : queue[n] \in Jobs
      BY <1>0, Channel
    <3> QED
      BY <1>0, <2>1, <3>1, <3>2, <3>3, <3>4, <3>5, <3>6 DEF JobInv
  <2>4. KnownInv' /\ LiveIsKnown' /\ TableInOrder'
    BY <1>0, <2>1, Unlisted DEF TypeOK, Live, Active
  <2> QED
    BY <2>2, <2>3, <2>4 DEF TableInv, TableSound
<1>10. ASSUME NEW w \in Workers, Settle(w) \/ \E x \in Items, result \in {"done", "failed"} : Fetch(w, x, result)
       PROVE  TableInv'
  <2>1. UNCHANGED <<table, order, queue, handler, state, current, stopped, closing, restarts, latest>>
    BY <1>10 DEF Settle, Fetch, manager, process
  <2>2. worker[w] = "fetching" /\ worker' \in {worker, [worker EXCEPT ![w] = "finish"]}
    BY <1>10 DEF Settle, Fetch, Goto
  <2>3. TypeOK'
    <3>1. CASE Settle(w)
      <4>1. Outcome(w) \in Over
        BY DEF Outcome, Over
      <4>2. (IF stopped[w] THEN "cancelled" ELSE Outcome(w)) \in Over
        BY <4>1 DEF Over
      <4> QED
        BY <1>0, <2>1, <3>1, <4>2 DEF TypeOK, Settle, Goto
    <3>2. ASSUME NEW x \in Items, NEW result \in {"done", "failed"}, Fetch(w, x, result)
          PROVE  TypeOK'
      BY <1>0, <2>1, <3>2 DEF TypeOK, Fetch
    <3> QED
      BY <1>10, <3>1, <3>2
  <2>4. JobInv'
    BY <1>0, <2>1, <2>2 DEF TypeOK, JobInv
  <2>5. KnownInv' /\ LiveIsKnown' /\ TableInOrder'
    BY <1>0, <2>1, Unlisted DEF Live
  <2> QED
    BY <2>3, <2>4, <2>5 DEF TableInv, TableSound
<1>11. ASSUME NEW w \in Workers, Finish(w)
       PROVE  TableInv'
  <2> DEFINE j   == current[w]
             new == [state EXCEPT ![j] = verdict[w]]
  <2>1. /\ worker[w] = "finish" /\ j \in Jobs /\ state[j] \in {"running", "cancelled"}
        /\ verdict[w] \in Over
        /\ state' = new /\ new \in States /\ Evict(table, order, new)
        /\ worker' = [worker EXCEPT ![w] = "idle"]
        /\ current' = [current EXCEPT ![w] = Null]
        /\ stopped' = [stopped EXCEPT ![w] = FALSE]
        /\ item' = [item EXCEPT ![w] = [x \in Items |-> "queued"]]
        /\ verdict' = [verdict EXCEPT ![w] = "none"]
        /\ UNCHANGED <<queue, handler, closing, restarts, latest>>
    BY <1>0, <1>11 DEF Finish, Free, Goto, TypeOK, JobInv, States, process
  <2>2. new[j] \in Over /\ \A k \in Jobs : k # j => new[k] = state[k]
    BY <1>0, <2>1 DEF States
  <2> HIDE DEF new
  <2>3. /\ table' \in Tables /\ order' \in Seq(Ids) /\ InOrder(table', order')
        /\ \A i \in Ids : table'[i] \in {table[i], Null}
        /\ \A i \in Ids : table[i] # Null /\ table'[i] = Null => new[table[i]] \in Over
    BY <1>0, <2>1, Evicting
  <2>4. TypeOK'
    BY <1>0, <2>1, <2>3 DEF TypeOK, Tables, States
  <2>5. JobInv'
    <3>1. handler[j] = "accepted" /\ \A n \in DOMAIN queue : queue[n] # j
      BY <1>0, <2>1 DEF JobInv
    <3>2. \A v \in Workers : v # w => current[v] # j
      BY <1>0, <2>1 DEF JobInv
    <3>3. current'[w] = Null /\ worker'[w] = "idle"
      BY <1>0, <2>1 DEF TypeOK
    <3>4. \A v \in Workers : v # w => worker'[v] = worker[v] /\ current'[v] = current[v]
      BY <1>0, <2>1 DEF TypeOK
    <3>5. \A v \in Workers : worker[v] # "idle" => current[v] \in Jobs
      BY <1>0 DEF TypeOK
    <3>6. \A n \in DOMAIN queue : queue[n] \in Jobs
      BY <1>0, Channel
    <3>7. \A k \in Jobs : k # j => state'[k] = state[k]
      BY <2>1, <2>2
    <3>8. /\ \A k \in Jobs : handler'[k] = "new" => state'[k] = "queued"
          /\ \A k \in Jobs : handler'[k] = "sending" => state'[k] \in Unstarted
          /\ \A n \in DOMAIN queue' : handler'[queue'[n]] = "accepted" /\ state'[queue'[n]] \in Unstarted
      BY <1>0, <2>1, <3>1, <3>6, <3>7 DEF JobInv
    <3>9. /\ \A v \in Workers : worker'[v] = "begin" => state'[current'[v]] \in Unstarted
          /\ \A v \in Workers : worker'[v] \in {"fetching", "finish"} =>
                                 state'[current'[v]] \in {"running", "cancelled"}
      BY <1>0, <3>2, <3>3, <3>4, <3>5, <3>7 DEF JobInv
    <3>10. \A v \in Workers : current'[v] # Null =>
             handler'[current'[v]] = "accepted" /\ \A n \in DOMAIN queue' : queue'[n] # current'[v]
      BY <1>0, <2>1, <3>3, <3>4 DEF JobInv
    <3> QED
      BY <1>0, <2>1, <3>3, <3>4, <3>8, <3>9, <3>10 DEF JobInv
  <2>6. KnownInv'
    BY <1>0, <2>1, <2>3 DEF TypeOK, KnownInv
  <2>7. LiveIsKnown'
    <3> SUFFICES ASSUME NEW k \in Jobs, Live(k)'
                 PROVE  table'[IdOf[k]] = k
      BY DEF LiveIsKnown
    <3>1. new[k] \in Active /\ new[k] \notin Over
      BY <2>1 DEF Live, Active, Over
    <3>2. Live(k) /\ IdOf[k] \in Ids
      BY <2>1, <2>2, <3>1 DEF Live
    <3>3. table[IdOf[k]] = k
      BY <1>0, <3>2 DEF LiveIsKnown
    <3> QED
      BY <2>3, <3>1, <3>2, <3>3
  <2>8. TableInOrder'
    BY <2>3 DEF TableInOrder, InOrder
  <2> QED
    BY <2>4, <2>5, <2>6, <2>7, <2>8 DEF TableInv, TableSound
<1>12. CASE Shutdown
  <2>1. UNCHANGED <<table, order, queue, handler, state, worker, current, item, verdict, restarts, latest>>
    BY <1>12 DEF Shutdown, manager
  <2>2. TypeOK'
    BY <1>0, <1>12, <2>1 DEF TypeOK, Shutdown
  <2>3. JobInv'
    BY <1>0, <2>1 DEF JobInv
  <2>4. KnownInv' /\ LiveIsKnown' /\ TableInOrder'
    BY <1>0, <2>1, Unlisted DEF Live
  <2> QED
    BY <2>2, <2>3, <2>4 DEF TableInv, TableSound
<1>13. CASE Restart
  <2>1. TypeOK'
    <3>1. /\ table' \in [Ids -> Jobs \cup {Null}] /\ latest' \in [Ids -> Jobs \cup {Null}]
          /\ order' \in Seq(Ids) /\ queue' \in Seq(Jobs)
          /\ closing' \in BOOLEAN /\ state' \in [Jobs -> Active \cup Over]
      BY <1>0, <1>13, EmptySeq DEF TypeOK, Restart
    <3>2. handler' \in [Jobs -> {"new", "known", "sending", "accepted", "refused", "lost"}]
      BY <1>0, <1>13 DEF TypeOK, Restart
    <3>3. /\ worker' \in [Workers -> {"idle", "begin", "fetching", "finish"}]
          /\ current' \in [Workers -> Jobs \cup {Null}]
          /\ \A w \in Workers : current'[w] = Null /\ worker'[w] = "idle"
          /\ stopped' \in [Workers -> BOOLEAN]
          /\ item' \in [Workers -> [Items -> {"queued", "done", "failed"}]]
          /\ verdict' \in [Workers -> Over \cup {"none"}]
      BY <1>13 DEF Restart
    <3>4. restarts' \in Nat
      BY <1>0, <1>13 DEF TypeOK, Restart
    <3> QED
      BY <3>1, <3>2, <3>3, <3>4 DEF TypeOK
  <2>2. JobInv'
    BY <1>0, <1>13 DEF TypeOK, JobInv, Restart
  <2>3. KnownInv' /\ LiveIsKnown' /\ TableInOrder'
    BY <1>0, <1>13 DEF TypeOK, KnownInv, LiveIsKnown, Live, TableInOrder, Restart
  <2> QED
    BY <2>1, <2>2, <2>3 DEF TableInv, TableSound
<1> QED
  BY <1>1, <1>2, <1>3, <1>4, <1>5, <1>6, <1>7, <1>8, <1>9, <1>10, <1>11, <1>12, <1>13
  DEF Next, Handling, Working

\* The table and its order agree, and a job that is live is the one its id is known by, so
\* that work in flight is never forgotten and an id has one live job at most.
THEOREM TableSoundCorrect == Spec => []TableSound
<1>1. TableInv => TableSound
  BY DEF TableInv
<1> QED
  BY <1>1, TableInitial, TableStep, PTL DEF Spec

-----------------------------------------------------------------------------
(* The promises of Sidecar *)

\* What the main service can see of the container.
Status == [i \in Ids |-> IF latest[i] = Null THEN "none" ELSE state[latest[i]]]
Known  == {i \in Ids : table[i] # Null}

\* The job that a worker is about to begin, or has run to its end, is the one its id is
\* known by, unless it was cancelled.
LEMMA RunsForItsId ==
  ASSUME TableInv, NEW w \in Workers, worker[w] # "idle", state[current[w]] # "cancelled"
  PROVE  /\ current[w] \in Jobs
         /\ state[current[w]] \in Active
         /\ table[IdOf[current[w]]] = current[w]
         /\ latest[IdOf[current[w]]] = current[w]
<1>1. TypeOK /\ JobInv /\ KnownInv /\ LiveIsKnown
  BY DEF TableInv, TableSound
<1>2. current[w] \in Jobs /\ IdOf[current[w]] \in Ids
  BY <1>1, DownloaderAssumption DEF TypeOK
<1>3. worker[w] \in {"begin", "fetching", "finish"}
  BY <1>1 DEF TypeOK
<1>4. state[current[w]] \in Active /\ handler[current[w]] = "accepted"
  BY <1>1, <1>2, <1>3, DownloaderAssumption DEF JobInv, Unstarted, Active
<1>5. table[IdOf[current[w]]] = current[w]
  BY <1>1, <1>2, <1>4 DEF LiveIsKnown, Live
<1> QED
  BY <1>1, <1>2, <1>4, <1>5, DownloaderAssumption DEF KnownInv

\* The state of one job changes, and that job is the last of its id: so does the status of
\* the id, and no other.
LEMMA OneStatus ==
  ASSUME TableInv, NEW j \in Jobs, NEW s, latest[IdOf[j]] = j,
         state' = [state EXCEPT ![j] = s], UNCHANGED latest
  PROVE  Status' = [Status EXCEPT ![IdOf[j]] = s] /\ Status[IdOf[j]] = state[j]
<1>1. TypeOK /\ KnownInv /\ IdOf[j] \in Ids /\ j # Null
  BY DownloaderAssumption DEF TableInv, TableSound
<1>2. \A i \in Ids : latest[i] = j => i = IdOf[j]
  BY <1>1 DEF KnownInv
<1>3. \A i \in Ids : Status'[i] = IF i = IdOf[j] THEN s ELSE Status[i]
  BY <1>1, <1>2 DEF Status, TypeOK
<1> QED
  BY <1>1, <1>3 DEF Status

\* Every step of the queue is one of Sidecar, or cannot be seen from outside.
LEMMA ServesStep ==
  TableInv /\ TableInv' /\ [Next]_vars => [Promised!Next]_(Promised!jobs)
<1> SUFFICES ASSUME TableInv, TableInv', [Next]_vars
             PROVE  Promised!Next \/ (Status' = Status /\ Known' = Known)
  BY DEF Status, Known, Promised!jobs
<1> USE DownloaderAssumption
<1>0. /\ TypeOK /\ LiveIsKnown /\ TableInOrder /\ JobInv /\ KnownInv
      /\ table \in Tables /\ order \in Seq(Ids) /\ queue \in Seq(Jobs) /\ state \in States
      /\ InOrder(table, order)
  BY TableIsInOrder DEF TableInv, TableSound, TypeOK, Tables, States
<1>1. ASSUME UNCHANGED <<table, state, latest>>
      PROVE  Status' = Status /\ Known' = Known
  BY <1>1 DEF Status, Known
<1>2. CASE UNCHANGED vars
  BY <1>1, <1>2 DEF vars, manager
<1>3. CASE Shutdown
  BY <1>1, <1>3 DEF Shutdown, manager
<1>4. CASE Restart
  <2>1. Status' = [i \in Ids |-> "none"] /\ Known' = {}
    BY <1>4 DEF Restart, Status, Known
  <2> QED
    BY <2>1 DEF Status, Known, Promised!Next, Promised!Restart
<1>5. ASSUME NEW j \in Jobs, SubmitKnown(j) \/ Send(j)
      PROVE  UNCHANGED <<table, state, latest>>
  BY <1>5 DEF SubmitKnown, Send, manager
<1>6. ASSUME NEW w \in Workers,
             \/ Take(w) \/ Skip(w) \/ Settle(w) \/ FinishLate(w)
             \/ \E x \in Items, result \in {"done", "failed"} : Fetch(w, x, result)
      PROVE  UNCHANGED <<table, state, latest>>
  BY <1>6 DEF Take, Skip, Settle, FinishLate, Fetch, manager
<1>7. ASSUME NEW j \in Jobs, Register(j)
      PROVE  Promised!Accept(IdOf[j])
  <2> DEFINE i   == IdOf[j]
             tab == [table EXCEPT ![i] = j]
  <2>1. /\ i \in Ids /\ table[i] = Null /\ handler[j] = "new"
        /\ latest' = [latest EXCEPT ![i] = j]
        /\ UNCHANGED state
        /\ Evict(tab, Append(order, i), state)
    BY <1>7 DEF Register
  <2>2. tab \in Tables /\ Append(order, i) \in Seq(Ids) /\ InOrder(tab, Append(order, i))
    BY <1>0, <2>1, Registering
  <2>3. tab[i] = j /\ \A k \in Ids : k # i => tab[k] = table[k]
    BY <1>0, <2>1 DEF Tables
  <2> HIDE DEF tab
  <2>4. /\ \A k \in Ids : table'[k] \in {tab[k], Null}
        /\ \A k \in Ids : tab[k] # Null /\ table'[k] = Null => state[tab[k]] \in Over
    BY <1>0, <2>1, <2>2, Evicting
  <2>5. Status' = [Status EXCEPT ![i] = "queued"]
    <3>1. state[j] = "queued" /\ j # Null
      BY <1>0, <2>1 DEF JobInv
    <3>2. \A k \in Ids : Status'[k] = IF k = i THEN "queued" ELSE Status[k]
      BY <1>0, <2>1, <3>1 DEF Status, TypeOK
    <3> QED
      BY <3>2 DEF Status
  <2>6. Known' \subseteq Known \cup {i}
    BY <2>1, <2>3, <2>4 DEF Known
  <2>7. ASSUME NEW k \in (Known \cup {i}) \ Known'
        PROVE  Status'[k] \in Over
    <3>1. k \in Ids /\ tab[k] # Null /\ table'[k] = Null
      BY <2>1, <2>3, <2>7 DEF Known
    <3>2. state[tab[k]] \in Over
      BY <2>4, <3>1
    <3>3. k # i
      BY <1>0, <2>1, <2>3, <3>2 DEF JobInv, Over
    <3>4. tab[k] = latest[k] /\ latest'[k] = latest[k] /\ latest[k] # Null
      BY <1>0, <2>1, <2>3, <3>1, <3>3 DEF KnownInv, TypeOK
    <3> QED
      BY <2>1, <3>1, <3>2, <3>4 DEF Status
  <2>8. i \notin Known
    BY <2>1 DEF Known
  <2> QED
    BY <2>5, <2>6, <2>7, <2>8 DEF Status, Known, Promised!Accept, Promised!Becomes, Promised!Remembering, Over, Promised!Over
<1>8. ASSUME NEW j \in Jobs, Refuse(j)
      PROVE  Promised!Refuse(IdOf[j])
  <2> DEFINE i == IdOf[j]
  <2>1. /\ i \in Ids /\ latest[i] = j /\ state[j] \in {"queued", "cancelled"}
        /\ table' = [table EXCEPT ![i] = Null]
        /\ latest' = [latest EXCEPT ![i] = Null]
        /\ UNCHANGED state
    BY <1>0, <1>8 DEF Refuse, JobInv, KnownInv, Unstarted
  <2>2. Status[i] \in {"queued", "cancelled"}
    BY <2>1 DEF Status
  <2>3. Status' = [Status EXCEPT ![i] = "none"]
    <3>1. \A k \in Ids : Status'[k] = IF k = i THEN "none" ELSE Status[k]
      BY <1>0, <2>1 DEF Status, TypeOK
    <3> QED
      BY <3>1 DEF Status
  <2>4. Known' = Known \ {i}
    BY <1>0, <2>1 DEF Known, Tables
  <2> QED
    BY <2>2, <2>3, <2>4 DEF Status, Known, Promised!Refuse, Promised!Becomes
<1>9. ASSUME NEW i \in Ids, Cancel(i)
      PROVE  Promised!Cancel(i)
  <2>1. /\ table[i] \in Jobs /\ state[table[i]] \in Active
        /\ state' = [state EXCEPT ![table[i]] = "cancelled"]
        /\ latest[i] = table[i] /\ IdOf[table[i]] = i
        /\ UNCHANGED <<table, latest>>
    BY <1>0, <1>9 DEF Cancel, KnownInv, TypeOK, manager
  <2>2. Status' = [Status EXCEPT ![i] = "cancelled"] /\ Status[i] \in Active
    BY <2>1, OneStatus
  <2>3. Known' = Known
    BY <2>1 DEF Known
  <2> QED
    BY <2>2, <2>3 DEF Status, Known, Active, Promised!Cancel, Promised!Becomes, Promised!Remembering, Promised!Active
<1>10. ASSUME NEW w \in Workers, Begin(w), NEW i \in Ids, IdOf[current[w]] = i
       PROVE  Promised!Begin(i)
  <2> DEFINE j == current[w]
  <2>1. /\ worker[w] = "begin" /\ state[j] = "queued" /\ state[j] # "cancelled"
        /\ state' = [state EXCEPT ![j] = "running"]
        /\ UNCHANGED <<table, latest>>
    BY <1>0, <1>10 DEF Begin, JobInv, Unstarted, manager
  <2>2. j \in Jobs /\ latest[IdOf[j]] = j
    BY <2>1, RunsForItsId
  <2>3. Status' = [Status EXCEPT ![i] = "running"] /\ Status[i] = "queued"
    BY <1>10, <2>1, <2>2, OneStatus
  <2>4. Known' = Known
    BY <2>1 DEF Known
  <2> QED
    BY <2>3, <2>4 DEF Status, Known, Promised!Begin, Promised!Becomes
<1>11. ASSUME NEW w \in Workers, Finish(w), NEW i \in Ids, IdOf[current[w]] = i,
              NEW result \in Over, verdict[w] = result
       PROVE  Promised!Next
  <2> DEFINE j   == current[w]
             new == [state EXCEPT ![j] = result]
  <2>1. /\ worker[w] = "finish" /\ j \in Jobs
        /\ state[j] = "cancelled" => result = "cancelled"
        /\ state' = new /\ new \in States /\ Evict(table, order, new)
        /\ UNCHANGED latest
    BY <1>0, <1>11 DEF Finish, TypeOK, States
  <2>2. /\ \A k \in Ids : table'[k] \in {table[k], Null}
        /\ \A k \in Ids : table[k] # Null /\ table'[k] = Null => state'[table[k]] \in Over
    BY <1>0, <2>1, Evicting
  <2>3. Known' \subseteq Known
    BY <2>2 DEF Known
  <2>4. ASSUME NEW k \in Known \ Known'
        PROVE  Status'[k] \in Over
    <3>1. k \in Ids /\ table[k] # Null /\ table'[k] = Null /\ latest'[k] = table[k]
      BY <1>0, <2>1 DEF Known, KnownInv
    <3> QED
      BY <2>2, <3>1 DEF Status
  <2>5. Promised!Remembering(Known)
    BY <2>3, <2>4 DEF Status, Known, Promised!Remembering, Over, Promised!Over
  <2>6. CASE state[j] = "cancelled"
    <3>1. state' = state
      BY <1>0, <2>1, <2>6 DEF States
    <3>2. Status' = Status
      BY <2>1, <3>1 DEF Status
    <3> QED
      BY <2>5, <3>2 DEF Status, Known, Promised!Next, Promised!Forget
  <2>7. CASE state[j] # "cancelled"
    <3>1. state[j] = "running" /\ latest[i] = j
      BY <1>0, <1>11, <2>1, <2>7, RunsForItsId DEF JobInv
    <3>2. Status' = [Status EXCEPT ![i] = result] /\ Status[i] = "running"
      BY <1>11, <2>1, <3>1, OneStatus
    <3>3. CASE result = "cancelled"
      <4>1. Promised!Cancel(i)
        BY <2>5, <3>2, <3>3 DEF Status, Known, Promised!Cancel, Promised!Becomes, Promised!Active
      <4> QED
        BY <4>1 DEF Promised!Next
    <3>4. CASE result # "cancelled"
      <4>1. Promised!End(i, result)
        BY <2>1, <2>5, <3>2, <3>4 DEF Status, Known, Over, Promised!End, Promised!Becomes
      <4> QED
        BY <4>1 DEF Promised!Next, Over, Promised!Over
    <3> QED
      BY <3>3, <3>4
  <2> QED
    BY <2>6, <2>7
<1>12. \A j \in Jobs : IdOf[j] \in Ids
  OBVIOUS
<1>13. ASSUME NEW w \in Workers, Begin(w) \/ Finish(w)
       PROVE  \E i \in Ids : IdOf[current[w]] = i
  BY <1>0, <1>13 DEF Begin, Finish, TypeOK
<1>14. ASSUME NEW w \in Workers, Finish(w)
       PROVE  \E result \in Over : verdict[w] = result
  BY <1>0, <1>14 DEF Finish, TypeOK
<1>15. ASSUME NEW j \in Jobs, Register(j) \/ Refuse(j)
       PROVE  Promised!Next
  BY <1>7, <1>8, <1>12, <1>15 DEF Promised!Next
<1>16. ASSUME NEW i \in Ids, Cancel(i)
       PROVE  Promised!Next
  BY <1>9, <1>16 DEF Promised!Next
<1>17. ASSUME NEW w \in Workers, Begin(w)
       PROVE  Promised!Next
  <2>1. PICK i \in Ids : IdOf[current[w]] = i
    BY <1>13, <1>17
  <2> QED
    BY <1>10, <1>17, <2>1 DEF Promised!Next
<1>18. ASSUME NEW w \in Workers, Finish(w)
       PROVE  Promised!Next
  BY <1>11, <1>13, <1>14, <1>18
<1> QED
  BY <1>1, <1>2, <1>3, <1>4, <1>5, <1>6, <1>15, <1>16, <1>17, <1>18 DEF Next, Handling, Working

\* The container keeps what Sidecar promises the main service of a job: it is accepted once,
\* is taken back only before it runs, ends once, and is forgotten only when it is over.
THEOREM ImplementsSidecarCorrect == Spec => ImplementsSidecar
<1>1. Init => Promised!Init
  <2> SUFFICES ASSUME Init
               PROVE  Status = [i \in Ids |-> "none"] /\ Known = {}
    BY DEF Status, Known, Promised!Init
  <2> QED
    BY DEF Init, Status, Known
<1> QED
  BY <1>1, TableInitial, TableStep, ServesStep, PTL DEF Spec, ImplementsSidecar, Promised!Spec

-----------------------------------------------------------------------------
(* Files on the media volume *)

Stages  == {"idle", "ask", "open", "copy", "rest", "rename", "discard", "done", "failed"}
Writing == {"copy", "rest", "rename", "discard"}  \* a file is open, or was just closed
Answers == [version : Versions \cup {Null}, declared : BOOLEAN, validator : BOOLEAN]

\* The types of Transfers, with what a stage says of what it has.
TransferTypes ==
  /\ tServes \in Versions
  /\ tPc \in [Transferring -> Stages]
  /\ tMirror \in [Transferring -> 1..(Mirrors + 1)]
  /\ tFirst \in [Transferring -> Answers]
  /\ tBody \in [Transferring -> Versions \cup {Null}]
  /\ tChunks \in [Transferring -> Seq(Versions)]
  /\ tResumes \in [Transferring -> 0..MaxResumes]
  /\ tWaits \in [Transferring -> 0..MaxWaits]
  /\ tFile \in [Transferring -> Transferring \cup {Null}]
  /\ tData \in [Transferring -> Seq(Versions \cup {Null})]
  /\ tPartial \in Transferring \cup {Null} /\ tDest \in Transferring \cup {Null}
  /\ tClash \in BOOLEAN

\* What a transfer at stage s may hold.
Holds(s, mirror, body, chunks, resumes, file) ==
  /\ s \notin {"done", "failed"} => mirror \in 1..Mirrors
  /\ s \in Writing \cup {"open"} => body \in Versions
  /\ s \in Writing => file \in Transferring
  /\ s = "rest" => resumes < MaxResumes
  /\ Ceiling > 0 => Len(chunks) <= Ceiling + 1

TransferInv ==
  /\ TransferTypes
  /\ \A j \in Transferring : Holds(tPc[j], tMirror[j], tBody[j], tChunks[j], tResumes[j], tFile[j])

\* The constants of Transfers, as its assumption has them.
LEMMA TransferBounds ==
  /\ Null \notin Transferring /\ Null \notin Versions
  /\ Length \in [Versions -> Nat]
  /\ Mirrors \in Nat \ {0} /\ Ceiling \in Nat /\ MaxResumes \in Nat /\ MaxWaits \in Nat
BY DownloaderMCAssumption DEF T!ConstantsAreSound

\* A file stays a sequence of chunks and holes.
LEMMA PutType ==
  ASSUME NEW R, Null \in R, NEW content \in Seq(R), NEW at \in Nat \ {0}, NEW v \in R
  PROVE  T!Put(content, at, v) \in Seq(R)
<1> DEFINE n == IF at > Len(content) THEN at ELSE Len(content)
           chunk(i) == IF i = at THEN v ELSE IF i <= Len(content) THEN content[i] ELSE Null
<1>1. n \in Nat
  OBVIOUS
<1>2. ASSUME NEW i \in 1..n PROVE chunk(i) \in R
  <2>1. i <= Len(content) => content[i] \in R
    BY ElementOfSeq
  <2> QED
    BY <2>1
<1>3. T!Put(content, at, v) = [i \in 1..n |-> chunk(i)]
  BY DEF T!Put
<1> HIDE DEF n, chunk
<1> QED
  BY <1>1, <1>2, <1>3, IsASeq

\* A chunk that is put behind the last one is appended.
LEMMA PutAppends ==
  ASSUME NEW R, Null \in R, NEW content \in Seq(R), NEW v \in R
  PROVE  T!Put(content, Len(content) + 1, v) = Append(content, v)
<1> DEFINE n == Len(content) + 1
           put == T!Put(content, n, v)
<1>1. n \in Nat \ {0} /\ n > Len(content)
  OBVIOUS
<1>2. put = [i \in 1..n |-> IF i = n THEN v ELSE IF i <= Len(content) THEN content[i] ELSE Null]
  BY <1>1 DEF T!Put
<1>3. put \in Seq(R) /\ Append(content, v) \in Seq(R)
  BY <1>1, PutType, AppendProperties
<1>4. Len(put) = n /\ Len(Append(content, v)) = n
  <2>1. DOMAIN put = 1..n
    BY <1>2
  <2> HIDE DEF put
  <2>2. DOMAIN put = 1..Len(put) /\ Len(put) \in Nat
    BY <1>3, LenProperties
  <2>3. Len(put) = n
    BY <1>1, <2>1, <2>2
  <2> QED
    BY <2>3, AppendProperties
<1>5. ASSUME NEW i \in 1..n PROVE put[i] = Append(content, v)[i]
  <2>1. CASE i = n
    BY <1>2, <2>1, AppendProperties
  <2>2. CASE i # n
    <3>1. i \in 1..Len(content) /\ i <= Len(content)
      BY <2>2
    <3> QED
      BY <1>2, <2>2, <3>1, AppendProperties
  <2> QED
    BY <2>1, <2>2
<1> HIDE DEF put, n
<1>6. Len(put) = Len(Append(content, v)) /\ \A i \in 1..Len(put) : put[i] = Append(content, v)[i]
  BY <1>4, <1>5
<1>7. put = Append(content, v)
  BY <1>3, <1>6, SeqEqual
<1> QED
  BY <1>7 DEF put, n

\* TransferInv holds at the start.
LEMMA TransferInitial == T!Init => TransferInv
<1> SUFFICES ASSUME T!Init PROVE TransferInv
  OBVIOUS
<1> USE TransferBounds
<1>1. T!NoAnswer \in Answers
  BY DEF T!NoAnswer, Answers
<1>2. <<>> \in Seq(Versions) /\ <<>> \in Seq(Versions \cup {Null}) /\ Len(<<>>) = 0
  OBVIOUS
<1>3. TransferTypes
  <2>1. "idle" \in Stages /\ 1 \in 1..(Mirrors + 1) /\ 0 \in 0..MaxResumes /\ 0 \in 0..MaxWaits
    BY DEF Stages
  <2>2. /\ tPc \in [Transferring -> Stages] /\ tMirror \in [Transferring -> 1..(Mirrors + 1)]
        /\ tResumes \in [Transferring -> 0..MaxResumes] /\ tWaits \in [Transferring -> 0..MaxWaits]
    BY <2>1 DEF T!Init
  <2>3. /\ tFirst \in [Transferring -> Answers] /\ tBody \in [Transferring -> Versions \cup {Null}]
        /\ tFile \in [Transferring -> Transferring \cup {Null}]
    BY <1>1 DEF T!Init
  <2>4. /\ tChunks \in [Transferring -> Seq(Versions)]
        /\ tData \in [Transferring -> Seq(Versions \cup {Null})]
    BY <1>2 DEF T!Init
  <2> QED
    BY <2>2, <2>3, <2>4 DEF T!Init, TransferTypes
<1>4. ASSUME NEW j \in Transferring
      PROVE  Holds(tPc[j], tMirror[j], tBody[j], tChunks[j], tResumes[j], tFile[j])
  <2>1. tPc[j] = "idle" /\ tMirror[j] = 1 /\ tChunks[j] = <<>>
    BY <1>4 DEF T!Init
  <2> QED
    BY <1>2, <2>1 DEF Holds, Writing
<1> QED
  BY <1>3, <1>4 DEF TransferInv

\* A step of one transfer, which leaves the others and the types of the volume as they are.
LEMMA TransferMoves ==
  ASSUME TransferInv, NEW j \in Transferring, NEW stage \in Stages,
         tPc' = [tPc EXCEPT ![j] = stage],
         TransferTypes',
         \A o \in Transferring \ {j} :
           UNCHANGED <<tMirror[o], tBody[o], tChunks[o], tResumes[o], tFile[o]>>,
         Holds(stage, tMirror'[j], tBody'[j], tChunks'[j], tResumes'[j], tFile'[j])
  PROVE  TransferInv'
<1>1. ASSUME NEW o \in Transferring
      PROVE  Holds(tPc'[o], tMirror'[o], tBody'[o], tChunks'[o], tResumes'[o], tFile'[o])
  <2>1. CASE o = j
    <3>1. tPc'[j] = stage
      BY DEF TransferInv, TransferTypes
    <3> QED
      BY <2>1, <3>1
  <2>2. CASE o # j
    <3>1. tPc'[o] = tPc[o]
      BY <2>2 DEF TransferInv, TransferTypes
    <3> QED
      BY <2>2, <3>1 DEF TransferInv
  <2> QED
    BY <2>1, <2>2
<1> QED
  BY <1>1 DEF TransferInv

\* The next mirror, when there is one.
LEMMA NextMirrorTypes ==
  ASSUME TransferInv, NEW j \in Transferring, tPc[j] \notin {"done", "failed"}, T!NextMirror(j)
  PROVE  /\ tMirror' \in [Transferring -> 1..(Mirrors + 1)]
         /\ \E stage \in {"ask", "failed"} :
              /\ tPc' = [tPc EXCEPT ![j] = stage]
              /\ stage # "failed" => tMirror'[j] \in 1..Mirrors
         /\ \A o \in Transferring \ {j} : tMirror'[o] = tMirror[o]
<1> USE TransferBounds
<1>1. tMirror[j] \in 1..Mirrors /\ tMirror \in [Transferring -> 1..(Mirrors + 1)]
  BY DEF TransferInv, TransferTypes, Holds
<1>2. tMirror' = [tMirror EXCEPT ![j] = @ + 1]
  BY DEF T!NextMirror
<1>3. tMirror[j] + 1 \in 1..(Mirrors + 1) /\ tMirror'[j] = tMirror[j] + 1
  BY <1>1, <1>2
<1>4. tMirror' \in [Transferring -> 1..(Mirrors + 1)]
  BY <1>1, <1>2, <1>3
<1>5. tPc' = [tPc EXCEPT ![j] = IF tMirror[j] < Mirrors THEN "ask" ELSE "failed"]
  BY DEF T!NextMirror, T!Goto
<1>6. CASE tMirror[j] < Mirrors
  BY <1>1, <1>2, <1>3, <1>4, <1>5, <1>6
<1>7. CASE ~(tMirror[j] < Mirrors)
  BY <1>1, <1>2, <1>3, <1>4, <1>5, <1>7
<1> QED
  BY <1>6, <1>7

\* TransferInv is inductive.
LEMMA TransferStep == TransferInv /\ [T!Next]_(T!vars) => TransferInv'
<1> SUFFICES ASSUME TransferInv, [T!Next]_(T!vars) PROVE TransferInv'
  OBVIOUS
<1> USE TransferBounds
<1>0. /\ TransferTypes
      /\ \A j \in Transferring : Holds(tPc[j], tMirror[j], tBody[j], tChunks[j], tResumes[j], tFile[j])
  BY DEF TransferInv
<1>1. ASSUME NEW j \in Transferring, T!Begin(j) PROVE TransferInv'
  <2>1. /\ tPc[j] = "idle" /\ tPc' = [tPc EXCEPT ![j] = "ask"]
        /\ tClash' \in BOOLEAN
        /\ UNCHANGED <<tServes, tMirror, tFirst, tBody, tChunks, tResumes, tWaits, tFile, tData, tPartial, tDest>>
    BY <1>1 DEF T!Begin, T!Goto, T!answer, T!volume
  <2>2. "ask" \in Stages
    BY DEF Stages
  <2>3. TransferTypes'
    BY <1>0, <2>1, <2>2 DEF TransferTypes
  <2>4. Holds("ask", tMirror'[j], tBody'[j], tChunks'[j], tResumes'[j], tFile'[j])
    BY <1>0, <2>1 DEF Holds, Writing
  <2> QED
    BY <2>1, <2>2, <2>3, <2>4, TransferMoves
<1>2. ASSUME NEW j \in Transferring, T!Refused(j) \/ T!Discard(j) PROVE TransferInv'
  <2>1. /\ tPc[j] \notin {"done", "failed"} /\ T!NextMirror(j)
        /\ tPartial' \in {tPartial, Null}
        /\ UNCHANGED <<tServes, tFirst, tBody, tChunks, tResumes, tWaits, tFile, tData, tDest, tClash>>
    BY <1>2 DEF T!Refused, T!Discard, T!answer, T!volume, T!history
  <2>2. PICK stage \in {"ask", "failed"} :
          /\ tPc' = [tPc EXCEPT ![j] = stage]
          /\ stage # "failed" => tMirror'[j] \in 1..Mirrors
    BY <2>1, NextMirrorTypes
  <2>3. stage \in Stages
    BY DEF Stages
  <2>4. TransferTypes'
    BY <1>0, <2>1, <2>2, <2>3, NextMirrorTypes DEF TransferTypes
  <2>5. Holds(stage, tMirror'[j], tBody'[j], tChunks'[j], tResumes'[j], tFile'[j])
    BY <1>0, <2>1, <2>2 DEF Holds, Writing
  <2> QED
    BY <2>1, <2>2, <2>3, <2>4, <2>5, NextMirrorTypes, TransferMoves
<1>3. ASSUME NEW j \in Transferring, NEW declared \in BOOLEAN, NEW validator \in BOOLEAN,
             T!Answered(j, declared, validator)
      PROVE  TransferInv'
  <2>1. /\ tPc[j] = "ask" /\ tPc' = [tPc EXCEPT ![j] = "open"]
        /\ tFirst' = [tFirst EXCEPT ![j] = [version |-> tServes, declared |-> declared, validator |-> validator]]
        /\ tBody' = [tBody EXCEPT ![j] = tServes]
        /\ tChunks' = [tChunks EXCEPT ![j] = <<>>]
        /\ tResumes' = [tResumes EXCEPT ![j] = 0]
        /\ tWaits' = [tWaits EXCEPT ![j] = 0]
        /\ UNCHANGED <<tServes, tMirror, tFile, tData, tPartial, tDest, tClash>>
    BY <1>3 DEF T!Answered, T!Goto, T!volume, T!history
  <2>2. /\ "open" \in Stages /\ <<>> \in Seq(Versions) /\ Len(<<>>) = 0
        /\ 0 \in 0..MaxResumes /\ 0 \in 0..MaxWaits
        /\ [version |-> tServes, declared |-> declared, validator |-> validator] \in Answers
    BY <1>0 DEF Stages, Answers, TransferTypes
  <2>3. TransferTypes'
    BY <1>0, <2>1, <2>2 DEF TransferTypes
  <2>4. tBody'[j] = tServes /\ tChunks'[j] = <<>> /\ tMirror'[j] \in 1..Mirrors
    BY <1>0, <2>1 DEF TransferTypes, Holds
  <2>5. Holds("open", tMirror'[j], tBody'[j], tChunks'[j], tResumes'[j], tFile'[j])
    BY <1>0, <2>2, <2>4 DEF Holds, Writing, TransferTypes
  <2>6. \A o \in Transferring \ {j} :
          UNCHANGED <<tMirror[o], tBody[o], tChunks[o], tResumes[o], tFile[o]>>
    BY <1>0, <2>1 DEF TransferTypes
  <2> QED
    BY <2>1, <2>2, <2>3, <2>5, <2>6, TransferMoves
<1>4. ASSUME NEW j \in Transferring, T!Open(j) PROVE TransferInv'
  <2>1. PICK f \in Transferring :
          /\ f = IF tPartial = Null THEN j ELSE tPartial
          /\ tFile' = [tFile EXCEPT ![j] = f]
          /\ tData' = [tData EXCEPT ![f] = <<>>]
          /\ tPartial' = f
    BY <1>0, <1>4 DEF T!Open, TransferTypes
  <2>2. /\ tPc[j] = "open" /\ tPc' = [tPc EXCEPT ![j] = "copy"]
        /\ UNCHANGED <<tServes, tMirror, tFirst, tBody, tChunks, tResumes, tWaits, tDest, tClash>>
    BY <1>4 DEF T!Open, T!Goto, T!answer, T!history
  <2>3. "copy" \in Stages /\ <<>> \in Seq(Versions \cup {Null})
    BY DEF Stages
  <2>4. TransferTypes'
    BY <1>0, <2>1, <2>2, <2>3 DEF TransferTypes
  <2>5. tFile'[j] = f /\ \A o \in Transferring \ {j} : tFile'[o] = tFile[o]
    BY <1>0, <2>1 DEF TransferTypes
  <2>6. Holds("copy", tMirror'[j], tBody'[j], tChunks'[j], tResumes'[j], tFile'[j])
    BY <1>0, <2>2, <2>5 DEF Holds, Writing
  <2> QED
    BY <2>2, <2>3, <2>4, <2>5, <2>6, TransferMoves
<1>5. ASSUME NEW j \in Transferring, T!Copy(j) PROVE TransferInv'
  <2>1. /\ tPc[j] = "copy" /\ ~T!Over(Len(tChunks[j]))
        /\ tChunks' = [tChunks EXCEPT ![j] = Append(@, tBody[j])]
        /\ tData' = [tData EXCEPT ![tFile[j]] = T!Put(@, Len(tChunks[j]) + 1, tBody[j])]
        /\ UNCHANGED <<tServes, tPc, tMirror, tFirst, tBody, tResumes, tWaits, tFile, tPartial, tDest, tClash>>
    BY <1>5 DEF T!Copy, T!history
  <2>2. /\ tBody[j] \in Versions /\ tFile[j] \in Transferring /\ tChunks[j] \in Seq(Versions)
        /\ tData[tFile[j]] \in Seq(Versions \cup {Null})
    BY <1>0, <2>1 DEF TransferTypes, Holds, Writing
  <2>3. T!Put(tData[tFile[j]], Len(tChunks[j]) + 1, tBody[j]) \in Seq(Versions \cup {Null})
    <3>1. Len(tChunks[j]) + 1 \in Nat \ {0} /\ tBody[j] \in Versions \cup {Null}
      BY <2>2, LenProperties
    <3> QED
      BY <2>2, <3>1, PutType
  <2>4. Append(tChunks[j], tBody[j]) \in Seq(Versions) /\ Len(Append(tChunks[j], tBody[j])) = Len(tChunks[j]) + 1
    BY <2>2, AppendProperties
  <2>5. TransferTypes'
    BY <1>0, <2>1, <2>3, <2>4 DEF TransferTypes
  <2>6. tChunks'[j] = Append(tChunks[j], tBody[j]) /\ \A o \in Transferring \ {j} : tChunks'[o] = tChunks[o]
    BY <1>0, <2>1 DEF TransferTypes
  <2>7. Ceiling > 0 => Len(tChunks'[j]) <= Ceiling + 1
    BY <2>1, <2>2, <2>4, <2>6 DEF T!Over
  <2>8. Holds("copy", tMirror'[j], tBody'[j], tChunks'[j], tResumes'[j], tFile'[j])
    BY <1>0, <2>1, <2>7 DEF Holds, Writing
  <2>9. tPc' = [tPc EXCEPT ![j] = "copy"] /\ "copy" \in Stages
    BY <1>0, <2>1 DEF TransferTypes, Stages
  <2> QED
    BY <2>1, <2>5, <2>6, <2>8, <2>9, TransferMoves
\* The transfer goes from one stage to the next and the answer stays, but for what was counted.
<1>6. ASSUME NEW j \in Transferring,
             T!Finished(j) \/ T!Cut(j) \/ T!CloseEarly(j) \/ T!RestRefused(j) \/ T!RestGivenUp(j)
      PROVE  TransferInv'
  <2>1. /\ tPc[j] \in Writing
        /\ tWaits' = tWaits \/ tWaits' = [tWaits EXCEPT ![j] = 0]
        /\ UNCHANGED <<tServes, tMirror, tFirst, tBody, tChunks, tResumes, tFile, tData, tPartial, tDest, tClash>>
    BY <1>6
    DEF T!Finished, T!Cut, T!CloseEarly, T!RestRefused, T!RestGivenUp, T!answer, T!volume, T!history, Writing
  <2>2. PICK stage \in {"rest", "discard", "rename"} :
          /\ tPc' = [tPc EXCEPT ![j] = stage]
          /\ stage = "rest" => tResumes[j] < MaxResumes
    BY <1>6 DEF T!Finished, T!Cut, T!CloseEarly, T!RestRefused, T!RestGivenUp, T!Goto
  <2>3. stage \in Stages /\ stage \in Writing
    BY DEF Stages, Writing
  <2>4. TransferTypes'
    <3>1. 0 \in 0..MaxWaits /\ tWaits \in [Transferring -> 0..MaxWaits]
      BY <1>0 DEF TransferTypes
    <3>2. tWaits' \in [Transferring -> 0..MaxWaits]
      BY <2>1, <3>1
    <3> QED
      BY <1>0, <2>1, <2>2, <2>3, <3>2 DEF TransferTypes
  <2>5. Holds(stage, tMirror'[j], tBody'[j], tChunks'[j], tResumes'[j], tFile'[j])
    BY <1>0, <2>1, <2>2, <2>3 DEF Holds, Writing
  <2> QED
    BY <2>1, <2>2, <2>3, <2>4, <2>5, TransferMoves
<1>7. ASSUME NEW j \in Transferring, T!Resume(j) PROVE TransferInv'
  <2>1. /\ tPc[j] = "rest" /\ tPc' = [tPc EXCEPT ![j] = "copy"]
        /\ tBody' = [tBody EXCEPT ![j] = tServes]
        /\ tResumes' = [tResumes EXCEPT ![j] = @ + 1]
        /\ UNCHANGED <<tServes, tMirror, tFirst, tChunks, tWaits, tFile, tData, tPartial, tDest, tClash>>
    BY <1>7 DEF T!Resume, T!Goto, T!volume
  <2>2. tResumes[j] + 1 \in 0..MaxResumes /\ "copy" \in Stages
    <3>1. tResumes[j] \in 0..MaxResumes /\ tResumes[j] < MaxResumes
      BY <1>0, <2>1 DEF TransferTypes, Holds
    <3> QED
      BY <3>1 DEF Stages
  <2>3. TransferTypes'
    BY <1>0, <2>1, <2>2 DEF TransferTypes
  <2>4. tBody'[j] = tServes /\ \A o \in Transferring \ {j} : UNCHANGED <<tBody[o], tResumes[o]>>
    BY <1>0, <2>1 DEF TransferTypes
  <2>5. Holds("copy", tMirror'[j], tBody'[j], tChunks'[j], tResumes'[j], tFile'[j])
    <3>1. tServes \in Versions
      BY <1>0 DEF TransferTypes
    <3> QED
      BY <1>0, <2>1, <2>4, <3>1 DEF Holds, Writing
  <2> QED
    BY <2>1, <2>2, <2>3, <2>4, <2>5, TransferMoves
<1>8. ASSUME NEW j \in Transferring, T!RestBusy(j) PROVE TransferInv'
  <2>1. /\ tWaits[j] < MaxWaits /\ tWaits' = [tWaits EXCEPT ![j] = @ + 1]
        /\ UNCHANGED <<tServes, tPc, tMirror, tFirst, tBody, tChunks, tResumes, tFile, tData, tPartial, tDest, tClash>>
    BY <1>8 DEF T!RestBusy, T!volume, T!history
  <2>2. tWaits[j] + 1 \in 0..MaxWaits
    <3>1. tWaits[j] \in 0..MaxWaits
      BY <1>0 DEF TransferTypes
    <3> QED
      BY <2>1, <3>1
  <2>3. TransferTypes'
    BY <1>0, <2>1, <2>2 DEF TransferTypes
  <2> QED
    BY <1>0, <2>1, <2>3 DEF TransferInv
<1>9. ASSUME NEW j \in Transferring, T!Rename(j) PROVE TransferInv'
  <2>1. /\ tPc[j] = "rename" /\ tPartial' = Null
        /\ tDest' \in {tDest, tPartial}
        /\ UNCHANGED <<tServes, tFirst, tBody, tChunks, tResumes, tWaits, tFile, tData, tClash>>
    BY <1>9 DEF T!Rename, T!answer, T!history
  <2>2. CASE tPartial = Null
    <3>1. T!NextMirror(j)
      BY <1>9, <2>2 DEF T!Rename
    <3>2. PICK stage \in {"ask", "failed"} :
            /\ tPc' = [tPc EXCEPT ![j] = stage]
            /\ stage # "failed" => tMirror'[j] \in 1..Mirrors
      BY <2>1, <3>1, NextMirrorTypes
    <3>3. stage \in Stages
      BY DEF Stages
    <3>4. TransferTypes'
      BY <1>0, <2>1, <3>1, <3>2, <3>3, NextMirrorTypes DEF TransferTypes
    <3>5. Holds(stage, tMirror'[j], tBody'[j], tChunks'[j], tResumes'[j], tFile'[j])
      BY <1>0, <2>1, <3>2 DEF Holds, Writing
    <3> QED
      BY <2>1, <3>1, <3>2, <3>3, <3>4, <3>5, NextMirrorTypes, TransferMoves
  <2>3. CASE tPartial # Null
    <3>1. tPc' = [tPc EXCEPT ![j] = "done"] /\ tMirror' = tMirror /\ "done" \in Stages
      BY <1>9, <2>3 DEF T!Rename, T!Goto, Stages
    <3>2. TransferTypes'
      BY <1>0, <2>1, <3>1 DEF TransferTypes
    <3>3. Holds("done", tMirror'[j], tBody'[j], tChunks'[j], tResumes'[j], tFile'[j])
      BY <1>0, <2>1, <3>1 DEF Holds, Writing
    <3> QED
      BY <2>1, <3>1, <3>2, <3>3, TransferMoves
  <2> QED
    BY <2>2, <2>3
<1>10. ASSUME NEW j \in Transferring, T!Cancel(j) PROVE TransferInv'
  <2>1. /\ tPc' = [tPc EXCEPT ![j] = "failed"] /\ tPartial' \in {tPartial, Null}
        /\ UNCHANGED <<tServes, tMirror, tFirst, tBody, tChunks, tResumes, tWaits, tFile, tData, tDest, tClash>>
    BY <1>10 DEF T!Cancel, T!Goto, T!answer, T!history
  <2>2. "failed" \in Stages
    BY DEF Stages
  <2>3. TransferTypes'
    BY <1>0, <2>1, <2>2 DEF TransferTypes
  <2>4. Holds("failed", tMirror'[j], tBody'[j], tChunks'[j], tResumes'[j], tFile'[j])
    BY <1>0, <2>1 DEF Holds, Writing
  <2> QED
    BY <2>1, <2>2, <2>3, <2>4, TransferMoves
<1>11. CASE T!Kill
  <2>1. /\ tPc' = [j \in Transferring |-> IF T!Ended(j) THEN tPc[j] ELSE "failed"]
        /\ UNCHANGED <<tServes, tMirror, tFirst, tBody, tChunks, tResumes, tWaits, tFile, tData, tPartial, tDest, tClash>>
    BY <1>11 DEF T!Kill, T!answer, T!volume, T!history
  <2>2. "failed" \in Stages
    BY DEF Stages
  <2>3. TransferTypes'
    BY <1>0, <2>1, <2>2 DEF TransferTypes
  <2>4. ASSUME NEW j \in Transferring
        PROVE  Holds(tPc'[j], tMirror[j], tBody[j], tChunks[j], tResumes[j], tFile[j])
    <3>1. tPc'[j] \in {tPc[j], "failed"}
      BY <2>1
    <3> QED
      BY <1>0, <3>1 DEF Holds, Writing
  <2> QED
    BY <2>1, <2>3, <2>4 DEF TransferInv
<1>12. ASSUME \/ T!Remove \/ UNCHANGED T!vars
              \/ \E v \in Versions : T!Replace(v)
       PROVE  TransferInv'
  <2>1. /\ tServes' \in Versions
        /\ tPartial' \in {tPartial, Null} /\ tDest' \in {tDest, Null}
        /\ UNCHANGED <<tPc, tMirror, tFirst, tBody, tChunks, tResumes, tWaits, tFile, tData, tClash>>
    BY <1>0, <1>12 DEF T!Remove, T!Replace, T!vars, T!answer, T!volume, T!history, TransferTypes
  <2>2. TransferTypes'
    BY <1>0, <2>1 DEF TransferTypes
  <2> QED
    BY <1>0, <2>1, <2>2 DEF TransferInv
<1> QED
  BY <1>1, <1>2, <1>3, <1>4, <1>5, <1>6, <1>7, <1>8, <1>9, <1>10, <1>11, <1>12 DEF T!Next, T!Steps

\* What is known of the names while one transfer at a time has the destination: the
\* two are different files, of transfers that were begun, and nobody writes what has
\* its real name any more.
NamesInv ==
  /\ tPartial # Null => tPartial # tDest /\ tPc[tPartial] # "idle"
  /\ tDest # Null => tPc[tDest] \in {"done", "failed"}

\* A transfer writes what it was sent, to the file named .part as long as it has the name,
\* and unless it was spliced that is the beginning of the version of the first answer.
WritesOwn(j) ==
  /\ tPc[j] = "open" => tChunks[j] = <<>> /\ tBody[j] = tFirst[j].version
  /\ tPc[j] \in Writing =>
       /\ tPartial \in {tFile[j], Null} /\ tFile[j] # tDest
       /\ tData[tFile[j]] = tChunks[j]
       /\ j \notin tSpliced =>
            /\ tBody[j] = tFirst[j].version
            /\ Len(tChunks[j]) <= Length[tBody[j]]
            /\ \A i \in 1..Len(tChunks[j]) : tChunks[j][i] = tBody[j]
  /\ tPc[j] = "rename" =>
       /\ ~T!Over(Len(tChunks[j]))
       /\ T!Sound(j) => Len(tChunks[j]) >= Length[tBody[j]]

OneAtATime == \A j, o \in Transferring : ~T!Ended(j) /\ ~T!Ended(o) => j = o

WholeInv ==
  ~tClash =>
    /\ OneAtATime
    /\ NamesInv
    /\ \A j \in Transferring : WritesOwn(j)
    /\ T!WholeUnderItsName

\* While no other transfer goes on, only what this one does is to be shown.
LEMMA OneMoves ==
  ASSUME TransferInv, NEW j \in Transferring, NEW stage \in Stages,
         \A o \in Transferring \ {j} : T!Ended(o),
         tPc' = [tPc EXCEPT ![j] = stage],
         WritesOwn(j)', NamesInv', T!WholeUnderItsName'
  PROVE  WholeInv'
<1>1. \A o \in Transferring \ {j} : tPc'[o] \in {"idle", "done", "failed"}
  BY DEF TransferInv, TransferTypes, T!Ended
<1>2. OneAtATime'
  BY <1>1 DEF OneAtATime, T!Ended
<1>3. \A o \in Transferring \ {j} : WritesOwn(o)'
  BY <1>1 DEF WritesOwn, Writing
<1> QED
  BY <1>2, <1>3 DEF WholeInv

\* The names stay, or the .part is removed, while one goes on.
LEMMA NamesStay ==
  ASSUME TransferInv, NamesInv, NEW j \in Transferring, NEW stage \in Stages \ {"idle"},
         tPc[j] \notin {"done", "failed"}, tPc' = [tPc EXCEPT ![j] = stage],
         tPartial' \in {tPartial, Null}, tDest' = tDest
  PROVE  NamesInv'
<1>1. \A o \in Transferring : tPc'[o] = IF o = j THEN stage ELSE tPc[o]
  BY DEF TransferInv, TransferTypes
<1>2. tPartial \in Transferring \cup {Null} /\ tDest \in Transferring \cup {Null}
  BY DEF TransferInv, TransferTypes
<1>3. tDest # Null => tDest # j
  BY DEF NamesInv
<1> QED
  BY <1>1, <1>2, <1>3 DEF NamesInv

\* What has its real name stays whole while its file is not written.
LEMMA StaysWhole ==
  ASSUME TransferInv, ~tClash, T!WholeUnderItsName, NEW j \in Transferring, NEW stage \in Stages,
         tPc[j] # "done", tPc' = [tPc EXCEPT ![j] = stage],
         tDest' = tDest, tDest # Null => tData'[tDest] = tData[tDest],
         \A o \in Transferring \ {j} : UNCHANGED <<tFile[o], tChunks[o]>>,
         tSpliced \subseteq tSpliced', tCutShort \subseteq tCutShort'
  PROVE  T!WholeUnderItsName'
<1> SUFFICES ASSUME tDest # Null PROVE T!WholeUnderItsName'
  BY DEF T!WholeUnderItsName
<1>1. PICK o \in Transferring :
        /\ tPc[o] = "done" /\ tFile[o] = tDest
        /\ tData[tDest] = tChunks[o] /\ ~T!Over(Len(tChunks[o]))
        /\ T!Sound(o) => \E v \in Versions : tData[tDest] = T!Whole(v)
  BY DEF T!WholeUnderItsName
<1>2. o # j
  BY <1>1
<1>3. tPc'[o] = "done" /\ tFile'[o] = tDest' /\ tChunks'[o] = tChunks[o] /\ tData'[tDest'] = tChunks'[o]
  BY <1>1, <1>2 DEF TransferInv, TransferTypes
<1>4. T!Sound(o)' => T!Sound(o)
  BY DEF T!Sound
<1>5. \A n : T!Over(n)' <=> T!Over(n)
  BY DEF T!Over
<1>6. \A v \in Versions : T!Whole(v)' = T!Whole(v)
  BY DEF T!Whole
<1>7. T!Sound(o)' => \E v \in Versions : tData'[tDest'] = T!Whole(v)
  BY <1>1, <1>4
<1>8. ~T!Over(Len(tChunks'[o]))
  BY <1>1, <1>3
<1> QED
  BY <1>3, <1>7, <1>8 DEF T!WholeUnderItsName, T!Over, T!Whole

\* WholeInv holds at the start.
LEMMA WholeInitial == T!Init => WholeInv
BY DEF T!Init, WholeInv, OneAtATime, NamesInv, WritesOwn, Writing, T!Ended, T!WholeUnderItsName
\* What an active transfer knows: no other goes on.
LEMMA OthersEnded ==
  ASSUME TransferInv, ~tClash, WholeInv, NEW j \in Transferring, ~T!Ended(j)
  PROVE  /\ \A o \in Transferring \ {j} : T!Ended(o)
         /\ NamesInv /\ WritesOwn(j) /\ T!WholeUnderItsName
         /\ tPc[j] \notin {"idle", "done", "failed"}
BY DEF WholeInv, OneAtATime, T!Ended

\* A step of one transfer that writes to no file, and goes to a stage that it is fit for.
LEMMA QuietMove ==
  ASSUME TransferInv, TransferInv', ~tClash, WholeInv, NEW j \in Transferring, ~T!Ended(j),
         NEW stage \in Stages \ {"idle"}, tPc' = [tPc EXCEPT ![j] = stage],
         tPartial' \in {tPartial, Null}, UNCHANGED <<tDest, tData, tFile>>,
         \A o \in Transferring \ {j} : tChunks'[o] = tChunks[o],
         tSpliced \subseteq tSpliced', tCutShort \subseteq tCutShort',
         WritesOwn(j)'
  PROVE  WholeInv'
<1>1. NamesInv'
  BY OthersEnded, NamesStay
<1>2. T!WholeUnderItsName'
  BY OthersEnded, StaysWhole
<1> QED
  BY <1>1, <1>2, OthersEnded, OneMoves

\* WholeInv is inductive.
LEMMA WholeStep == TransferInv /\ TransferInv' /\ WholeInv /\ [T!Next]_(T!vars) => WholeInv'
<1> SUFFICES ASSUME TransferInv, TransferInv', WholeInv, [T!Next]_(T!vars), ~tClash' PROVE WholeInv'
  BY DEF WholeInv
<1> USE TransferBounds
<1>0. /\ TransferTypes
      /\ \A j \in Transferring : Holds(tPc[j], tMirror[j], tBody[j], tChunks[j], tResumes[j], tFile[j])
  BY DEF TransferInv
<1> ~tClash
  <2>1. ASSUME NEW j \in Transferring, NEW declared \in BOOLEAN, NEW validator \in BOOLEAN,
               \/ T!Refused(j) \/ T!Open(j) \/ T!Copy(j) \/ T!Finished(j) \/ T!Resume(j)
               \/ T!RestRefused(j) \/ T!RestBusy(j) \/ T!RestGivenUp(j) \/ T!Rename(j)
               \/ T!Discard(j) \/ T!Answered(j, declared, validator)
               \/ T!Cut(j) \/ T!CloseEarly(j) \/ T!Cancel(j)
        PROVE  tClash' = tClash
    BY <2>1
    DEF T!Refused, T!Open, T!Copy, T!Finished, T!Resume, T!RestRefused, T!RestBusy, T!RestGivenUp,
        T!Rename, T!Discard, T!Answered, T!Cut, T!CloseEarly, T!Cancel, T!history
  <2>2. ASSUME NEW j \in Transferring, T!Begin(j) PROVE ~tClash
    BY <2>2 DEF T!Begin
  <2>3. ASSUME T!Kill \/ T!Remove \/ UNCHANGED T!vars \/ \E v \in Versions : T!Replace(v)
        PROVE  tClash' = tClash
    BY <2>3 DEF T!Kill, T!Remove, T!Replace, T!vars, T!history
  <2>4. CASE UNCHANGED T!vars
    BY <2>3, <2>4
  <2>5. CASE T!Next
    BY <2>1, <2>2, <2>3, <2>5 DEF T!Next, T!Steps
  <2> QED
    BY <2>4, <2>5
<1>1. ASSUME NEW j \in Transferring, T!Begin(j) PROVE WholeInv'
  <2>1. /\ tPc[j] = "idle" /\ tPc' = [tPc EXCEPT ![j] = "ask"] /\ "ask" \in Stages \ {"idle"}
        /\ ~tClash /\ \A o \in Transferring : T!Ended(o)
        /\ UNCHANGED <<tChunks, tFile, tData, tPartial, tDest, tSpliced, tCutShort>>
    BY <1>1 DEF T!Begin, T!Goto, T!answer, T!volume, Stages
  <2>2. tPc'[j] = "ask"
    BY <1>0, <2>1 DEF TransferTypes
  <2>3. WritesOwn(j)'
    BY <2>2 DEF WritesOwn, Writing
  <2>4. NamesInv'
    BY <2>1, NamesStay DEF WholeInv
  <2>5. T!WholeUnderItsName'
    BY <2>1, StaysWhole DEF WholeInv
  <2> QED
    BY <2>1, <2>3, <2>4, <2>5, OneMoves
<1>2. ASSUME NEW j \in Transferring, T!Refused(j) \/ T!Discard(j) PROVE WholeInv'
  <2>1. /\ ~T!Ended(j) /\ T!NextMirror(j)
        /\ tPartial' \in {tPartial, Null}
        /\ UNCHANGED <<tChunks, tFile, tData, tDest, tSpliced, tCutShort>>
    BY <1>2 DEF T!Refused, T!Discard, T!answer, T!volume, T!history, T!Ended
  <2>2. PICK stage \in {"ask", "failed"} : tPc' = [tPc EXCEPT ![j] = stage]
    BY <2>1 DEF T!NextMirror, T!Goto
  <2>3. tPc'[j] = stage /\ stage \in Stages \ {"idle"}
    BY <1>0, <2>2 DEF TransferTypes, Stages
  <2>4. WritesOwn(j)'
    BY <2>2, <2>3 DEF WritesOwn, Writing
  <2> QED
    BY <2>1, <2>2, <2>3, <2>4, QuietMove
<1>3. ASSUME NEW j \in Transferring, NEW declared \in BOOLEAN, NEW validator \in BOOLEAN,
             T!Answered(j, declared, validator)
      PROVE  WholeInv'
  <2>1. /\ ~T!Ended(j) /\ tPc' = [tPc EXCEPT ![j] = "open"]
        /\ tFirst' = [tFirst EXCEPT ![j] = [version |-> tServes, declared |-> declared, validator |-> validator]]
        /\ tBody' = [tBody EXCEPT ![j] = tServes]
        /\ tChunks' = [tChunks EXCEPT ![j] = <<>>]
        /\ UNCHANGED <<tFile, tData, tPartial, tDest, tSpliced, tCutShort>>
    BY <1>3 DEF T!Answered, T!Goto, T!volume, T!history, T!Ended
  <2>2. /\ tPc'[j] = "open" /\ "open" \in Stages \ {"idle"}
        /\ tChunks'[j] = <<>> /\ tBody'[j] = tFirst'[j].version
        /\ \A o \in Transferring \ {j} : tChunks'[o] = tChunks[o]
    BY <1>0, <2>1 DEF TransferTypes, Stages
  <2>3. WritesOwn(j)'
    BY <2>2 DEF WritesOwn, Writing
  <2> QED
    BY <2>1, <2>2, <2>3, QuietMove
<1>4. ASSUME NEW j \in Transferring, T!Open(j) PROVE WholeInv'
  <2>1. PICK f \in Transferring :
          /\ f = IF tPartial = Null THEN j ELSE tPartial
          /\ tFile' = [tFile EXCEPT ![j] = f]
          /\ tData' = [tData EXCEPT ![f] = <<>>]
          /\ tPartial' = f
    BY <1>0, <1>4 DEF T!Open, TransferTypes
  <2>2. /\ tPc[j] = "open" /\ ~T!Ended(j) /\ tPc' = [tPc EXCEPT ![j] = "copy"]
        /\ "copy" \in Stages
        /\ UNCHANGED <<tFirst, tBody, tChunks, tDest, tSpliced, tCutShort>>
    BY <1>4 DEF T!Open, T!Goto, T!answer, T!history, T!Ended, Stages
  <2>3. \A o \in Transferring : /\ tPc'[o] = IF o = j THEN "copy" ELSE tPc[o]
                                /\ tFile'[o] = IF o = j THEN f ELSE tFile[o]
                                /\ tData'[o] = IF o = f THEN <<>> ELSE tData[o]
    BY <1>0, <2>1, <2>2 DEF TransferTypes
  <2>4. NamesInv /\ WritesOwn(j) /\ T!WholeUnderItsName /\ \A o \in Transferring \ {j} : T!Ended(o)
    BY <2>2, OthersEnded
  <2>5. f # tDest /\ (f # j => tPc[f] # "idle")
    BY <2>1, <2>2, <2>4 DEF NamesInv
  <2>6. NamesInv'
    <3>1. tDest # Null => tDest # j /\ tDest \in Transferring
      BY <1>0, <2>2, <2>4 DEF NamesInv, TransferTypes
    <3> QED
      BY <2>1, <2>2, <2>3, <2>4, <2>5, <3>1 DEF NamesInv
  <2>7. WritesOwn(j)'
    <3>1. tChunks'[j] = <<>> /\ tBody'[j] = tFirst'[j].version /\ tPc'[j] = "copy" /\ tFile'[j] = f
      BY <2>2, <2>3, <2>4 DEF WritesOwn
    <3>2. tData'[tFile'[j]] = tChunks'[j] /\ tFile'[j] # tDest' /\ tPartial' = tFile'[j]
      BY <2>1, <2>2, <2>3, <2>5, <3>1
    <3>3. Len(tChunks'[j]) <= Length[tBody'[j]] /\ 1..Len(tChunks'[j]) = {}
      <4>1. tBody'[j] \in Versions
        BY <1>0, <2>2 DEF Holds, Writing
      <4>2. Length[tBody'[j]] \in Nat
        BY <4>1
      <4> QED
        BY <3>1, <4>2
    <3> QED
      BY <3>1, <3>2, <3>3 DEF WritesOwn
  <2>8. T!WholeUnderItsName'
    <3>1. tDest # Null => tData'[tDest] = tData[tDest]
      BY <1>0, <2>3, <2>5 DEF TransferTypes
    <3> QED
      BY <2>2, <2>3, <2>4, <3>1, StaysWhole
  <2> QED
    BY <2>2, <2>4, <2>6, <2>7, <2>8, OneMoves
<1>5. ASSUME NEW j \in Transferring, T!Copy(j) PROVE WholeInv'
  <2>1. /\ tPc[j] = "copy" /\ ~T!Ended(j) /\ T!More(j)
        /\ tChunks' = [tChunks EXCEPT ![j] = Append(@, tBody[j])]
        /\ tData' = [tData EXCEPT ![tFile[j]] = T!Put(@, Len(tChunks[j]) + 1, tBody[j])]
        /\ UNCHANGED <<tPc, tFirst, tBody, tFile, tPartial, tDest, tSpliced, tCutShort>>
    BY <1>5 DEF T!Copy, T!history, T!Ended
  <2>2. /\ NamesInv /\ WritesOwn(j) /\ T!WholeUnderItsName
        /\ \A o \in Transferring \ {j} : T!Ended(o)
    BY <2>1, OthersEnded
  <2>3. /\ tFile[j] \in Transferring /\ tBody[j] \in Versions /\ tChunks[j] \in Seq(Versions)
        /\ tPc' = [tPc EXCEPT ![j] = "copy"] /\ "copy" \in Stages /\ "copy" \in Writing
    BY <1>0, <2>1 DEF Holds, Writing, TransferTypes, Stages
  <2>4. /\ tChunks'[j] = Append(tChunks[j], tBody[j])
        /\ \A o \in Transferring \ {j} : tChunks'[o] = tChunks[o]
        /\ tData'[tFile[j]] = T!Put(tData[tFile[j]], Len(tChunks[j]) + 1, tBody[j])
        /\ \A f \in Transferring \ {tFile[j]} : tData'[f] = tData[f]
    BY <1>0, <2>1, <2>3 DEF TransferTypes
  <2>5. tFile[j] # tDest /\ tData[tFile[j]] = tChunks[j] /\ tPartial \in {tFile[j], Null}
    BY <2>1, <2>2, <2>3 DEF WritesOwn
  <2>6. tData'[tFile[j]] = tChunks'[j]
    <3>1. tChunks[j] \in Seq(Versions \cup {Null}) /\ tBody[j] \in Versions \cup {Null}
      BY <2>3
    <3>2. T!Put(tChunks[j], Len(tChunks[j]) + 1, tBody[j]) = Append(tChunks[j], tBody[j])
      BY <3>1, PutAppends
    <3> QED
      BY <2>4, <2>5, <3>2
  <2>7. ASSUME j \notin tSpliced
        PROVE  /\ tBody[j] = tFirst[j].version
               /\ Len(tChunks'[j]) <= Length[tBody[j]]
               /\ \A i \in 1..Len(tChunks'[j]) : tChunks'[j][i] = tBody[j]
    <3>1. /\ tBody[j] = tFirst[j].version
          /\ \A i \in 1..Len(tChunks[j]) : tChunks[j][i] = tBody[j]
      BY <2>1, <2>2, <2>3, <2>7 DEF WritesOwn
    <3>2. Len(tChunks[j]) < Length[tBody[j]] /\ Length[tBody[j]] \in Nat /\ Len(tChunks[j]) \in Nat
      BY <2>1, <2>3 DEF T!More
    <3>3. /\ Len(tChunks'[j]) = Len(tChunks[j]) + 1
          /\ \A i \in 1..Len(tChunks[j]) : tChunks'[j][i] = tChunks[j][i]
          /\ tChunks'[j][Len(tChunks[j]) + 1] = tBody[j]
      BY <2>3, <2>4, AppendProperties
    <3>4. \A i \in 1..Len(tChunks'[j]) : i \in 1..Len(tChunks[j]) \/ i = Len(tChunks[j]) + 1
      BY <3>2, <3>3
    <3> QED
      BY <3>1, <3>2, <3>3, <3>4
  <2>8. WritesOwn(j)'
    BY <2>1, <2>5, <2>6, <2>7 DEF WritesOwn
  <2>9. NamesInv'
    BY <2>1, <2>2 DEF NamesInv
  <2>10. T!WholeUnderItsName'
    <3>1. tDest # Null => tData'[tDest] = tData[tDest]
      BY <1>0, <2>4, <2>5 DEF TransferTypes
    <3> QED
      BY <2>1, <2>2, <2>3, <2>4, <3>1, StaysWhole
  <2> QED
    BY <2>2, <2>3, <2>8, <2>9, <2>10, OneMoves
\* The body ends, is cut or given up: what was written stays.
<1>6. ASSUME NEW j \in Transferring,
             \/ T!Finished(j) \/ T!Cut(j) \/ T!CloseEarly(j) \/ T!RestRefused(j) \/ T!RestGivenUp(j)
      PROVE  WholeInv'
  <2>1. /\ tPc[j] \in {"copy", "rest"} /\ ~T!Ended(j)
        /\ UNCHANGED <<tFirst, tBody, tChunks, tFile, tData, tPartial, tDest, tSpliced>>
        /\ tCutShort \subseteq tCutShort'
    BY <1>6
    DEF T!Finished, T!Cut, T!CloseEarly, T!RestRefused, T!RestGivenUp, T!answer, T!volume, T!history, T!Ended
  <2>2. PICK stage \in {"rest", "discard", "rename"} :
          /\ tPc' = [tPc EXCEPT ![j] = stage]
          /\ stage = "rename" => /\ ~T!Over(Len(tChunks[j]))
                                 /\ ~T!More(j) \/ j \in tCutShort'
    BY <1>6 DEF T!Finished, T!Cut, T!CloseEarly, T!RestRefused, T!RestGivenUp, T!Goto
  <2>3. tPc'[j] = stage /\ stage \in Stages \ {"idle"} /\ stage \in Writing /\ tPc[j] \in Writing
    BY <1>0, <2>1, <2>2 DEF TransferTypes, Stages, Writing
  <2>4. WritesOwn(j)'
    <3>1. WritesOwn(j)
      BY <2>1, OthersEnded
    <3>2. stage = "rename" => /\ ~T!Over(Len(tChunks[j]))'
                              /\ T!Sound(j)' => Len(tChunks'[j]) >= Length[tBody'[j]]
      <4>1. tChunks[j] \in Seq(Versions) /\ tBody[j] \in Versions
        BY <1>0, <2>3 DEF TransferTypes, Holds
      <4>2. Len(tChunks[j]) \in Nat /\ Length[tBody[j]] \in Nat
        BY <4>1
      <4>3. ~T!More(j) => Len(tChunks[j]) >= Length[tBody[j]]
        BY <4>2 DEF T!More
      <4> QED
        BY <2>1, <2>2, <4>3 DEF T!Sound, T!Over
    <3> QED
      BY <2>1, <2>3, <3>1, <3>2 DEF WritesOwn
  <2> QED
    BY <2>1, <2>2, <2>3, <2>4, QuietMove
<1>7. ASSUME NEW j \in Transferring, T!Resume(j) PROVE WholeInv'
  <2>1. /\ tPc[j] = "rest" /\ ~T!Ended(j) /\ tPc' = [tPc EXCEPT ![j] = "copy"]
        /\ T!Continues(j)
        /\ tBody' = [tBody EXCEPT ![j] = tServes]
        /\ tSpliced' = IF ~tFirst[j].validator /\ tServes # tFirst[j].version THEN tSpliced \cup {j} ELSE tSpliced
        /\ UNCHANGED <<tFirst, tChunks, tFile, tData, tPartial, tDest, tCutShort>>
    BY <1>7 DEF T!Resume, T!Goto, T!volume, T!Ended
  <2>2. /\ tPc'[j] = "copy" /\ "copy" \in Stages \ {"idle"} /\ tBody'[j] = tServes
        /\ tSpliced \subseteq tSpliced'
    BY <1>0, <2>1 DEF TransferTypes, Stages
  <2>3. WritesOwn(j)
    BY <2>1, OthersEnded
  <2>4. ASSUME j \notin tSpliced' PROVE tServes = tFirst[j].version /\ j \notin tSpliced
    BY <2>1, <2>4 DEF T!Continues
  <2>5. WritesOwn(j)'
    BY <2>1, <2>2, <2>3, <2>4 DEF WritesOwn, Writing
  <2> QED
    BY <2>1, <2>2, <2>5, QuietMove
<1>8. ASSUME NEW j \in Transferring, T!RestBusy(j) PROVE WholeInv'
  BY <1>8 DEF T!RestBusy, T!volume, T!history, WholeInv, OneAtATime, NamesInv, WritesOwn,
     T!WholeUnderItsName, T!Ended, T!Sound, T!Over, T!Whole
<1>9. ASSUME NEW j \in Transferring, T!Rename(j) PROVE WholeInv'
  <2>1. /\ tPc[j] = "rename" /\ ~T!Ended(j) /\ tPartial' = Null
        /\ tDest' = IF tPartial = Null THEN tDest ELSE tPartial
        /\ UNCHANGED <<tBody, tChunks, tFile, tData, tSpliced, tCutShort>>
    BY <1>9 DEF T!Rename, T!answer, T!history, T!Ended
  <2>2. CASE tPartial = Null
    <3>1. T!NextMirror(j)
      BY <1>9, <2>2 DEF T!Rename
    <3>2. PICK stage \in {"ask", "failed"} : tPc' = [tPc EXCEPT ![j] = stage]
      BY <3>1 DEF T!NextMirror, T!Goto
    <3>3. tPc'[j] = stage /\ stage \in Stages \ {"idle"}
      BY <1>0, <3>2 DEF TransferTypes, Stages
    <3>4. WritesOwn(j)'
      BY <3>2, <3>3 DEF WritesOwn, Writing
    <3> QED
      BY <2>1, <2>2, <3>2, <3>3, <3>4, QuietMove
  <2>3. CASE tPartial # Null
    <3>1. tPc' = [tPc EXCEPT ![j] = "done"] /\ tPc'[j] = "done" /\ "done" \in Stages
      BY <1>0, <1>9, <2>3 DEF T!Rename, T!Goto, Stages, TransferTypes
    <3>2. /\ NamesInv /\ WritesOwn(j) /\ \A o \in Transferring \ {j} : T!Ended(o)
      BY <2>1, OthersEnded
    <3>3. /\ tPartial = tFile[j] /\ tData[tFile[j]] = tChunks[j] /\ ~T!Over(Len(tChunks[j]))
          /\ tFile[j] \in Transferring /\ tBody[j] \in Versions /\ tChunks[j] \in Seq(Versions)
      BY <1>0, <2>1, <2>3, <3>2 DEF WritesOwn, Writing, Holds, TransferTypes
    <3>4. tPc'[tPartial] \in {"done", "failed"}
      <4>1. CASE tPartial = j
        BY <3>1, <4>1
      <4>2. CASE tPartial # j
        <5>1. T!Ended(tPartial) /\ tPc[tPartial] # "idle" /\ tPc'[tPartial] = tPc[tPartial]
          BY <1>0, <2>3, <3>1, <3>2, <3>3, <4>2 DEF NamesInv, TransferTypes
        <5> QED
          BY <5>1 DEF T!Ended
      <4> QED
        BY <4>1, <4>2
    <3>5. NamesInv'
      BY <2>1, <2>3, <3>4 DEF NamesInv
    <3>6. WritesOwn(j)'
      BY <3>1 DEF WritesOwn, Writing
    <3>7. T!Sound(j) => tChunks[j] = T!Whole(tBody[j])
      <4> SUFFICES ASSUME T!Sound(j) PROVE tChunks[j] = T!Whole(tBody[j])
        OBVIOUS
      <4>1. /\ Len(tChunks[j]) <= Length[tBody[j]] /\ Len(tChunks[j]) >= Length[tBody[j]]
            /\ \A i \in 1..Len(tChunks[j]) : tChunks[j][i] = tBody[j]
        BY <2>1, <3>2 DEF WritesOwn, Writing, T!Sound
      <4>2. Len(tChunks[j]) = Length[tBody[j]]
        <5>1. Len(tChunks[j]) \in Nat /\ Length[tBody[j]] \in Nat
          BY <3>3
        <5> QED
          BY <4>1, <5>1
      <4>3. tChunks[j] = [i \in 1..Len(tChunks[j]) |-> tChunks[j][i]]
        BY <3>3, LenProperties
      <4>4. T!Whole(tBody[j]) = [i \in 1..Len(tChunks[j]) |-> tBody[j]]
        BY <4>2 DEF T!Whole
      <4> QED
        BY <4>1, <4>3, <4>4
    <3>8. T!WholeUnderItsName'
      <4>1. /\ tPc'[j] = "done" /\ tFile'[j] = tDest'
            /\ tData'[tDest'] = tChunks'[j] /\ ~T!Over(Len(tChunks'[j]))
        BY <2>1, <2>3, <3>1, <3>3
      <4>2. T!Sound(j)' => tData'[tDest'] = T!Whole(tBody[j])
        BY <2>1, <3>7, <4>1 DEF T!Sound
      <4> QED
        BY <3>3, <4>1, <4>2 DEF T!WholeUnderItsName, T!Over, T!Whole
    <3> QED
      BY <3>1, <3>2, <3>5, <3>6, <3>8, OneMoves
  <2> QED
    BY <2>2, <2>3
<1>10. ASSUME NEW j \in Transferring, T!Cancel(j) PROVE WholeInv'
  <2>1. /\ ~T!Ended(j) /\ tPc' = [tPc EXCEPT ![j] = "failed"] /\ tPartial' \in {tPartial, Null}
        /\ UNCHANGED <<tChunks, tFile, tData, tDest, tSpliced, tCutShort>>
    BY <1>10 DEF T!Cancel, T!Goto, T!answer, T!history
  <2>2. tPc'[j] = "failed" /\ "failed" \in Stages \ {"idle"}
    BY <1>0, <2>1 DEF TransferTypes, Stages
  <2>3. WritesOwn(j)'
    BY <2>2 DEF WritesOwn, Writing
  <2> QED
    BY <2>1, <2>2, <2>3, QuietMove
<1>11. CASE T!Kill
  <2>1. /\ tPc' = [j \in Transferring |-> IF T!Ended(j) THEN tPc[j] ELSE "failed"]
        /\ UNCHANGED <<tChunks, tFile, tData, tPartial, tDest, tSpliced, tCutShort>>
    BY <1>11 DEF T!Kill, T!answer, T!volume, T!history
  <2>2. /\ OneAtATime /\ NamesInv /\ T!WholeUnderItsName
        /\ tPartial \in Transferring \cup {Null} /\ tDest \in Transferring \cup {Null}
    BY <1>0 DEF WholeInv, TransferTypes
  <2>3. \A j \in Transferring :
          /\ tPc'[j] \in {"idle", "done", "failed"}
          /\ tPc[j] # "idle" => tPc'[j] # "idle"
          /\ tPc[j] \in {"done", "failed"} => tPc'[j] = tPc[j]
    BY <2>1 DEF T!Ended
  <2>4. OneAtATime' /\ \A j \in Transferring : WritesOwn(j)'
    BY <2>3 DEF OneAtATime, T!Ended, WritesOwn, Writing
  <2>5. NamesInv'
    BY <2>1, <2>2, <2>3 DEF NamesInv
  <2>6. T!WholeUnderItsName'
    BY <2>1, <2>2, <2>3 DEF T!WholeUnderItsName, T!Sound, T!Over, T!Whole
  <2> QED
    BY <2>4, <2>5, <2>6 DEF WholeInv
<1>12. CASE T!Remove
  <2>1. /\ tPartial' = Null /\ tDest' = Null
        /\ UNCHANGED <<tPc, tFirst, tBody, tChunks, tFile, tData, tSpliced, tCutShort>>
    BY <1>12 DEF T!Remove, T!answer, T!history
  <2>2. OneAtATime' /\ NamesInv' /\ T!WholeUnderItsName'
    BY <2>1 DEF WholeInv, OneAtATime, T!Ended, NamesInv, T!WholeUnderItsName
  <2>3. ASSUME NEW j \in Transferring PROVE WritesOwn(j)'
    <3>1. tPc[j] \in Writing => tFile[j] \in Transferring
      BY <1>0 DEF Holds
    <3>2. WritesOwn(j)
      BY DEF WholeInv
    <3> QED
      BY <2>1, <3>1, <3>2 DEF WritesOwn, T!Sound, T!Over
  <2> QED
    BY <2>2, <2>3 DEF WholeInv
<1>13. ASSUME UNCHANGED T!vars \/ \E v \in Versions : T!Replace(v) PROVE WholeInv'
  <2>1. UNCHANGED <<tPc, tFirst, tBody, tChunks, tFile, tData, tPartial, tDest, tSpliced, tCutShort, tClash>>
    BY <1>13 DEF T!Replace, T!vars, T!answer, T!volume, T!history
  <2> QED
    BY <2>1 DEF WholeInv, OneAtATime, NamesInv, WritesOwn, T!WholeUnderItsName, T!Ended, T!Sound, T!Over, T!Whole
<1> QED
  BY <1>1, <1>2, <1>3, <1>4, <1>5, <1>6, <1>7, <1>8, <1>9, <1>10, <1>11, <1>12, <1>13 DEF T!Next, T!Steps

\* What has its real name is one version of the file, all of it and within the ceiling,
\* whatever was cut, replaced, cancelled, killed or removed, when one transfer at a time had
\* the destination and neither a splice nor an early end was hidden from it.
THEOREM WholeUnderItsNameCorrect == T!Spec => []WholeUnderItsName
<1>1. TransferInv => T!TypeOK
  BY DEF TransferInv, TransferTypes, Holds, T!TypeOK
<1>2. TransferInv /\ WholeInv => WholeUnderItsName
  BY <1>1 DEF WholeInv, WholeUnderItsName, T!WholeUnderItsName
<1> QED
  BY <1>2, TransferInitial, TransferStep, WholeInitial, WholeStep, PTL DEF T!Spec
=============================================================================
