-------------------------- MODULE McpSessionProofs --------------------------
(***************************************************************************)
(* Proofs about McpSession, for any number of commits, connections,        *)
(* launches and resets.  The names of frames travel through six places,    *)
(* from a commit that waits for its buffer to what the agent harvested;    *)
(* a step moves them on, drops some, or adds a new one at the end.  Server *)
(* and tools are shown to be the peer that RemoteApp assumes.              *)
(***************************************************************************)
EXTENDS McpSession, SequenceTheorems, FiniteSetTheorems, TLAPS

-----------------------------------------------------------------------------
(* Ordered parts.                                                          *)

Parts == [1..6 -> Seq(QueueItem)]

\* The records in the parts, read from the first part to the last, are of frames in
\* the list, in the order of the list.
Listed(list, parts) ==
    \A p \in 1..6 : \A n \in 1..Len(parts[p]) : parts[p][n].record =>
        \E i \in 1..Len(list) : list[i] = ItemName(parts[p][n])
Rising(list, parts) ==
    \A p, q \in 1..6 : \A m \in 1..Len(parts[p]), n \in 1..Len(parts[q]) :
        /\ p < q \/ (p = q /\ m < n)
        /\ parts[p][m].record /\ parts[q][n].record
        => \A i, j \in 1..Len(list) :
             list[i] = ItemName(parts[p][m]) /\ list[j] = ItemName(parts[q][n]) => i < j
Ordered(list, parts) == Listed(list, parts) /\ Rising(list, parts)

\* A part that kept a stretch of another, and otherwise no records.
From(new, old) ==
    \E shift \in Nat : \A n \in 1..Len(new) :
        new[n].record => n + shift \in 1..Len(old) /\ new[n] = old[n + shift]
Thinned(new, old) == \A p \in 1..6 : From(new[p], old[p])

\* The first k items of part p + 1 went to the end of part p.
Moved(new, old, p, k) ==
    /\ \A q \in 1..6 : q # p /\ q # p + 1 => new[q] = old[q]
    /\ k \in 0..Len(old[p + 1])
    /\ Len(new[p]) = Len(old[p]) + k
    /\ \A n \in 1..Len(old[p]) : new[p][n] = old[p][n]
    /\ \A n \in 1..k : new[p][Len(old[p]) + n] = old[p + 1][n]
    /\ Len(new[p + 1]) = Len(old[p + 1]) - k
    /\ \A n \in 1..Len(old[p + 1]) - k : new[p + 1][n] = old[p + 1][n + k]

LEMMA PartTypes ==
    ASSUME NEW parts \in Parts, NEW p \in 1..6
    PROVE  /\ Len(parts[p]) \in Nat
           /\ parts[p] \in Seq(QueueItem)
           /\ \A n \in 1..Len(parts[p]) : parts[p][n] \in QueueItem
BY DEF Parts

LEMMA RisingAt ==
    ASSUME NEW list, NEW parts, Rising(list, parts), NEW p \in 1..6, NEW q \in 1..6,
           NEW m \in 1..Len(parts[p]), NEW n \in 1..Len(parts[q]),
           p < q \/ (p = q /\ m < n), parts[p][m].record, parts[q][n].record,
           NEW i \in 1..Len(list), NEW j \in 1..Len(list),
           list[i] = ItemName(parts[p][m]), list[j] = ItemName(parts[q][n])
    PROVE  i < j
BY DEF Rising

LEMMA ThinnedOrdered ==
    ASSUME NEW list, Len(list) \in Nat, NEW old \in Parts, NEW new \in Parts,
           Ordered(list, old), Thinned(new, old)
    PROVE  Ordered(list, new)
<1>1. ASSUME NEW p \in 1..6
      PROVE  \E shift \in Nat : \A n \in 1..Len(new[p]) :
               new[p][n].record => n + shift \in 1..Len(old[p]) /\ new[p][n] = old[p][n + shift]
  BY DEF Thinned, From
<1>2. Listed(list, new)
  <2> SUFFICES ASSUME NEW p \in 1..6, NEW n \in 1..Len(new[p]), new[p][n].record
               PROVE  \E i \in 1..Len(list) : list[i] = ItemName(new[p][n])
    BY DEF Listed
  <2>1. PICK shift \in Nat : n + shift \in 1..Len(old[p]) /\ new[p][n] = old[p][n + shift]
    BY <1>1
  <2> QED
    BY <2>1 DEF Ordered, Listed
<1>3. Rising(list, new)
  <2> SUFFICES ASSUME NEW p \in 1..6, NEW q \in 1..6,
                      NEW m \in 1..Len(new[p]), NEW n \in 1..Len(new[q]),
                      p < q \/ (p = q /\ m < n), new[p][m].record, new[q][n].record,
                      NEW i \in 1..Len(list), NEW j \in 1..Len(list),
                      list[i] = ItemName(new[p][m]), list[j] = ItemName(new[q][n])
               PROVE  i < j
    BY DEF Rising
  <2>1. PICK s \in Nat : \A l \in 1..Len(new[p]) :
               new[p][l].record => l + s \in 1..Len(old[p]) /\ new[p][l] = old[p][l + s]
    BY <1>1
  <2>2. PICK t \in Nat : /\ n + t \in 1..Len(old[q]) /\ new[q][n] = old[q][n + t]
                         /\ p = q => t = s
    <3>1. CASE p = q
      BY <2>1, <3>1
    <3>2. CASE p # q
      BY <1>1, <3>2
    <3> QED
      BY <3>1, <3>2
  <2>3. PICK x \in 1..Len(old[p]) : x = m + s /\ new[p][m] = old[p][x]
    BY <2>1
  <2>4. PICK y \in 1..Len(old[q]) : y = n + t /\ new[q][n] = old[q][y]
    BY <2>2
  <2>5. p < q \/ (p = q /\ x < y)
    BY <2>2, <2>3, <2>4, PartTypes
  <2>6. Rising(list, old)
    BY DEF Ordered
  <2>7. /\ old[p][x].record /\ old[q][y].record
        /\ list[i] = ItemName(old[p][x]) /\ list[j] = ItemName(old[q][y])
    BY <2>3, <2>4
  <2> QED
    BY <2>5, <2>6, <2>7, RisingAt
<1> QED
  BY <1>2, <1>3 DEF Ordered

\* Item m of part r was item l of part s before such a move.
Came(old, p, k, r, m, s, l) ==
    \/ r = p /\ m > Len(old[p]) /\ s = p + 1 /\ l = m - Len(old[p])
    \/ r = p + 1 /\ s = p + 1 /\ l = m + k
    \/ r # p + 1 /\ (r = p => m <= Len(old[p])) /\ s = r /\ l = m

LEMMA MovedOrdered ==
    ASSUME NEW list, Len(list) \in Nat, NEW old \in Parts, NEW new \in Parts,
           NEW p \in 1..5, NEW k \in Nat, Ordered(list, old), Moved(new, old, p, k)
    PROVE  Ordered(list, new)
<1>0. p \in 1..6 /\ p + 1 \in 1..6 /\ p # p + 1
  OBVIOUS
<1>1. ASSUME NEW r \in 1..6, NEW m \in 1..Len(new[r])
      PROVE  \E s \in 1..6 : \E l \in 1..Len(old[s]) :
               new[r][m] = old[s][l] /\ Came(old, p, k, r, m, s, l)
  <2>a. Len(old[p]) \in Nat /\ Len(old[p + 1]) \in Nat
    BY <1>0, PartTypes
  <2>b. Len(new[r]) \in Nat
    BY PartTypes
  <2>0. Len(old[p]) \in Nat /\ Len(old[p + 1]) \in Nat /\ Len(new[r]) \in Nat /\ m \in Nat
    BY <2>a, <2>b
  <2>1. CASE r = p /\ m > Len(old[p])
    <3>1. m - Len(old[p]) \in 1..k /\ Len(old[p]) + (m - Len(old[p])) = m
      BY <2>0, <2>1 DEF Moved
    <3>2. m - Len(old[p]) \in 1..Len(old[p + 1])
      BY <2>0, <3>1 DEF Moved
    <3>3. new[p][m] = old[p + 1][m - Len(old[p])]
      BY <3>1 DEF Moved
    <3> QED
      BY <1>0, <2>1, <3>2, <3>3 DEF Came
  <2>2. CASE r = p /\ ~(m > Len(old[p]))
    <3>1. m \in 1..Len(old[p]) /\ m <= Len(old[p])
      BY <2>0, <2>2
    <3>2. new[r][m] = old[p][m]
      BY <2>2, <3>1 DEF Moved
    <3>3. Came(old, p, k, r, m, p, m)
      BY <1>0, <2>2, <3>1 DEF Came
    <3> QED
      BY <1>0, <3>1, <3>2, <3>3
  <2>3. CASE r = p + 1
    <3>1. m \in 1..Len(old[p + 1]) - k /\ m + k \in 1..Len(old[p + 1])
      BY <2>0, <2>3 DEF Moved
    <3> QED
      BY <1>0, <2>3, <3>1 DEF Moved, Came
  <2>4. CASE r # p /\ r # p + 1
    <3>1. new[r] = old[r]
      BY <2>4 DEF Moved
    <3> QED
      BY <2>4, <3>1 DEF Came
  <2> QED
    BY <2>1, <2>2, <2>3, <2>4
<1>2. Listed(list, new)
  <2> SUFFICES ASSUME NEW r \in 1..6, NEW m \in 1..Len(new[r]), new[r][m].record
               PROVE  \E i \in 1..Len(list) : list[i] = ItemName(new[r][m])
    BY DEF Listed
  <2>1. PICK s \in 1..6 : \E l \in 1..Len(old[s]) : new[r][m] = old[s][l]
    BY <1>1
  <2> QED
    BY <2>1 DEF Ordered, Listed
<1>3. Rising(list, new)
  <2> SUFFICES ASSUME NEW r \in 1..6, NEW q \in 1..6,
                      NEW m \in 1..Len(new[r]), NEW n \in 1..Len(new[q]),
                      r < q \/ (r = q /\ m < n), new[r][m].record, new[q][n].record,
                      NEW i \in 1..Len(list), NEW j \in 1..Len(list),
                      list[i] = ItemName(new[r][m]), list[j] = ItemName(new[q][n])
               PROVE  i < j
    BY DEF Rising
  <2>1. PICK s \in 1..6 : \E l \in 1..Len(old[s]) :
               new[r][m] = old[s][l] /\ Came(old, p, k, r, m, s, l)
    BY <1>1
  <2>2. PICK l \in 1..Len(old[s]) : new[r][m] = old[s][l] /\ Came(old, p, k, r, m, s, l)
    BY <2>1
  <2>3. PICK t \in 1..6 : \E h \in 1..Len(old[t]) :
               new[q][n] = old[t][h] /\ Came(old, p, k, q, n, t, h)
    BY <1>1
  <2>4. PICK h \in 1..Len(old[t]) : new[q][n] = old[t][h] /\ Came(old, p, k, q, n, t, h)
    BY <2>3
  <2>5. Len(old[p]) \in Nat /\ Len(new[p]) = Len(old[p]) + k
    BY <1>0, PartTypes DEF Moved
  <2>6. Len(new[r]) \in Nat /\ Len(new[q]) \in Nat
    BY PartTypes
  <2>7. m \in Nat /\ n \in Nat
    BY <2>6
  <2>8. (q = p => n <= Len(old[p]) + k) /\ (r = p => m <= Len(old[p]) + k)
    <3>1. m <= Len(new[r]) /\ n <= Len(new[q])
      BY <2>6
    <3>2. (q = p => n <= Len(new[p])) /\ (r = p => m <= Len(new[p]))
      BY <3>1, Zenon
    <3> QED
      BY <2>5, <3>2
  <2>9. s < t \/ (s = t /\ l < h)
    <3> DEFINE old_p == Len(old[p])
    <3>1. old_p \in Nat /\ k \in Nat /\ p \in Nat /\ r \in Nat /\ q \in Nat
      BY <2>5
    <3>2. (q = p => n <= old_p + k) /\ (r = p => m <= old_p + k)
      BY <2>8
    <3>3. /\ Came(old, p, k, r, m, s, l)
          /\ Came(old, p, k, q, n, t, h)
      BY <2>2, <2>4
    <3>4. /\ \/ r = p /\ m > old_p /\ s = p + 1 /\ l = m - old_p
             \/ r = p + 1 /\ s = p + 1 /\ l = m + k
             \/ r # p + 1 /\ (r = p => m <= old_p) /\ s = r /\ l = m
          /\ \/ q = p /\ n > old_p /\ t = p + 1 /\ h = n - old_p
             \/ q = p + 1 /\ t = p + 1 /\ h = n + k
             \/ q # p + 1 /\ (q = p => n <= old_p) /\ t = q /\ h = n
      BY <3>3 DEF Came
    <3> HIDE DEF old_p
    <3> QED
      BY <2>7, <3>1, <3>2, <3>4
  <2>10. Rising(list, old)
    BY DEF Ordered
  <2>11. /\ old[s][l].record /\ old[t][h].record
         /\ list[i] = ItemName(old[s][l]) /\ list[j] = ItemName(old[t][h])
    BY <2>2, <2>4
  <2> QED
    BY <2>9, <2>10, <2>11, RisingAt
<1> QED
  BY <1>2, <1>3 DEF Ordered

\* A list that grows leaves the parts ordered: what they hold was listed before.
LEMMA ListGrows ==
    ASSUME NEW list \in Seq(Name), NEW name \in Name, NEW old \in Parts,
           Ordered(list, old), \A i \in 1..Len(list) : list[i] # name
    PROVE  Ordered(Append(list, name), old)
<1> DEFINE longer == Append(list, name)
<1>1. /\ Len(list) \in Nat /\ Len(longer) = Len(list) + 1
      /\ \A i \in 1..Len(list) : longer[i] = list[i]
      /\ longer[Len(list) + 1] = name
  OBVIOUS
<1> HIDE DEF longer
<1>2. Listed(longer, old)
  <2>1. \A i \in 1..Len(list) : i \in 1..Len(longer)
    BY <1>1
  <2> QED
    BY <1>1, <2>1 DEF Ordered, Listed
<1>3. Rising(longer, old)
  <2> SUFFICES ASSUME NEW p \in 1..6, NEW q \in 1..6,
                      NEW m \in 1..Len(old[p]), NEW n \in 1..Len(old[q]),
                      p < q \/ (p = q /\ m < n), old[p][m].record, old[q][n].record,
                      NEW i \in 1..Len(longer), NEW j \in 1..Len(longer),
                      longer[i] = ItemName(old[p][m]), longer[j] = ItemName(old[q][n])
               PROVE  i < j
    BY DEF Rising
  <2>1. ItemName(old[p][m]) # name /\ ItemName(old[q][n]) # name
    BY DEF Ordered, Listed
  <2>2. i \in 1..Len(list) /\ j \in 1..Len(list)
    BY <1>1, <2>1
  <2>3. list[i] = ItemName(old[p][m]) /\ list[j] = ItemName(old[q][n])
    BY <1>1, <2>2
  <2>4. Rising(list, old)
    BY DEF Ordered
  <2> QED
    BY <2>2, <2>3, <2>4, RisingAt
<1> QED
  BY <1>2, <1>3 DEF Ordered, longer

\* The item went to the end of part p, and no part after it holds anything.
Joined(new, old, p, item) ==
    /\ new = [old EXCEPT ![p] = Append(old[p], item)]
    /\ \A q \in 1..6 : q > p => old[q] = <<>>

\* The name ends the list, and neither the list before it nor a part holds it.
Newest(list, parts, name) ==
    /\ list[Len(list)] = name
    /\ \A i \in 1..Len(list) : list[i] = name => i = Len(list)
    /\ \A q \in 1..6 : \A n \in 1..Len(parts[q]) :
           parts[q][n].record => ItemName(parts[q][n]) # name

\* The last name of the list may follow all others.
LEMMA LastJoins ==
    ASSUME NEW list, Len(list) \in Nat \ {0}, NEW old \in Parts, NEW new \in Parts,
           NEW p \in 1..6, NEW item \in QueueItem, Ordered(list, old),
           Newest(list, old, ItemName(item)), Joined(new, old, p, item)
    PROVE  Ordered(list, new)
<1>1. Listed(list, old) /\ Rising(list, old)
  BY DEF Ordered
<1>0. \A q \in 1..6 : \A n \in 1..Len(new[q]) :
         \/ n \in 1..Len(old[q]) /\ new[q][n] = old[q][n]
         \/ q = p /\ n = Len(old[p]) + 1 /\ new[q][n] = item
  <2> SUFFICES ASSUME NEW q \in 1..6, NEW n \in 1..Len(new[q])
               PROVE  \/ n \in 1..Len(old[q]) /\ new[q][n] = old[q][n]
                      \/ q = p /\ n = Len(old[p]) + 1 /\ new[q][n] = item
    OBVIOUS
  <2>1. /\ q # p => new[q] = old[q]
        /\ new[p] = Append(old[p], item)
    BY DEF Parts, Joined
  <2>2. CASE q # p
    BY <2>1, <2>2
  <2>3. CASE q = p
    <3>1. /\ Len(old[p]) \in Nat /\ Len(new[p]) = Len(old[p]) + 1
          /\ \A l \in 1..Len(old[p]) : new[p][l] = old[p][l]
          /\ new[p][Len(old[p]) + 1] = item
      BY <2>1, PartTypes
    <3>2. n \in 1..Len(new[p])
      BY <2>3
    <3>3. n \in 1..Len(old[p]) \/ n = Len(old[p]) + 1
      BY <3>1, <3>2
    <3> QED
      BY <2>3, <3>1, <3>3
  <2> QED
    BY <2>2, <2>3
<1>2. Listed(list, new)
  <2> SUFFICES ASSUME NEW q \in 1..6, NEW n \in 1..Len(new[q]), new[q][n].record
               PROVE  \E i \in 1..Len(list) : list[i] = ItemName(new[q][n])
    BY DEF Listed
  <2>1. CASE n \in 1..Len(old[q]) /\ new[q][n] = old[q][n]
    BY <1>1, <2>1 DEF Listed
  <2>2. CASE new[q][n] = item
    <3>1. Len(list) \in 1..Len(list) /\ list[Len(list)] = ItemName(item)
      BY DEF Newest
    <3> QED
      BY <2>2, <3>1
  <2> QED
    BY <1>0, <2>1, <2>2
<1>3. Rising(list, new)
  <2> SUFFICES ASSUME NEW r \in 1..6, NEW q \in 1..6,
                      NEW m \in 1..Len(new[r]), NEW n \in 1..Len(new[q]),
                      r < q \/ (r = q /\ m < n), new[r][m].record, new[q][n].record,
                      NEW i \in 1..Len(list), NEW j \in 1..Len(list),
                      list[i] = ItemName(new[r][m]), list[j] = ItemName(new[q][n])
               PROVE  i < j
    BY DEF Rising
  <2>1. CASE r = p /\ m = Len(old[p]) + 1
    <3>1. ~(n \in 1..Len(old[q]))
      <4>1. CASE q = p
        <5>1. m < n
          BY <2>1, <4>1
        <5> QED
          BY <2>1, <4>1, <5>1, PartTypes
      <4>2. CASE q > p
        <5>1. old[q] = <<>>
          BY <4>2 DEF Joined
        <5>2. Len(old[q]) = 0
          BY <5>1
        <5> QED
          BY <5>2
      <4> QED
        BY <2>1, <4>1, <4>2
    <3>2. q = p /\ n = Len(old[p]) + 1
      BY <1>0, <3>1
    <3>3. n \in Nat
      BY PartTypes
    <3> QED
      BY <2>1, <3>2, <3>3
  <2>2. CASE ~(r = p /\ m = Len(old[p]) + 1)
    <3>1. m \in 1..Len(old[r]) /\ new[r][m] = old[r][m]
      BY <1>0, <2>2
    <3>2. CASE n \in 1..Len(old[q]) /\ new[q][n] = old[q][n]
      <4>1. PICK x \in 1..Len(old[r]) : x = m /\ new[r][m] = old[r][x]
        BY <3>1
      <4>2. PICK y \in 1..Len(old[q]) : y = n /\ new[q][n] = old[q][y]
        BY <3>2
      <4>3. /\ old[r][x].record /\ old[q][y].record
            /\ list[i] = ItemName(old[r][x]) /\ list[j] = ItemName(old[q][y])
            /\ r < q \/ (r = q /\ x < y)
        BY <4>1, <4>2
      <4> QED
        BY <1>1, <4>3, RisingAt
    <3>3. CASE new[q][n] = item
      <4>1. ItemName(old[r][m]) # ItemName(item) /\ list[Len(list)] = ItemName(item)
        BY <3>1 DEF Newest
      <4>2. i # Len(list)
        BY <3>1, <4>1
      <4>3. j = Len(list)
        BY <3>3 DEF Newest
      <4> QED
        BY <4>2, <4>3
    <3> QED
      BY <1>0, <3>2, <3>3
  <2> QED
    BY <2>1, <2>2
<1> QED
  BY <1>2, <1>3 DEF Ordered

-----------------------------------------------------------------------------
(* What keeps any list's order.                                            *)

Passed(new, old) ==
    \A list : Len(list) \in Nat /\ Ordered(list, old) => Ordered(list, new)

LEMMA DroppedPasses ==
    ASSUME NEW old \in Parts, NEW new \in Parts, Thinned(new, old)
    PROVE  Passed(new, old)
BY ThinnedOrdered DEF Passed

LEMMA MovedPasses ==
    ASSUME NEW old \in Parts, NEW new \in Parts, NEW p \in 1..5, NEW k \in Nat,
           Moved(new, old, p, k)
    PROVE  Passed(new, old)
BY MovedOrdered DEF Passed

LEMMA HeadPasses ==
    ASSUME NEW old \in Parts, NEW new \in Parts, NEW p \in 1..5, NEW next \in 1..6,
           next = p + 1, old[next] # <<>>,
           new[p] = Append(old[p], Head(old[next])), new[next] = Tail(old[next]),
           \A q \in 1..6 : q # p /\ q # next => new[q] = old[q]
    PROVE  Passed(new, old)
<1>0. p \in 1..6 /\ p + 1 \in 1..6
  OBVIOUS
<1>1. old[p] \in Seq(QueueItem) /\ old[p + 1] \in Seq(QueueItem)
  BY <1>0, PartTypes
<1>2. /\ Len(old[p]) \in Nat /\ Len(old[p + 1]) \in Nat \ {0}
      /\ Head(old[p + 1]) = old[p + 1][1]
      /\ Len(Tail(old[p + 1])) = Len(old[p + 1]) - 1
      /\ \A n \in 1..Len(old[p + 1]) - 1 : Tail(old[p + 1])[n] = old[p + 1][n + 1]
  BY <1>1
<1>3. /\ Len(new[p]) = Len(old[p]) + 1
      /\ \A n \in 1..Len(old[p]) : new[p][n] = old[p][n]
      /\ new[p][Len(old[p]) + 1] = old[p + 1][1]
  BY <1>1, <1>2
<1>4. Moved(new, old, p, 1)
  <2>1. 1 \in 0..Len(old[p + 1])
    BY <1>2
  <2>2. \A n \in 1..1 : new[p][Len(old[p]) + n] = old[p + 1][n]
    BY <1>3
  <2> QED
    BY <1>2, <1>3, <2>1, <2>2 DEF Moved
<1> QED
  BY <1>4, MovedPasses

LEMMA PassedTwice ==
    ASSUME NEW old, NEW mid, NEW new, Passed(mid, old), Passed(new, mid)
    PROVE  Passed(new, old)
BY DEF Passed

LEMMA FromSome ==
    ASSUME NEW s \in Seq(QueueItem)
    PROVE  /\ From(s, s)
           /\ From(<<>>, s)
           /\ From(Append(s, NoRecord), s)
           /\ \A k \in 0..Len(s) : From(SubSeq(s, k + 1, Len(s)), s)
           /\ s # <<>> => From(Tail(s), s)
<1>1. From(s, s)
  <2>1. \A n \in 1..Len(s) : n + 0 \in 1..Len(s) /\ s[n] = s[n + 0]
    OBVIOUS
  <2> QED
    BY <2>1 DEF From
<1>2. From(<<>>, s)
  <2>1. \A n \in 1..Len(<<>>) : FALSE
    OBVIOUS
  <2> QED
    BY <2>1 DEF From
<1>3. From(Append(s, NoRecord), s)
  <2>1. /\ Len(s) \in Nat /\ Len(Append(s, NoRecord)) = Len(s) + 1
        /\ \A n \in 1..Len(s) : Append(s, NoRecord)[n] = s[n]
        /\ Append(s, NoRecord)[Len(s) + 1] = NoRecord
    OBVIOUS
  <2>2. ~NoRecord.record
    BY DEF NoRecord
  <2> DEFINE t == Append(s, NoRecord)
  <2>3. ASSUME NEW n \in 1..Len(t), t[n].record
        PROVE  n + 0 \in 1..Len(s) /\ t[n] = s[n + 0]
    <3>1. n \in 1..Len(s) \/ n = Len(s) + 1
      BY <2>1
    <3> QED
      BY <2>1, <2>2, <2>3, <3>1
  <2> HIDE DEF t
  <2>4. From(t, s)
    BY <2>3 DEF From
  <2> QED
    BY <2>4 DEF t
<1>4. ASSUME NEW k \in 0..Len(s)
      PROVE  From(SubSeq(s, k + 1, Len(s)), s)
  <2> DEFINE t == SubSeq(s, k + 1, Len(s))
  <2>1. Len(t) = Len(s) - k /\ \A n \in 1..Len(s) - k : t[n] = s[n + k]
    OBVIOUS
  <2>2. k \in Nat /\ \A n \in 1..Len(t) :
                         t[n].record => n + k \in 1..Len(s) /\ t[n] = s[n + k]
    BY <2>1
  <2> HIDE DEF t
  <2>3. From(t, s)
    BY <2>2, Zenon DEF From
  <2> QED
    BY <2>3 DEF t
<1>5. s # <<>> => From(Tail(s), s)
  <2>1. s # <<>> => Tail(s) = SubSeq(s, 1 + 1, Len(s)) /\ 1 \in 0..Len(s)
    OBVIOUS
  <2> QED
    BY <1>4, <2>1
<1> QED
  BY <1>1, <1>2, <1>3, <1>4, <1>5

-----------------------------------------------------------------------------
(* Types.                                                                  *)

AnyFrame == [tag : Nat, id : Nat, body : Body]
Sending == [parses : {TRUE}, frame : AnyFrame]

\* A connection as this session uses it: every line on it parses.
End == [to_app : Seq(Sending), to_server : Seq(Answer),
        app : {"open", "closed"}, server : {"open", "closed"}, reset : BOOLEAN]

Accepted == {c \in 1..MaxConnections : handler[c] # "none"}

\* Besides the types: every connection the server speaks of exists, and there
\* is a session for each one it accepted.
SessionTypes ==
    /\ SessionTypeOK
    /\ wire \in Seq(End)
    /\ Len(wire) <= MaxConnections
    /\ app_queue \in Seq(AnyFrame)
    /\ client \in 0..Len(wire)
    /\ draining.conn \in 0..Len(wire)
    /\ call = "draining" => draining.conn # NoConnection
    /\ \A c \in 1..MaxConnections : handler[c] # "none" => c <= Len(wire)
    /\ session_tag = Cardinality(Accepted)

\* Connection c of the wire takes these contents; the others stay.
Put(c, to_app, to_server, app, server, reset) ==
    /\ wire' \in Seq(End)
    /\ Len(wire') = Len(wire)
    /\ \A i \in 1..Len(wire) : i # c => wire'[i] = wire[i]
    /\ wire'[c].to_app = to_app
    /\ wire'[c].to_server = to_server
    /\ wire'[c].app = app
    /\ wire'[c].server = server
    /\ wire'[c].reset = reset

LEMMA WirePut ==
    ASSUME wire \in Seq(End), NEW c \in 1..Len(wire), NEW e \in End,
           wire' = [wire EXCEPT ![c] = e]
    PROVE  Put(c, e.to_app, e.to_server, e.app, e.server, e.reset)
BY ExceptSeq DEF Put

LEMMA EndFields ==
    ASSUME wire \in Seq(End), NEW c \in 1..Len(wire)
    PROVE  /\ wire[c] \in End
           /\ wire[c].to_app \in Seq(Sending)
           /\ wire[c].to_server \in Seq(Answer)
           /\ wire[c].app \in {"open", "closed"}
           /\ wire[c].server \in {"open", "closed"}
           /\ wire[c].reset \in BOOLEAN
<1>1. wire[c] \in End
  BY ElementOfSeq
<1> QED
  BY <1>1 DEF End

LEMMA AppClosesPut ==
    ASSUME wire \in Seq(End), NEW c \in 1..Len(wire), AppCloses(c)
    PROVE  Put(c, wire[c].to_app, wire[c].to_server, "closed", wire[c].server, wire[c].reset)
<1> DEFINE e == [wire[c] EXCEPT !.app = "closed"]
<1>1. wire' = [wire EXCEPT ![c] = e]
  BY DEF AppCloses
<1>2. e \in End
  BY EndFields DEF End
<1>3. /\ e.to_app = wire[c].to_app /\ e.to_server = wire[c].to_server /\ e.app = "closed"
      /\ e.server = wire[c].server /\ e.reset = wire[c].reset
  BY EndFields DEF End
<1> HIDE DEF e
<1>4. Put(c, e.to_app, e.to_server, e.app, e.server, e.reset)
  BY <1>1, <1>2, WirePut
<1> QED
  BY <1>3, <1>4

LEMMA ServerClosesPut ==
    ASSUME wire \in Seq(End), NEW c \in 1..Len(wire), ServerCloses(c)
    PROVE  Put(c, wire[c].to_app, wire[c].to_server, wire[c].app, "closed", wire[c].reset)
<1> DEFINE e == [wire[c] EXCEPT !.server = "closed"]
<1>1. wire' = [wire EXCEPT ![c] = e]
  BY DEF ServerCloses
<1>2. e \in End
  BY EndFields DEF End
<1>3. /\ e.to_app = wire[c].to_app /\ e.to_server = wire[c].to_server /\ e.server = "closed"
      /\ e.app = wire[c].app /\ e.reset = wire[c].reset
  BY EndFields DEF End
<1> HIDE DEF e
<1>4. Put(c, e.to_app, e.to_server, e.app, e.server, e.reset)
  BY <1>1, <1>2, WirePut
<1> QED
  BY <1>3, <1>4

LEMMA ToAppPut ==
    ASSUME wire \in Seq(End), NEW c \in 1..Len(wire), NEW lines \in Seq(Sending),
           wire' = [wire EXCEPT ![c].to_app = lines]
    PROVE  Put(c, lines, wire[c].to_server, wire[c].app, wire[c].server, wire[c].reset)
<1> DEFINE e == [wire[c] EXCEPT !.to_app = lines]
<1>1. wire' = [wire EXCEPT ![c] = e]
  OBVIOUS
<1>2. e \in End
  BY EndFields DEF End
<1>3. /\ e.to_app = lines /\ e.to_server = wire[c].to_server /\ e.server = wire[c].server
      /\ e.app = wire[c].app /\ e.reset = wire[c].reset
  BY EndFields DEF End
<1> HIDE DEF e
<1>4. Put(c, e.to_app, e.to_server, e.app, e.server, e.reset)
  BY <1>1, <1>2, WirePut
<1> QED
  BY <1>3, <1>4

LEMMA ToServerPut ==
    ASSUME wire \in Seq(End), NEW c \in 1..Len(wire), NEW answers \in Seq(Answer),
           wire' = [wire EXCEPT ![c].to_server = answers]
    PROVE  Put(c, wire[c].to_app, answers, wire[c].app, wire[c].server, wire[c].reset)
<1> DEFINE e == [wire[c] EXCEPT !.to_server = answers]
<1>1. wire' = [wire EXCEPT ![c] = e]
  OBVIOUS
<1>2. e \in End
  BY EndFields DEF End
<1>3. /\ e.to_app = wire[c].to_app /\ e.to_server = answers /\ e.server = wire[c].server
      /\ e.app = wire[c].app /\ e.reset = wire[c].reset
  BY EndFields DEF End
<1> HIDE DEF e
<1>4. Put(c, e.to_app, e.to_server, e.app, e.server, e.reset)
  BY <1>1, <1>2, WirePut
<1> QED
  BY <1>3, <1>4

LEMMA ResetPut ==
    ASSUME wire \in Seq(End), NEW c \in 1..Len(wire), Reset(c)
    PROVE  Put(c, <<>>, <<>>, wire[c].app, wire[c].server, TRUE)
<1> DEFINE e == [to_app |-> <<>>, to_server |-> <<>>, app |-> wire[c].app,
                 server |-> wire[c].server, reset |-> TRUE]
<1>1. wire' = [wire EXCEPT ![c] = e]
  BY DEF Reset
<1>2. e \in End
  BY EndFields DEF End
<1>4. Put(c, e.to_app, e.to_server, e.app, e.server, e.reset)
  BY <1>1, <1>2, WirePut
<1> QED
  BY <1>4

LEMMA OrphanedPut ==
    ASSUME wire \in Seq(End), NEW c \in 1..Len(wire), HandlerOrphaned(c)
    PROVE  Put(c, wire[c].to_app, <<>>, wire[c].app, "closed", wire[c].reset)
<1> DEFINE e == [to_app |-> wire[c].to_app, to_server |-> <<>>, app |-> wire[c].app,
                 server |-> "closed", reset |-> wire[c].reset]
<1>1. wire' = [wire EXCEPT ![c] = e]
  BY DEF HandlerOrphaned
<1>2. e \in End
  BY EndFields DEF End
<1>4. Put(c, e.to_app, e.to_server, e.app, e.server, e.reset)
  BY <1>1, <1>2, WirePut
<1> QED
  BY <1>4

\* A line goes to a live connection, or nowhere.
LEMMA PutOnWirePut ==
    ASSUME wire \in Seq(End), NEW c \in 1..Len(wire), NEW tag \in Nat, NEW id \in Nat,
           NEW body \in Body, PutOnWire(c, LineOf(tag, id, body))
    PROVE  IF wire[c].reset \/ wire[c].server = "closed" THEN wire' = wire
           ELSE Put(c, Append(wire[c].to_app, LineOf(tag, id, body)), wire[c].to_server,
                    wire[c].app, wire[c].server, wire[c].reset)
<1>1. LineOf(tag, id, body) \in Sending
  BY DEF LineOf, Sending, AnyFrame
<1>2. Append(wire[c].to_app, LineOf(tag, id, body)) \in Seq(Sending)
  BY <1>1, EndFields
<1>3. CASE wire[c].reset \/ wire[c].server = "closed"
  BY <1>3 DEF PutOnWire
<1>4. CASE ~(wire[c].reset \/ wire[c].server = "closed")
  <2>1. wire' = [wire EXCEPT ![c].to_app = Append(wire[c].to_app, LineOf(tag, id, body))]
    BY <1>4 DEF PutOnWire
  <2> QED
    BY <1>2, <1>4, <2>1, ToAppPut
<1> QED
  BY <1>3, <1>4

LEMMA Opened ==
    ASSUME wire \in Seq(End), NEW app_end \in {"open", "closed"}, Open(app_end)
    PROVE  /\ wire' \in Seq(End)
           /\ Len(wire) < MaxConnections
           /\ Len(wire') = Len(wire) + 1
           /\ \A i \in 1..Len(wire) : wire'[i] = wire[i]
           /\ wire'[Len(wire')] = [to_app |-> <<>>, to_server |-> <<>>, app |-> app_end,
                                   server |-> "open", reset |-> FALSE]
<1>1. [to_app |-> <<>>, to_server |-> <<>>, app |-> app_end,
       server |-> "open", reset |-> FALSE] \in End
  BY DEF End
<1> QED
  BY <1>1, AppendProperties DEF Open

LEMMA ConnectionNumbers ==
    IsFiniteSet(1..MaxConnections) /\ Cardinality(1..MaxConnections) = MaxConnections
<1>1. 1 \in Int /\ MaxConnections \in Int /\ MaxConnections >= 1
  BY MaxConnectionsAssumption
<1>2. /\ IsFiniteSet(1..MaxConnections)
      /\ Cardinality(1..MaxConnections) =
           IF 1 > MaxConnections THEN 0 ELSE MaxConnections - 1 + 1
  BY <1>1, FS_Interval, Zenon
<1> QED
  BY <1>1, <1>2

LEMMA AcceptedFinite ==
    IsFiniteSet(Accepted) /\ Cardinality(Accepted) \in 0..MaxConnections
<1>2. Accepted \subseteq 1..MaxConnections
  BY DEF Accepted
<1>3. IsFiniteSet(Accepted) /\ Cardinality(Accepted) <= Cardinality(1..MaxConnections)
  BY ConnectionNumbers, <1>2, FS_Subset
<1> QED
  BY ConnectionNumbers, <1>3, FS_CardinalityType, MaxConnectionsAssumption

LEMMA AcceptedGrows ==
    ASSUME handler \in [1..MaxConnections -> {"none", "reading", "closed"}],
           NEW c \in 1..MaxConnections, handler[c] = "none",
           handler' = [handler EXCEPT ![c] = "reading"]
    PROVE  /\ Cardinality(Accepted') = Cardinality(Accepted) + 1
           /\ Cardinality(Accepted') \in 0..MaxConnections
<1>1. Accepted' = Accepted \cup {c} /\ c \notin Accepted
  BY DEF Accepted
<1>2. Cardinality(Accepted') = Cardinality(Accepted) + 1
  BY <1>1, AcceptedFinite, FS_AddElement
<1>4. Accepted' \subseteq 1..MaxConnections
  BY DEF Accepted
<1>5. Cardinality(Accepted') <= MaxConnections
  BY ConnectionNumbers, <1>4, FS_Subset
<1> QED
  BY <1>2, <1>5, AcceptedFinite, MaxConnectionsAssumption

LEMMA AcceptedStays ==
    ASSUME handler \in [1..MaxConnections -> {"none", "reading", "closed"}],
           NEW c \in 1..MaxConnections, handler[c] = "reading",
           handler' = [handler EXCEPT ![c] = "closed"]
    PROVE  Accepted' = Accepted
BY DEF Accepted

LEMMA SessionTypesInit == SessionInit => SessionTypes
<1> HAVE SessionInit
<1> USE DEF SessionInit, ServerInit, WireInit
<1>1. Accepted = {} /\ Cardinality(Accepted) = 0
  BY FS_EmptySet DEF Accepted
<1>2. ServerTypeOK
  BY MaxConnectionsAssumption
     DEF ServerTypeOK, EmptyStage, Body, NoDrain, NoConnection
<1>3. SessionTypeOK
  BY <1>2, SessionBoundsAssumption DEF SessionTypeOK
<1> QED
  BY <1>1, <1>3, MaxConnectionsAssumption DEF SessionTypes, NoDrain, NoConnection

\* What the server holds keeps its types in every step it does not take.
LEMMA ServerRests ==
    ASSUME SessionTypes, UNCHANGED serverVars
    PROVE  /\ ServerTypeOK'
           /\ Accepted' = Accepted
BY DEF SessionTypes, SessionTypeOK, ServerTypeOK, serverVars, Accepted

\* An edited wire has room for the connections there were.
LEMMA RoomStays ==
    ASSUME SessionTypes, wire' \in Seq(End), Len(wire') \in {Len(wire), Len(wire) + 1},
           Len(wire') <= MaxConnections, app_queue' \in Seq(AnyFrame),
           process' \in {"none", "running", "exited"},
           launches' \in 0..MaxLaunches, resets' \in 0..MaxResets, orderly' \in BOOLEAN,
           UNCHANGED serverVars
    PROVE  SessionTypes'
<1>1. ServerTypeOK' /\ Accepted' = Accepted
  BY ServerRests
<1>2. SessionTypeOK'
  BY <1>1 DEF SessionTypeOK
<1>3. Len(wire) \in Nat
  BY DEF SessionTypes
<1> QED
  BY <1>1, <1>2, <1>3 DEF SessionTypes, serverVars

LEMMA AnswerType ==
    ASSUME NEW frame \in AnyFrame, NEW answer \in AnswersTo(frame)
    PROVE  answer \in Answer /\ answer.tag = frame.tag /\ answer.id = frame.id
BY DEF AnswersTo, ShotOf, Answer, AnyFrame, Body, ShotResult

LEMMA ConnectedCurrent ==
    ASSUME wire \in Seq(End), AppConnected
    PROVE  Current \in 1..Len(wire) /\ wire[Current].app = "open"
BY DEF AppConnected, Current

LEMMA WithoutFrames ==
    ASSUME app_queue \in Seq(AnyFrame), NEW k \in 0..Len(app_queue)
    PROVE  /\ Without(k) \in Seq(AnyFrame)
           /\ Len(Without(k)) = Len(app_queue) - k
           /\ \A n \in 1..Len(app_queue) - k : Without(k)[n] = app_queue[n + k]
BY DEF Without

\* The end of the process closes its socket, if there is one.
LEMMA ProcessGoneWires ==
    ASSUME wire \in Seq(End), ProcessGone
    PROVE  /\ app_queue' = <<>>
           /\ \/ wire' = wire
              \/ AppConnected /\ AppCloses(Current)
BY DEF ProcessGone

\* The steps of the application.
LEMMA RemoteAppTypes ==
    ASSUME SessionTypes, RemoteAppStep
    PROVE  /\ wire' \in Seq(End)
           /\ Len(wire') \in {Len(wire), Len(wire) + 1} /\ Len(wire') <= MaxConnections
           /\ app_queue' \in Seq(AnyFrame)
           /\ process' \in {"none", "running", "exited"}
<1>0. /\ wire \in Seq(End) /\ Len(wire) \in Nat /\ Len(wire) <= MaxConnections
      /\ app_queue \in Seq(AnyFrame)
      /\ process \in {"none", "running", "exited"}
      /\ <<>> \in Seq(AnyFrame)
  BY DEF SessionTypes, SessionTypeOK
<1>1. CASE AppConnects \/ ExitedConnects
  <2>1. PICK app_end \in {"open", "closed"} : Open(app_end)
    BY <1>1 DEF AppConnects, ExitedConnects
  <2>2. wire' \in Seq(End) /\ Len(wire') = Len(wire) + 1 /\ Len(wire') <= MaxConnections
    BY <1>0, <2>1, Opened, MaxConnectionsAssumption
  <2>3. UNCHANGED <<process, app_queue>>
    BY <1>1 DEF AppConnects, ExitedConnects
  <2> QED
    BY <1>0, <2>2, <2>3
<1>2. CASE AppReads \/ ExitedReads
  <2>1. Current \in 1..Len(wire) /\ wire[Current].to_app # <<>>
    BY <1>0, <1>2, ConnectedCurrent DEF AppReads, ExitedReads, Current
  <2>2. /\ Head(wire[Current].to_app) \in Sending
        /\ Tail(wire[Current].to_app) \in Seq(Sending)
    BY <1>0, <2>1, EndFields
  <2>3. command_frame_from_json(Head(wire[Current].to_app)) \in AnyFrame
    BY <2>2 DEF Sending, command_frame_from_json
  <2>4. app_queue' \in Seq(AnyFrame)
    <3> DEFINE frame == command_frame_from_json(Head(wire[Current].to_app))
    <3>1. app_queue \in Seq(AnyFrame) /\ frame \in AnyFrame
      BY <1>0, <2>3
    <3>2. app_queue' = Append(app_queue, frame) \/ app_queue' = app_queue
      BY <1>2 DEF AppReads, ExitedReads
    <3> HIDE DEF frame
    <3> QED
      BY <3>1, <3>2
  <2>5. wire' = [wire EXCEPT ![Current].to_app = Tail(wire[Current].to_app)]
    BY <1>2 DEF AppReads, ExitedReads
  <2>6. wire' \in Seq(End) /\ Len(wire') = Len(wire)
    BY <1>0, <2>1, <2>2, <2>5, ToAppPut DEF Put
  <2>7. process' = process
    BY <1>2 DEF AppReads, ExitedReads
  <2> QED
    BY <1>0, <2>4, <2>6, <2>7
<1>3. CASE AppAnswers
  <2>1. Current \in 1..Len(wire) /\ app_queue # <<>>
    BY <1>0, <1>3, ConnectedCurrent DEF AppAnswers
  <2>2. Head(app_queue) \in AnyFrame
    BY <1>0, <2>1
  <2>3. PICK answer \in AnswersTo(Head(app_queue)) :
          wire' = [wire EXCEPT ![Current].to_server = Append(wire[Current].to_server, answer)]
    BY <1>3 DEF AppAnswers
  <2>4. Append(wire[Current].to_server, answer) \in Seq(Answer)
    BY <1>0, <2>1, <2>2, EndFields, AnswerType
  <2>5. wire' \in Seq(End) /\ Len(wire') = Len(wire)
    BY <1>0, <2>1, <2>3, <2>4, ToServerPut DEF Put
  <2>6. PICK k \in 1..Len(app_queue) : app_queue' = Without(k)
    BY <1>3 DEF AppAnswers
  <2>7. app_queue' \in Seq(AnyFrame)
    BY <1>0, <2>6, WithoutFrames
  <2>8. process' = process
    BY <1>3 DEF AppAnswers
  <2> QED
    BY <1>0, <2>5, <2>7, <2>8
<1>4. CASE AppLoses
  <2>1. PICK k \in 1..Len(app_queue) : app_queue' = Without(k)
    BY <1>4 DEF AppLoses
  <2>2. app_queue' \in Seq(AnyFrame)
    BY <1>0, <2>1, WithoutFrames
  <2> QED
    BY <1>0, <1>4, <2>2 DEF AppLoses
<1>5. CASE AppDisconnects \/ AppExits
  <2>1. wire' = wire \/ (AppConnected /\ AppCloses(Current))
    BY <1>0, <1>5, ProcessGoneWires DEF AppDisconnects, AppExits
  <2>2. wire' \in Seq(End) /\ Len(wire') = Len(wire)
    BY <1>0, <2>1, ConnectedCurrent, AppClosesPut DEF Put
  <2>3. app_queue' \in {app_queue, <<>>} /\ process' \in {process, "exited"}
    BY <1>0, <1>5, ProcessGoneWires DEF AppDisconnects, AppExits
  <2> QED
    BY <1>0, <2>2, <2>3
<1> QED
  BY <1>1, <1>2, <1>3, <1>4, <1>5 DEF RemoteAppStep

\* The steps of the application and of the network.
LEMMA ApplicationTypes ==
    ASSUME SessionTypes, Application \/ \E c \in 1..Len(wire) : NetworkResets(c)
    PROVE  SessionTypes'
<1>0. /\ wire \in Seq(End) /\ Len(wire) \in Nat /\ Len(wire) <= MaxConnections
      /\ app_queue \in Seq(AnyFrame)
      /\ process \in {"none", "running", "exited"}
      /\ launches \in 0..MaxLaunches /\ resets \in 0..MaxResets /\ orderly \in BOOLEAN
  BY DEF SessionTypes, SessionTypeOK
<1>1. CASE Application
  <2>1. UNCHANGED <<serverVars, launches, resets>> /\ orderly' \in BOOLEAN
    BY <1>0, <1>1 DEF Application
  <2>2. RemoteAppStep
    BY <1>1 DEF Application
  <2> QED
    BY <1>0, <2>1, <2>2, RemoteAppTypes, RoomStays
<1>5. CASE \E c \in 1..Len(wire) : NetworkResets(c)
  <2>1. PICK c \in 1..Len(wire) : NetworkResets(c)
    BY <1>5
  <2>2. /\ Reset(c) /\ resets' \in 0..MaxResets
        /\ UNCHANGED <<serverVars, process, app_queue, launches, orderly>>
    BY <1>0, <2>1, SessionBoundsAssumption DEF NetworkResets
  <2>3. wire' \in Seq(End) /\ Len(wire') = Len(wire)
    BY <1>0, <2>2, ResetPut DEF Put
  <2> QED
    BY <1>0, <2>2, <2>3, RoomStays
<1> QED
  BY <1>1, <1>5

\* Processes end or begin; their sockets are closed.
LEMMA ProcessGoneTypes ==
    ASSUME SessionTypes, ProcessGone \/ UNCHANGED <<app_queue, wire>>
    PROVE  wire' \in Seq(End) /\ Len(wire') = Len(wire) /\ app_queue' \in Seq(AnyFrame)
<1>1. wire \in Seq(End) /\ app_queue \in Seq(AnyFrame) /\ <<>> \in Seq(AnyFrame)
  BY DEF SessionTypes
<1>2. AppConnected => Current \in 1..Len(wire)
  BY <1>1, ConnectedCurrent
<1>3. wire' = wire \/ (AppConnected /\ AppCloses(Current))
  BY DEF ProcessGone
<1> QED
  BY <1>1, <1>2, <1>3, AppClosesPut DEF ProcessGone, Put

\* A commit keeps the types, whether its drain() suspends or not.
LEMMA CommitTypes ==
    ASSUME SessionTypes, call = "idle", NEW body \in Body, NEW then \in {"idle", "exiting"},
           CommitAtOnce(body, then) \/ CommitSuspends(body, then), OrderlyCommit
    PROVE  SessionTypes'
<1>0. /\ wire \in Seq(End) /\ Len(wire) \in Nat /\ Len(wire) <= MaxConnections
      /\ client \in 1..Len(wire) /\ session_tag \in Nat /\ net_id \in Nat
      /\ session_tag \in 0..MaxConnections
  BY DEF SessionTypes, SessionTypeOK, ServerTypeOK, CommitAtOnce, CommitSuspends, CommitNames,
         NoConnection
<1>1. wire' \in Seq(End) /\ Len(wire') = Len(wire)
  <2>1. PutOnWire(client, LineOf(session_tag, net_id, body)) \/ wire' = wire
    BY DEF CommitAtOnce, CommitSuspends
  <2> QED
    BY <1>0, <2>1, PutOnWirePut DEF Put
<1>2. <<session_tag, net_id>> \in Name
  BY <1>0 DEF Name
<1>3. /\ written' = Append(written, <<session_tag, net_id>>)
      /\ commits' \in {commits, Append(commits, <<session_tag, net_id>>)}
      /\ returned' \in {returned, Append(returned, <<session_tag, net_id>>)}
      /\ net_id' = net_id + 1
      /\ pending_count' \in {pending_count, pending_count + 1}
      /\ UNCHANGED <<session_tag, client, answer_queue, handler, harvest>>
  BY DEF CommitAtOnce, CommitSuspends, CommitNames, CommitReturns
<1>4. staged' \in Body /\ call' \in {"idle", "draining", "exiting"}
  BY DEF CommitAtOnce, CommitSuspends, CommitReturns, EmptyStage, Body
<1>5. /\ draining' \in [conn : 0..MaxConnections, tag : Nat, id : Nat, flushed : BOOLEAN,
                        then : {"idle", "exiting"}]
      /\ draining'.conn \in 0..Len(wire)
      /\ call' = "draining" => draining'.conn # NoConnection
  <2>1. CASE CommitAtOnce(body, then)
    BY <2>1 DEF CommitAtOnce, CommitReturns, SessionTypes, SessionTypeOK, ServerTypeOK
  <2>2. CASE CommitSuspends(body, then)
    <3>1. client \in 0..MaxConnections
      BY <1>0, MaxConnectionsAssumption
    <3> QED
      BY <1>0, <2>2, <3>1 DEF CommitSuspends, NoConnection
  <2> QED
    BY <2>1, <2>2
<1>6. Accepted' = Accepted
  BY <1>3 DEF Accepted
<1>7. written' \in Seq(Name) /\ commits' \in Seq(Name) /\ returned' \in Seq(Name)
  <2>1. written \in Seq(Name) /\ commits \in Seq(Name) /\ returned \in Seq(Name)
    BY DEF SessionTypes, SessionTypeOK, ServerTypeOK
  <2>2. \A names \in Seq(Name) : Append(names, <<session_tag, net_id>>) \in Seq(Name)
    BY <1>2
  <2> QED
    BY <1>3, <2>1, <2>2
<1>8. ServerTypeOK'
  <2>1. /\ session_tag' \in 0..MaxConnections /\ net_id' \in Nat /\ pending_count' \in Nat
        /\ client' \in 0..MaxConnections /\ answer_queue' \in Seq(QueueItem)
        /\ handler' \in [1..MaxConnections -> {"none", "reading", "closed"}]
        /\ harvest' \in Seq(QueueItem)
    BY <1>3 DEF SessionTypes, SessionTypeOK, ServerTypeOK
  <2> QED
    BY <1>4, <1>5, <1>7, <2>1 DEF ServerTypeOK
<1>9. SessionTypeOK'
  BY <1>8 DEF SessionTypes, SessionTypeOK, OrderlyCommit
<1> QED
  BY <1>0, <1>1, <1>3, <1>5, <1>6, <1>9 DEF SessionTypes, OrderlyCommit

\* The steps of the tools.
LEMMA ToolTypes ==
    ASSUME SessionTypes, Tools
    PROVE  SessionTypes'
<1>0. /\ wire \in Seq(End) /\ Len(wire) \in Nat /\ Len(wire) <= MaxConnections
      /\ staged \in Body
      /\ process \in {"none", "running", "exited"}
      /\ launches \in 0..MaxLaunches /\ resets \in 0..MaxResets /\ orderly \in BOOLEAN
  BY DEF SessionTypes, SessionTypeOK, ServerTypeOK
<1>1. ASSUME UNCHANGED <<session_tag, net_id, staged, pending_count, client, answer_queue,
                         handler, draining, commits, returned, written, harvest, resets>>,
             call' \in {"idle", "waiting", "launching"},
             launches' \in 0..MaxLaunches, process' \in {"none", "running", "exited"},
             orderly' \in BOOLEAN,
             ProcessGone \/ UNCHANGED <<app_queue, wire>>
      PROVE  SessionTypes'
  <2>1. wire' \in Seq(End) /\ Len(wire') = Len(wire) /\ app_queue' \in Seq(AnyFrame)
    BY <1>1, ProcessGoneTypes
  <2>2. ServerTypeOK' /\ Accepted' = Accepted
    BY <1>1 DEF SessionTypes, SessionTypeOK, ServerTypeOK, Accepted
  <2> QED
    BY <1>1, <2>1, <2>2 DEF SessionTypes, SessionTypeOK
<1>2. CASE LaunchBegins
  <2>1. launches' \in 0..MaxLaunches
    BY <1>0, <1>2, SessionBoundsAssumption DEF LaunchBegins
  <2> QED
    BY <1>0, <1>1, <1>2, <2>1 DEF LaunchBegins
<1>3. CASE LaunchSpawns
  BY <1>0, <1>1, <1>3 DEF LaunchSpawns, serverVars
<1>4. CASE LaunchFails \/ LaunchReturns
  BY <1>0, <1>1, <1>4 DEF LaunchFails, LaunchReturns, processVars
<1>5. CASE \/ \E type \in Commands : fcommand(type)
           \/ fcommand_discard_frame_set
           \/ ShutdownRefused
  <2>1. staged' \in Body
    BY <1>0, <1>5, SessionBoundsAssumption
       DEF fcommand, add_command, fcommand_discard_frame_set, discard_staged, ShutdownRefused,
           ShutdownStaged, EmptyStage, Body, CommandType
  <2>2. UNCHANGED <<session_tag, net_id, pending_count, client, answer_queue, handler,
                    call, draining, commits, returned, written, harvest, wire, processVars>>
    BY <1>5 DEF fcommand, add_command, fcommand_discard_frame_set, discard_staged,
                ShutdownRefused
  <2>3. ServerTypeOK' /\ Accepted' = Accepted
    BY <2>1, <2>2 DEF SessionTypes, SessionTypeOK, ServerTypeOK, Accepted
  <2> QED
    BY <2>2, <2>3 DEF SessionTypes, SessionTypeOK, processVars
<1>6. CASE fcommand_commit_set
  BY <1>0, <1>6, CommitTypes DEF fcommand_commit_set, MayCommit
<1>7. CASE blocking_wait_next_fcommand_response
  BY <1>0, <1>1, <1>7 DEF blocking_wait_next_fcommand_response
<1>8. CASE ShutdownCommits
  <2>1. ShutdownStaged \in Body
    BY <1>0 DEF ShutdownStaged, Body, CommandType
  <2> QED
    BY <1>8, <2>1, CommitTypes DEF ShutdownCommits
<1>9. CASE ShutdownReturns
  BY <1>0, <1>1, <1>9 DEF ShutdownReturns
<1> QED
  BY <1>2, <1>3, <1>4, <1>5, <1>6, <1>7, <1>8, <1>9 DEF Tools

LEMMA RecordsType ==
    ASSUME NEW answers \in Seq(Answer)
    PROVE  Records(answers) \in Seq(QueueItem)
<1>1. \A answer \in Answer : Record(answer) \in QueueItem
  BY DEF Answer, Record, QueueItem
<1>2. \A i \in 1..Len(answers) : Record(answers[i]) \in QueueItem
  BY <1>1, ElementOfSeq
<1> QED
  BY <1>2 DEF Records

\* The steps of the server's coroutines.
LEMMA CoroutineTypes ==
    ASSUME SessionTypes, ServerCoroutine, UNCHANGED processVars
    PROVE  SessionTypes'
<1>0. /\ wire \in Seq(End) /\ Len(wire) \in Nat /\ Len(wire) <= MaxConnections
      /\ client \in 0..Len(wire) /\ draining.conn \in 0..Len(wire)
      /\ answer_queue \in Seq(QueueItem) /\ harvest \in Seq(QueueItem)
      /\ handler \in [1..MaxConnections -> {"none", "reading", "closed"}]
      /\ NoRecord \in QueueItem
  BY DEF SessionTypes, SessionTypeOK, ServerTypeOK, NoRecord, QueueItem
<1>1. ASSUME wire' \in Seq(End), Len(wire') = Len(wire), ServerTypeOK',
             client' \in 0..Len(wire), draining'.conn \in 0..Len(wire),
             call' = "draining" => draining'.conn # NoConnection,
             \A c \in 1..MaxConnections : handler'[c] # "none" => c <= Len(wire),
             session_tag' = Cardinality(Accepted')
      PROVE  SessionTypes'
  BY <1>0, <1>1 DEF SessionTypes, SessionTypeOK, processVars
<1>2. CASE BufferFlushes
  <2>1. draining.conn \in 1..Len(wire)
    BY <1>0, <1>2 DEF BufferFlushes, SessionTypes, NoConnection
  <2>2. draining.tag \in Nat /\ draining.id \in Nat /\ staged \in Body
    BY DEF SessionTypes, SessionTypeOK, ServerTypeOK
  <2>3. wire' \in Seq(End) /\ Len(wire') = Len(wire)
    BY <1>0, <1>2, <2>1, <2>2, PutOnWirePut DEF BufferFlushes, Put
  <2>4. ServerTypeOK' /\ Accepted' = Accepted /\ draining'.conn = draining.conn
    BY <1>2 DEF BufferFlushes, SessionTypes, SessionTypeOK, ServerTypeOK, Accepted
  <2> QED
    BY <1>0, <1>1, <1>2, <2>1, <2>3, <2>4 DEF BufferFlushes, SessionTypes, NoConnection
<1>3. CASE CommitResumes
  <2>1. <<draining.tag, draining.id>> \in Name
    BY DEF SessionTypes, SessionTypeOK, ServerTypeOK, Name
  <2>2. commits' \in Seq(Name) /\ returned' \in Seq(Name)
    <3>1. commits \in Seq(Name) /\ returned \in Seq(Name)
      BY DEF SessionTypes, SessionTypeOK, ServerTypeOK
    <3>2. \A names \in Seq(Name) : Append(names, <<draining.tag, draining.id>>) \in Seq(Name)
      BY <2>1
    <3> QED
      BY <1>3, <3>1, <3>2 DEF CommitResumes, CommitReturns
  <2>3. /\ staged' \in Body /\ pending_count' \in Nat /\ call' \in {"idle", "exiting"}
        /\ draining' = NoDrain
        /\ UNCHANGED <<session_tag, net_id, client, answer_queue, handler, written, harvest, wire>>
    BY <1>3 DEF CommitResumes, CommitReturns, SessionTypes, SessionTypeOK, ServerTypeOK,
                EmptyStage, Body
  <2>4. draining' \in [conn : 0..MaxConnections, tag : Nat, id : Nat, flushed : BOOLEAN,
                       then : {"idle", "exiting"}]
    BY <2>3, MaxConnectionsAssumption DEF NoDrain, NoConnection
  <2>5. ServerTypeOK' /\ Accepted' = Accepted
    BY <2>2, <2>3, <2>4 DEF SessionTypes, SessionTypeOK, ServerTypeOK, Accepted
  <2> QED
    BY <1>0, <1>1, <2>3, <2>5 DEF SessionTypes, NoDrain, NoConnection
<1>4. CASE CommitRaises
  <2>1. draining' \in [conn : 0..MaxConnections, tag : Nat, id : Nat, flushed : BOOLEAN,
                       then : {"idle", "exiting"}]
    BY <1>4, MaxConnectionsAssumption DEF CommitRaises, NoDrain, NoConnection
  <2>2. ServerTypeOK' /\ Accepted' = Accepted
    BY <1>4, <2>1 DEF CommitRaises, SessionTypes, SessionTypeOK, ServerTypeOK, Accepted
  <2> QED
    BY <1>0, <1>1, <1>4, <2>2 DEF CommitRaises, SessionTypes, NoDrain, NoConnection
<1>5. CASE ReceiveItem \/ ReceiveTimesOut
  <2>1. harvest' \in Seq(QueueItem) /\ answer_queue' \in Seq(QueueItem)
    <3>1. CASE ReceiveItem
      <4>1. Head(answer_queue) \in QueueItem /\ Tail(answer_queue) \in Seq(QueueItem)
        BY <1>0, <3>1 DEF ReceiveItem
      <4> QED
        BY <1>0, <3>1, <4>1 DEF ReceiveItem
    <3>2. CASE ReceiveTimesOut
      BY <1>0, <3>2 DEF ReceiveTimesOut
    <3> QED
      BY <1>5, <3>1, <3>2
  <2>2. pending_count' \in Nat
    BY <1>5 DEF ReceiveItem, ReceiveTimesOut, SessionTypes, SessionTypeOK, ServerTypeOK
  <2>3. /\ call' = "idle"
        /\ UNCHANGED <<session_tag, net_id, staged, client, handler, draining, commits,
                       returned, written, wire>>
    BY <1>5 DEF ReceiveItem, ReceiveTimesOut
  <2>4. ServerTypeOK' /\ Accepted' = Accepted
    BY <2>1, <2>2, <2>3 DEF SessionTypes, SessionTypeOK, ServerTypeOK, Accepted
  <2> QED
    BY <1>0, <1>1, <2>3, <2>4 DEF SessionTypes
<1>6. ASSUME NEW c \in 1..Len(wire), _on_client_connect(c)
      PROVE  SessionTypes'
  <2>1. c \in 1..MaxConnections
    BY <1>0, MaxConnectionsAssumption
  <2>2. session_tag' = Cardinality(Accepted') /\ session_tag' \in 0..MaxConnections
    BY <1>0, <1>6, <2>1, AcceptedGrows DEF _on_client_connect, SessionTypes
  <2>3. ServerTypeOK'
    BY <1>6, <2>1, <2>2 DEF _on_client_connect, SessionTypes, SessionTypeOK, ServerTypeOK
  <2>4. \A d \in 1..MaxConnections : handler'[d] # "none" => d <= Len(wire)
    BY <1>0, <1>6, <2>1 DEF _on_client_connect, SessionTypes
  <2> QED
    BY <1>0, <1>1, <1>6, <2>2, <2>3, <2>4 DEF _on_client_connect, SessionTypes
<1>7. ASSUME NEW c \in 1..Len(wire), HandlerReadsLine(c)
      PROVE  SessionTypes'
  <2>1. wire[c].to_server \in Seq(Answer) /\ wire[c].to_server # <<>>
    BY <1>0, <1>7, EndFields DEF HandlerReadsLine
  <2>2. Head(wire[c].to_server) \in Answer /\ Tail(wire[c].to_server) \in Seq(Answer)
    BY <2>1
  <2>3. answer_queue' \in Seq(QueueItem)
    <3>1. Record(Head(wire[c].to_server)) \in QueueItem
      BY <2>2 DEF Answer, Record, QueueItem
    <3> QED
      BY <1>0, <1>7, <3>1 DEF HandlerReadsLine
  <2>4. wire' = [wire EXCEPT ![c].to_server = Tail(wire[c].to_server)]
    BY <1>7 DEF HandlerReadsLine
  <2>5. wire' \in Seq(End) /\ Len(wire') = Len(wire)
    BY <1>0, <2>2, <2>4, ToServerPut DEF Put
  <2>6. UNCHANGED <<session_tag, net_id, staged, pending_count, client, handler, call,
                   draining, commits, returned, written, harvest>>
    BY <1>7 DEF HandlerReadsLine
  <2>7. ServerTypeOK' /\ Accepted' = Accepted
    BY <2>3, <2>6 DEF SessionTypes, SessionTypeOK, ServerTypeOK, Accepted
  <2> QED
    BY <1>0, <1>1, <2>5, <2>6, <2>7 DEF SessionTypes
<1>8. ASSUME NEW c \in 1..Len(wire), HandlerOrphaned(c) \/ HandlerEnds(c)
      PROVE  SessionTypes'
  <2>1. c \in 1..MaxConnections
    BY <1>0, MaxConnectionsAssumption
  <2>2. wire' \in Seq(End) /\ Len(wire') = Len(wire)
    BY <1>0, <1>8, OrphanedPut, ServerClosesPut DEF HandlerEnds, Put
  <2>3. answer_queue' \in Seq(QueueItem)
    <3>1. \A items \in Seq(QueueItem) : answer_queue \o items \o <<NoRecord>> \in Seq(QueueItem)
      BY <1>0
    <3>2. \A k \in 1..Len(wire[c].to_server) :
             Records(SubSeq(wire[c].to_server, 1, k)) \in Seq(QueueItem)
      <4>1. wire[c].to_server \in Seq(Answer)
        BY <1>0, EndFields
      <4>2. \A k \in 1..Len(wire[c].to_server) : SubSeq(wire[c].to_server, 1, k) \in Seq(Answer)
        BY <4>1
      <4> QED
        BY <4>2, RecordsType
    <3>3. <<>> \in Seq(QueueItem)
      OBVIOUS
    <3> QED
      BY <1>8, <3>1, <3>2, <3>3 DEF HandlerOrphaned, HandlerEnds, HandlerCloses
  <2>4. /\ UNCHANGED <<session_tag, net_id, staged, pending_count, call, draining, commits,
                       returned, written, harvest>>
        /\ client' = NoConnection
        /\ handler[c] = "reading" /\ handler' = [handler EXCEPT ![c] = "closed"]
    BY <1>8 DEF HandlerOrphaned, HandlerEnds, HandlerCloses
  <2>5. Accepted' = Accepted
    BY <1>0, <2>1, <2>4, AcceptedStays
  <2>6. ServerTypeOK'
    BY <2>1, <2>3, <2>4, MaxConnectionsAssumption
       DEF SessionTypes, SessionTypeOK, ServerTypeOK, NoConnection
  <2>7. \A d \in 1..MaxConnections : handler'[d] # "none" => d <= Len(wire)
    BY <1>0, <2>1, <2>4 DEF SessionTypes
  <2> QED
    BY <1>0, <1>1, <2>2, <2>4, <2>5, <2>6, <2>7 DEF SessionTypes, NoConnection
<1> QED
  BY <1>2, <1>3, <1>4, <1>5, <1>6, <1>7, <1>8 DEF ServerCoroutine

LEMMA SessionTypesStep ==
    ASSUME SessionTypes, [SessionNext]_sessionVars
    PROVE  SessionTypes'
<1>1. CASE UNCHANGED sessionVars
  BY <1>1 DEF sessionVars, serverVars, processVars, SessionTypes, SessionTypeOK,
              ServerTypeOK, Accepted
<1> QED
  BY <1>1, ToolTypes, CoroutineTypes, ApplicationTypes DEF SessionNext, SessionRests

\* For any number of commits, launches and lost connections: pending_count never
\* goes below zero, no session is opened twice, and no await is entered that
\* nothing leads out of.
THEOREM SessionTypeCorrect == SessionSpec => []SessionTypeOK
<1>1. SessionTypes => SessionTypeOK
  BY DEF SessionTypes
<1> QED
  BY SessionTypesInit, SessionTypesStep, <1>1, PTL DEF SessionSpec

-----------------------------------------------------------------------------
(* Names.                                                                  *)

\* Names taken so far are behind the one the next commit takes.
NamesInv ==
    /\ \A i \in 1..Len(written) :
         \/ written[i][1] < session_tag
         \/ written[i][1] = session_tag /\ written[i][2] < net_id
    /\ NamesUnique

Commits == 
    \E body \in Body, then \in {"idle", "exiting"} :
        /\ call = "idle"
        /\ CommitAtOnce(body, then) \/ CommitSuspends(body, then)
        /\ OrderlyCommit

\* The steps that write no frame.
Unwritten ==
    \/ LaunchBegins \/ LaunchSpawns \/ LaunchFails \/ LaunchReturns
    \/ \E type \in Commands : fcommand(type)
    \/ fcommand_discard_frame_set
    \/ blocking_wait_next_fcommand_response
    \/ ShutdownRefused
    \/ ShutdownReturns
    \/ ServerCoroutine /\ UNCHANGED processVars
    \/ Application
    \/ \E c \in 1..Len(wire) : NetworkResets(c)
    \/ UNCHANGED sessionVars

LEMMA CommitsOrNot ==
    ASSUME SessionTypes, [SessionNext]_sessionVars
    PROVE  Commits \/ Unwritten
<1>1. staged \in Body /\ ShutdownStaged \in Body
  BY DEF SessionTypes, SessionTypeOK, ServerTypeOK, ShutdownStaged, Body, CommandType
<1>2. fcommand_commit_set \/ ShutdownCommits => Commits
  BY <1>1 DEF fcommand_commit_set, MayCommit, ShutdownCommits, Commits
<1> QED
  BY <1>2 DEF SessionNext, Tools, SessionRests, Unwritten

LEMMA UnwrittenNames ==
    ASSUME Unwritten
    PROVE  /\ written' = written
           /\ \/ UNCHANGED <<session_tag, net_id>>
              \/ session_tag' = session_tag + 1 /\ net_id' = 0
<1>1. CASE ServerCoroutine
  BY <1>1 DEF ServerCoroutine, BufferFlushes, CommitResumes, CommitRaises, ReceiveItem,
              ReceiveTimesOut, _on_client_connect, HandlerReadsLine, HandlerOrphaned, HandlerEnds
<1>2. CASE Application \/ \E c \in 1..Len(wire) : NetworkResets(c)
  BY <1>2 DEF Application, NetworkResets, serverVars
<1>3. CASE ~ServerCoroutine /\ ~Application /\ ~(\E c \in 1..Len(wire) : NetworkResets(c))
  BY <1>3 DEF Unwritten, LaunchBegins, LaunchSpawns, LaunchFails, LaunchReturns, fcommand,
              add_command, fcommand_discard_frame_set, discard_staged,
              blocking_wait_next_fcommand_response, ShutdownRefused, ShutdownReturns,
              sessionVars, serverVars
<1> QED
  BY <1>1, <1>2, <1>3

LEMMA NamesStep ==
    ASSUME SessionTypes, NamesInv, [SessionNext]_sessionVars
    PROVE  NamesInv'
<1>0. /\ session_tag \in Nat /\ net_id \in Nat /\ written \in Seq(Name) /\ Len(written) \in Nat
      /\ \A i \in 1..Len(written) : written[i][1] \in Nat /\ written[i][2] \in Nat
  <2>1. session_tag \in Nat /\ net_id \in Nat /\ written \in Seq(Name) /\ Len(written) \in Nat
    BY DEF SessionTypes, SessionTypeOK, ServerTypeOK
  <2>2. \A i \in 1..Len(written) : written[i] \in Name
    BY <2>1
  <2> QED
    BY <2>1, <2>2 DEF Name
<1>1. CASE Unwritten
  <2>1. /\ written' = written
        /\ \/ UNCHANGED <<session_tag, net_id>>
           \/ session_tag' = session_tag + 1 /\ net_id' = 0
    BY <1>1, UnwrittenNames
  <2>2. NamesUnique'
    BY <2>1 DEF NamesInv, NamesUnique
  <2>3. \A i \in 1..Len(written') :
          \/ written'[i][1] < session_tag'
          \/ written'[i][1] = session_tag' /\ written'[i][2] < net_id'
    BY <1>0, <2>1 DEF NamesInv
  <2> QED
    BY <2>2, <2>3 DEF NamesInv
<1>2. CASE Commits
  <2>1. /\ written' = Append(written, <<session_tag, net_id>>)
        /\ session_tag' = session_tag /\ net_id' = net_id + 1
    BY <1>2 DEF Commits, CommitAtOnce, CommitSuspends, CommitNames
  <2>2. /\ Len(written') = Len(written) + 1
        /\ \A i \in 1..Len(written) : written'[i] = written[i]
        /\ written'[Len(written) + 1] = <<session_tag, net_id>>
    BY <1>0, <2>1
  <2>3. \A i \in 1..Len(written') : i \in 1..Len(written) \/ i = Len(written) + 1
    BY <1>0, <2>2
  <2>4. \A i \in 1..Len(written) : written[i] # <<session_tag, net_id>>
    <3> SUFFICES ASSUME NEW i \in 1..Len(written), written[i] = <<session_tag, net_id>>
                 PROVE  FALSE
      OBVIOUS
    <3>1. written[i][1] = session_tag /\ written[i][2] = net_id
      OBVIOUS
    <3> QED
      BY <1>0, <3>1 DEF NamesInv
  <2>5. NamesUnique'
    BY <2>2, <2>3, <2>4 DEF NamesInv, NamesUnique
  <2>6. \A i \in 1..Len(written') :
          \/ written'[i][1] < session_tag'
          \/ written'[i][1] = session_tag' /\ written'[i][2] < net_id'
    <3> SUFFICES ASSUME NEW i \in 1..Len(written')
                 PROVE  \/ written'[i][1] < session_tag'
                        \/ written'[i][1] = session_tag' /\ written'[i][2] < net_id'
      OBVIOUS
    <3>1. CASE i \in 1..Len(written)
      BY <1>0, <2>1, <2>2, <3>1 DEF NamesInv
    <3>2. CASE i = Len(written) + 1
      <4>1. written'[i][1] = session_tag /\ written'[i][2] = net_id
        BY <2>2, <3>2
      <4> QED
        BY <1>0, <2>1, <4>1
    <3> QED
      BY <2>3, <3>1, <3>2
  <2> QED
    BY <2>5, <2>6 DEF NamesInv
<1> QED
  BY <1>1, <1>2, CommitsOrNot

LEMMA NamesInit == SessionInit => NamesInv
BY DEF SessionInit, ServerInit, NamesInv, NamesUnique

\* A name is taken before the await, and a new connection has a new tag: for any
\* number of commits and reconnects no two frames share a name.
THEOREM NamesAreUnique == SessionSpec => []NamesUnique
<1>1. NamesInv => NamesUnique
  BY DEF NamesInv
<1> QED
  BY SessionTypesInit, SessionTypesStep, NamesInit, NamesStep, <1>1, PTL DEF SessionSpec

-----------------------------------------------------------------------------
(* Connections.                                                            *)

\* The server closes its end with its handler; a connection that is reset
\* carries nothing; and the application opens a new one only when the last is
\* lost to both: no answer is left on an old connection.
WireInv ==
    /\ \A c \in 1..Len(wire) : wire[c].server = "closed" <=> handler[c] = "closed"
    /\ \A c \in 1..Len(wire) : wire[c].reset => wire[c].to_server = <<>>
    /\ \A c \in 1..Len(wire) : c < Len(wire) => wire[c].reset \/ wire[c].server = "closed"
    /\ process = "running" /\ Len(wire) > 0 =>
         wire[Current].app = "open" \/ wire[Current].reset \/ wire[Current].server = "closed"

LEMMA WireInvInit == SessionInit => WireInv
BY DEF SessionInit, WireInit, WireInv, ServerInit

LEMMA WireRests ==
    ASSUME WireInv, wire' = wire, handler' = handler, process' \in {process, "none", "exited"}
    PROVE  WireInv'
BY DEF WireInv, Current

\* A commit's line, if it goes anywhere, is no answer.
LEMMA LineSent ==
    ASSUME SessionTypes, WireInv, NEW c \in 1..Len(wire), NEW tag \in Nat, NEW id \in Nat,
           NEW body \in Body, PutOnWire(c, LineOf(tag, id, body)),
           UNCHANGED <<handler, process>>
    PROVE  WireInv'
<1>0. wire \in Seq(End)
  BY DEF SessionTypes
<1>1. CASE wire' = wire
  BY <1>1, WireRests
<1>2. CASE wire' # wire
  <2>1. Put(c, Append(wire[c].to_app, LineOf(tag, id, body)), wire[c].to_server,
            wire[c].app, wire[c].server, wire[c].reset)
    BY <1>0, <1>2, PutOnWirePut
  <2> QED
    BY <2>1 DEF Put, WireInv, Current
<1> QED
  BY <1>1, <1>2

LEMMA ProcessGoneWire ==
    ASSUME SessionTypes, WireInv, handler' = handler,
           ProcessGone \/ UNCHANGED <<app_queue, wire>>, process' \in {"none", "exited"}
    PROVE  WireInv'
<1>0. wire \in Seq(End)
  BY DEF SessionTypes
<1>1. CASE wire' = wire
  BY <1>1, WireRests
<1>2. CASE wire' # wire
  <2>1. AppConnected /\ AppCloses(Current)
    BY <1>2 DEF ProcessGone
  <2>2. Current \in 1..Len(wire)
    BY <1>0, <2>1, ConnectedCurrent
  <2>3. Put(Current, wire[Current].to_app, wire[Current].to_server, "closed",
            wire[Current].server, wire[Current].reset)
    BY <1>0, <2>1, <2>2, AppClosesPut
  <2> QED
    BY <2>2, <2>3 DEF Put, WireInv
<1> QED
  BY <1>1, <1>2

LEMMA ToolWire ==
    ASSUME SessionTypes, WireInv, Tools
    PROVE  WireInv'
<1>0. /\ wire \in Seq(End) /\ Len(wire) \in Nat /\ session_tag \in Nat /\ net_id \in Nat
      /\ staged \in Body /\ client \in 0..Len(wire)
  BY DEF SessionTypes, SessionTypeOK, ServerTypeOK
<1>1. CASE LaunchBegins \/ ShutdownReturns
  BY <1>1, ProcessGoneWire DEF LaunchBegins, ShutdownReturns
<1>2. CASE LaunchSpawns
  <2>1. UNCHANGED <<wire, handler>>
    BY <1>2 DEF LaunchSpawns, serverVars
  <2>2. Len(wire) > 0 => handler[Current] = "closed"
    BY <1>0, <1>2 DEF LaunchSpawns, OldConnectionsHandled, Current
  <2>3. Len(wire) > 0 => wire[Current].server = "closed"
    BY <1>0, <2>2 DEF WireInv, Current
  <2> QED
    BY <2>1, <2>3 DEF WireInv, Current
<1>3. CASE \/ LaunchFails \/ LaunchReturns
           \/ \E type \in Commands : fcommand(type)
           \/ fcommand_discard_frame_set
           \/ blocking_wait_next_fcommand_response
           \/ ShutdownRefused
  BY <1>3, WireRests
     DEF LaunchFails, LaunchReturns, fcommand, add_command, fcommand_discard_frame_set,
         discard_staged, blocking_wait_next_fcommand_response, ShutdownRefused, processVars
<1>4. ASSUME NEW body \in Body, NEW then \in {"idle", "exiting"},
             CommitAtOnce(body, then) \/ CommitSuspends(body, then), OrderlyCommit
      PROVE  WireInv'
  <2>1. client \in 1..Len(wire) /\ UNCHANGED <<handler, process>>
    BY <1>0, <1>4 DEF CommitAtOnce, CommitSuspends, CommitNames, NoConnection, OrderlyCommit
  <2>2. CASE wire' = wire
    BY <2>1, <2>2, WireRests
  <2>3. CASE wire' # wire
    BY <1>0, <1>4, <2>1, <2>3, LineSent DEF CommitAtOnce, CommitSuspends
  <2> QED
    BY <2>2, <2>3
<1>5. CASE fcommand_commit_set
  BY <1>0, <1>4, <1>5 DEF fcommand_commit_set, MayCommit
<1>6. CASE ShutdownCommits
  <2>1. ShutdownStaged \in Body
    BY <1>0 DEF ShutdownStaged, Body, CommandType
  <2> QED
    BY <1>4, <1>6, <2>1 DEF ShutdownCommits
<1> QED
  BY <1>1, <1>2, <1>3, <1>5, <1>6 DEF Tools

LEMMA CoroutineWire ==
    ASSUME SessionTypes, WireInv, ServerCoroutine, UNCHANGED processVars
    PROVE  WireInv'
<1>0. /\ wire \in Seq(End) /\ Len(wire) \in Nat /\ Len(wire) <= MaxConnections
      /\ handler \in [1..MaxConnections -> {"none", "reading", "closed"}]
      /\ \A c \in 1..Len(wire) : c \in 1..MaxConnections
      /\ process' = process
  BY MaxConnectionsAssumption DEF SessionTypes, SessionTypeOK, ServerTypeOK, processVars
<1>1. CASE BufferFlushes
  <2>1. /\ draining.conn \in 1..Len(wire) /\ draining.tag \in Nat /\ draining.id \in Nat
        /\ staged \in Body
    BY <1>1 DEF BufferFlushes, SessionTypes, SessionTypeOK, ServerTypeOK, NoConnection
  <2> QED
    BY <1>0, <1>1, <2>1, LineSent DEF BufferFlushes
<1>2. CASE CommitResumes \/ CommitRaises \/ ReceiveItem \/ ReceiveTimesOut
  BY <1>0, <1>2, WireRests DEF CommitResumes, CommitRaises, ReceiveItem, ReceiveTimesOut
<1>3. ASSUME NEW c \in 1..Len(wire), _on_client_connect(c)
      PROVE  WireInv'
  BY <1>0, <1>3 DEF _on_client_connect, WireInv, Current
<1>4. ASSUME NEW c \in 1..Len(wire), HandlerReadsLine(c)
      PROVE  WireInv'
  <2>1. wire[c].to_server \in Seq(Answer) /\ wire[c].to_server # <<>> /\ handler' = handler
    BY <1>0, <1>4, EndFields DEF HandlerReadsLine
  <2>2. wire' = [wire EXCEPT ![c].to_server = Tail(wire[c].to_server)]
    BY <1>4 DEF HandlerReadsLine
  <2>3. Put(c, wire[c].to_app, Tail(wire[c].to_server), wire[c].app, wire[c].server,
            wire[c].reset)
    <3>1. Tail(wire[c].to_server) \in Seq(Answer)
      BY <2>1
    <3> QED
      BY <1>0, <2>2, <3>1, ToServerPut
  <2> QED
    BY <1>0, <2>1, <2>3 DEF Put, WireInv, Current
<1>5. ASSUME NEW c \in 1..Len(wire), HandlerOrphaned(c)
      PROVE  WireInv'
  <2>1. Put(c, wire[c].to_app, <<>>, wire[c].app, "closed", wire[c].reset)
    BY <1>0, <1>5, OrphanedPut
  <2>2. handler' = [handler EXCEPT ![c] = "closed"]
    BY <1>5 DEF HandlerOrphaned
  <2> QED
    BY <1>0, <2>1, <2>2 DEF Put, WireInv, Current
<1>6. ASSUME NEW c \in 1..Len(wire), HandlerEnds(c)
      PROVE  WireInv'
  <2>1. Put(c, wire[c].to_app, wire[c].to_server, wire[c].app, "closed", wire[c].reset)
    BY <1>0, <1>6, ServerClosesPut DEF HandlerEnds
  <2>2. handler' = [handler EXCEPT ![c] = "closed"]
    BY <1>6 DEF HandlerEnds
  <2> QED
    BY <1>0, <2>1, <2>2 DEF Put, WireInv, Current
<1> QED
  BY <1>1, <1>2, <1>3, <1>4, <1>5, <1>6 DEF ServerCoroutine

\* A new connection: the last one is lost to both ends by then.
LEMMA OpenedWire ==
    ASSUME SessionTypes, WireInv, handler' = handler, NEW app_end \in {"open", "closed"},
           Open(app_end), process' \in {"running", "exited"},
           process' = "running" => app_end = "open",
           Len(wire) > 0 => wire[Len(wire)].reset \/ wire[Len(wire)].server = "closed"
    PROVE  WireInv'
<1>0. wire \in Seq(End) /\ Len(wire) \in Nat /\ Len(wire) <= MaxConnections
  BY DEF SessionTypes
<1>1. /\ Len(wire') = Len(wire) + 1 /\ Len(wire) < MaxConnections
      /\ \A i \in 1..Len(wire) : wire'[i] = wire[i]
      /\ wire'[Len(wire')] = [to_app |-> <<>>, to_server |-> <<>>, app |-> app_end,
                              server |-> "open", reset |-> FALSE]
  BY <1>0, Opened
<1>2. handler[Len(wire')] = "none"
  <2>1. Len(wire') \in 1..MaxConnections /\ ~(Len(wire') <= Len(wire))
    BY <1>0, <1>1, MaxConnectionsAssumption
  <2> QED
    BY <2>1 DEF SessionTypes
<1>3. \A c \in 1..Len(wire') : c \in 1..Len(wire) \/ c = Len(wire')
  BY <1>0, <1>1
<1>4. \A c \in 1..Len(wire') : wire'[c].server = "closed" <=> handler'[c] = "closed"
  BY <1>1, <1>2, <1>3 DEF WireInv
<1>5. \A c \in 1..Len(wire') : wire'[c].reset => wire'[c].to_server = <<>>
  BY <1>1, <1>3 DEF WireInv
<1>6. \A c \in 1..Len(wire') : c < Len(wire') => wire'[c].reset \/ wire'[c].server = "closed"
  BY <1>0, <1>1, <1>3 DEF WireInv
<1> QED
  BY <1>1, <1>4, <1>5, <1>6 DEF WireInv, Current

LEMMA ApplicationWire ==
    ASSUME SessionTypes, WireInv, Application \/ \E c \in 1..Len(wire) : NetworkResets(c)
    PROVE  WireInv'
<1>0. /\ wire \in Seq(End) /\ Len(wire) \in Nat /\ Len(wire) <= MaxConnections
      /\ app_queue \in Seq(AnyFrame)
  BY DEF SessionTypes
<1>1. handler' = handler
  BY DEF Application, NetworkResets, serverVars
<1>2. CASE AppConnects
  <2>1. Open("open") /\ process' = "running"
    BY <1>2 DEF AppConnects
  <2>2. Len(wire) > 0 => wire[Len(wire)].reset \/ wire[Len(wire)].server = "closed"
    BY <1>0, <1>2 DEF AppConnects, AppConnected, WireInv, Current
  <2> QED
    BY <1>1, <2>1, <2>2, OpenedWire
<1>3. CASE ExitedConnects
  <2>1. Open("closed") /\ process' = "exited"
    BY <1>3 DEF ExitedConnects
  <2>2. Len(wire) > 0 => wire[Len(wire)].reset \/ wire[Len(wire)].server = "closed"
    BY <1>3 DEF ExitedConnects, ConnectionLost, Current
  <2> QED
    BY <1>1, <2>1, <2>2, OpenedWire
<1>4. CASE AppReads \/ ExitedReads
  <2>1. Current \in 1..Len(wire) /\ wire[Current].to_app # <<>>
    BY <1>0, <1>4, ConnectedCurrent DEF AppReads, ExitedReads, Current
  <2>2. Tail(wire[Current].to_app) \in Seq(Sending)
    BY <1>0, <2>1, EndFields
  <2>3. wire' = [wire EXCEPT ![Current].to_app = Tail(wire[Current].to_app)]
    BY <1>4 DEF AppReads, ExitedReads
  <2>4. Put(Current, Tail(wire[Current].to_app), wire[Current].to_server, wire[Current].app,
            wire[Current].server, wire[Current].reset)
    BY <1>0, <2>1, <2>2, <2>3, ToAppPut
  <2>5. process' = process
    BY <1>4 DEF AppReads, ExitedReads
  <2> QED
    BY <1>0, <1>1, <2>1, <2>4, <2>5 DEF Put, WireInv, Current
<1>5. CASE AppAnswers
  <2>1. Current \in 1..Len(wire) /\ wire[Current].app = "open" /\ app_queue # <<>>
    BY <1>0, <1>5, ConnectedCurrent DEF AppAnswers
  <2>2. PICK answer \in AnswersTo(Head(app_queue)) :
          wire' = [wire EXCEPT ![Current].to_server = Append(wire[Current].to_server, answer)]
    BY <1>5 DEF AppAnswers
  <2>3. Append(wire[Current].to_server, answer) \in Seq(Answer)
    BY <1>0, <2>1, EndFields, AnswerType
  <2>4. Put(Current, wire[Current].to_app, Append(wire[Current].to_server, answer),
            wire[Current].app, wire[Current].server, wire[Current].reset)
    BY <1>0, <2>1, <2>2, <2>3, ToServerPut
  <2>5. ~wire[Current].reset /\ process' = process
    BY <1>5 DEF AppAnswers
  <2> QED
    BY <1>0, <1>1, <2>1, <2>4, <2>5 DEF Put, WireInv, Current
<1>6. CASE AppLoses
  BY <1>1, <1>6, WireRests DEF AppLoses
<1>7. CASE AppExits
  BY <1>1, <1>7, ProcessGoneWire DEF AppExits
<1>8. CASE AppDisconnects
  <2>1. /\ Current \in 1..Len(wire) /\ AppCloses(Current) /\ process' = process
        /\ wire[Current].reset \/ wire[Current].server = "closed"
    BY <1>0, <1>8, ConnectedCurrent DEF AppDisconnects, ConnectionLost
  <2>2. Put(Current, wire[Current].to_app, wire[Current].to_server, "closed",
            wire[Current].server, wire[Current].reset)
    BY <1>0, <2>1, AppClosesPut
  <2> QED
    BY <1>0, <1>1, <2>1, <2>2 DEF Put, WireInv, Current
<1>9. CASE \E c \in 1..Len(wire) : NetworkResets(c)
  <2>1. PICK c \in 1..Len(wire) : NetworkResets(c)
    BY <1>9
  <2>2. Put(c, <<>>, <<>>, wire[c].app, wire[c].server, TRUE)
    BY <1>0, <2>1, ResetPut DEF NetworkResets
  <2>3. process' = process
    BY <2>1 DEF NetworkResets
  <2> QED
    BY <1>0, <1>1, <2>2, <2>3 DEF Put, WireInv, Current
<1> QED
  BY <1>2, <1>3, <1>4, <1>5, <1>6, <1>7, <1>8, <1>9 DEF Application, RemoteAppStep

LEMMA WireInvStep ==
    ASSUME SessionTypes, WireInv, [SessionNext]_sessionVars
    PROVE  WireInv'
<1>1. CASE UNCHANGED sessionVars
  BY <1>1, WireRests DEF sessionVars, serverVars, processVars
<1> QED
  BY <1>1, ToolWire, CoroutineWire, ApplicationWire DEF SessionNext, SessionRests

-----------------------------------------------------------------------------
(* Where names travel: harvested, queued, on the wire to the server, held by  *)
(* the application, on the wire to it, and waiting in the write buffer.       *)

Frames(lines) == [i \in 1..Len(lines) |-> lines[i].frame]

Sent == IF wire = <<>> THEN <<>>
        ELSE IF handler[Current] = "closed" THEN <<>> ELSE Records(wire[Current].to_server)
Held == Records(app_queue)
Coming == IF wire = <<>> THEN <<>> ELSE Records(Frames(wire[Current].to_app))
Leaving == IF call = "draining" /\ ~draining.flushed THEN <<Record(draining)>> ELSE <<>>

Six(a, b, c, d, e, f) ==
    [p \in 1..6 |-> IF p = 1 THEN a ELSE IF p = 2 THEN b ELSE IF p = 3 THEN c
                    ELSE IF p = 4 THEN d ELSE IF p = 5 THEN e ELSE f]

Flow == Six(harvest, answer_queue, Sent, Held, Coming, Leaving)

FlowTyped ==
    /\ Flow \in Parts
    /\ Flow[1] = harvest /\ Flow[2] = answer_queue /\ Flow[3] = Sent
    /\ Flow[4] = Held /\ Flow[5] = Coming /\ Flow[6] = Leaving

\* The records of a list of frames or answers.
LEMMA RecordsOf ==
    ASSUME NEW S, NEW s \in Seq(S), \A x \in S : Record(x) \in QueueItem
    PROVE  /\ Records(s) \in Seq(QueueItem)
           /\ Len(Records(s)) = Len(s)
           /\ \A i \in 1..Len(s) : Records(s)[i] = Record(s[i])
           /\ s # <<>> => /\ Records(s) # <<>>
                          /\ Head(Records(s)) = Record(Head(s))
                          /\ Tail(Records(s)) = Records(Tail(s))
           /\ \A x \in S : Records(Append(s, x)) = Append(Records(s), Record(x))
<1>0. \A t \in Seq(S) : /\ Records(t) \in Seq(QueueItem)
                        /\ Len(Records(t)) = Len(t)
                        /\ \A i \in 1..Len(t) : Records(t)[i] = Record(t[i])
  <2> SUFFICES ASSUME NEW t \in Seq(S)
               PROVE  /\ Records(t) \in Seq(QueueItem)
                      /\ Len(Records(t)) = Len(t)
                      /\ \A i \in 1..Len(t) : Records(t)[i] = Record(t[i])
    OBVIOUS
  <2>1. \A i \in 1..Len(t) : Record(t[i]) \in QueueItem
    BY ElementOfSeq
  <2> QED
    BY <2>1 DEF Records
<1>1. ASSUME s # <<>>
      PROVE  /\ Records(s) # <<>>
             /\ Head(Records(s)) = Record(Head(s))
             /\ Tail(Records(s)) = Records(Tail(s))
  <2>1. Len(s) \in Nat \ {0} /\ Head(s) = s[1] /\ Tail(s) \in Seq(S)
        /\ Len(Tail(s)) = Len(s) - 1 /\ \A i \in 1..Len(s) - 1 : Tail(s)[i] = s[i + 1]
    BY <1>1
  <2>2. Records(s) # <<>> /\ Head(Records(s)) = Record(Head(s))
    BY <1>0, <2>1
  <2> DEFINE left == Tail(Records(s))
             right == Records(Tail(s))
  <2>3. left \in Seq(QueueItem) /\ Len(left) = Len(s) - 1
        /\ \A i \in 1..Len(s) - 1 : left[i] = Records(s)[i + 1]
    BY <1>0, <2>1, <2>2
  <2>4. right \in Seq(QueueItem) /\ Len(right) = Len(s) - 1
        /\ \A i \in 1..Len(s) - 1 : right[i] = Record(s[i + 1])
    BY <1>0, <2>1
  <2>5. \A i \in 1..Len(s) - 1 : Records(s)[i + 1] = Record(s[i + 1])
    BY <1>0, <2>1
  <2> HIDE DEF left, right
  <2>6. left = right
    BY <2>3, <2>4, <2>5, SeqEqual
  <2> QED
    BY <2>2, <2>6 DEF left, right
<1>2. ASSUME NEW x \in S
      PROVE  Records(Append(s, x)) = Append(Records(s), Record(x))
  <2> DEFINE t == Append(s, x)
             left == Records(t)
             right == Append(Records(s), Record(x))
  <2>1. t \in Seq(S) /\ Len(t) = Len(s) + 1 /\ Len(s) \in Nat
        /\ \A i \in 1..Len(s) : t[i] = s[i]
    OBVIOUS
  <2>2. t[Len(s) + 1] = x
    OBVIOUS
  <2>3. left \in Seq(QueueItem) /\ Len(left) = Len(s) + 1
        /\ \A i \in 1..Len(s) + 1 : left[i] = Record(t[i])
    BY <1>0, <2>1
  <2>4. right \in Seq(QueueItem) /\ Len(right) = Len(s) + 1
        /\ \A i \in 1..Len(s) : right[i] = Records(s)[i]
    BY <1>0
  <2>5. right[Len(s) + 1] = Record(x)
    BY <1>0
  <2>6. \A i \in 1..Len(s) : right[i] = Record(s[i])
    BY <1>0, <2>4
  <2> HIDE DEF left, right, t
  <2>7. \A i \in 1..Len(left) : left[i] = right[i]
    <3> SUFFICES ASSUME NEW i \in 1..Len(left)
                 PROVE  left[i] = right[i]
      OBVIOUS
    <3>1. i \in 1..Len(s) \/ i = Len(s) + 1
      BY <2>1, <2>3
    <3> QED
      BY <2>1, <2>2, <2>3, <2>5, <2>6, <3>1
  <2>8. left = right
    BY <2>3, <2>4, <2>7, SeqEqual
  <2> QED
    BY <2>8 DEF left, right, t
<1> QED
  BY <1>0, <1>1, <1>2

LEMMA RecordTypes ==
    /\ \A answer \in Answer : Record(answer) \in QueueItem
    /\ \A frame \in AnyFrame : Record(frame) \in QueueItem
BY DEF Record, QueueItem, Answer, AnyFrame

\* The same of the frames of a list of lines.
LEMMA FramesOf ==
    ASSUME NEW s \in Seq(Sending)
    PROVE  /\ Frames(s) \in Seq(AnyFrame)
           /\ s # <<>> => /\ Frames(s) # <<>>
                          /\ Head(Frames(s)) = Head(s).frame
                          /\ Tail(Frames(s)) = Frames(Tail(s))
           /\ \A x \in Sending : Frames(Append(s, x)) = Append(Frames(s), x.frame)
<1>0. \A t \in Seq(Sending) : /\ Frames(t) \in Seq(AnyFrame)
                              /\ Len(Frames(t)) = Len(t)
                              /\ \A i \in 1..Len(t) : Frames(t)[i] = t[i].frame
  <2> SUFFICES ASSUME NEW t \in Seq(Sending)
               PROVE  /\ Frames(t) \in Seq(AnyFrame)
                      /\ Len(Frames(t)) = Len(t)
                      /\ \A i \in 1..Len(t) : Frames(t)[i] = t[i].frame
    OBVIOUS
  <2>1. \A i \in 1..Len(t) : t[i].frame \in AnyFrame
    <3>1. \A i \in 1..Len(t) : t[i] \in Sending
      BY ElementOfSeq
    <3> QED
      BY <3>1 DEF Sending
  <2> QED
    BY <2>1 DEF Frames
<1>1. ASSUME s # <<>>
      PROVE  /\ Frames(s) # <<>>
             /\ Head(Frames(s)) = Head(s).frame
             /\ Tail(Frames(s)) = Frames(Tail(s))
  <2>1. Len(s) \in Nat \ {0} /\ Head(s) = s[1] /\ Tail(s) \in Seq(Sending)
        /\ Len(Tail(s)) = Len(s) - 1 /\ \A i \in 1..Len(s) - 1 : Tail(s)[i] = s[i + 1]
    BY <1>1
  <2>2. Frames(s) # <<>> /\ Head(Frames(s)) = Head(s).frame
    BY <1>0, <2>1
  <2> DEFINE left == Tail(Frames(s))
             right == Frames(Tail(s))
  <2>3. left \in Seq(AnyFrame) /\ Len(left) = Len(s) - 1
        /\ \A i \in 1..Len(s) - 1 : left[i] = Frames(s)[i + 1]
    BY <1>0, <2>1, <2>2
  <2>4. right \in Seq(AnyFrame) /\ Len(right) = Len(s) - 1
        /\ \A i \in 1..Len(s) - 1 : right[i] = s[i + 1].frame
    BY <1>0, <2>1
  <2>5. \A i \in 1..Len(s) - 1 : Frames(s)[i + 1] = s[i + 1].frame
    BY <1>0, <2>1
  <2> HIDE DEF left, right
  <2>6. left = right
    BY <2>3, <2>4, <2>5, SeqEqual
  <2> QED
    BY <2>2, <2>6 DEF left, right
<1>2. ASSUME NEW x \in Sending
      PROVE  Frames(Append(s, x)) = Append(Frames(s), x.frame)
  <2> DEFINE t == Append(s, x)
             left == Frames(t)
             right == Append(Frames(s), x.frame)
  <2>0. x.frame \in AnyFrame
    BY DEF Sending
  <2>1. t \in Seq(Sending) /\ Len(t) = Len(s) + 1 /\ Len(s) \in Nat
        /\ \A i \in 1..Len(s) : t[i] = s[i]
    OBVIOUS
  <2>2. t[Len(s) + 1] = x
    OBVIOUS
  <2>3. left \in Seq(AnyFrame) /\ Len(left) = Len(s) + 1
        /\ \A i \in 1..Len(s) + 1 : left[i] = t[i].frame
    BY <1>0, <2>1
  <2>4. right \in Seq(AnyFrame) /\ Len(right) = Len(s) + 1
        /\ \A i \in 1..Len(s) : right[i] = Frames(s)[i]
    BY <1>0, <2>0
  <2>5. right[Len(s) + 1] = x.frame
    BY <1>0, <2>0
  <2>6. \A i \in 1..Len(s) : right[i] = s[i].frame
    BY <1>0, <2>4
  <2> HIDE DEF left, right, t
  <2>7. \A i \in 1..Len(left) : left[i] = right[i]
    <3> SUFFICES ASSUME NEW i \in 1..Len(left)
                 PROVE  left[i] = right[i]
      OBVIOUS
    <3>1. i \in 1..Len(s) \/ i = Len(s) + 1
      BY <2>1, <2>3
    <3> QED
      BY <2>1, <2>2, <2>3, <2>5, <2>6, <3>1
  <2>8. left = right
    BY <2>3, <2>4, <2>7, SeqEqual
  <2> QED
    BY <2>8 DEF left, right, t
<1> QED
  BY <1>0, <1>1, <1>2

LEMMA FlowParts == SessionTypes => FlowTyped
<1> HAVE SessionTypes
<1>0. /\ wire \in Seq(End) /\ app_queue \in Seq(AnyFrame)
      /\ harvest \in Seq(QueueItem) /\ answer_queue \in Seq(QueueItem)
      /\ draining.tag \in Nat /\ draining.id \in Nat
      /\ <<>> \in Seq(QueueItem)
  BY DEF SessionTypes, SessionTypeOK, ServerTypeOK
<1>1. wire # <<>> => /\ wire[Current].to_server \in Seq(Answer)
                     /\ wire[Current].to_app \in Seq(Sending)
  <2>1. wire # <<>> => Current \in 1..Len(wire)
    BY <1>0 DEF Current
  <2> QED
    BY <1>0, <2>1, EndFields
<1>2. Sent \in Seq(QueueItem)
  BY <1>0, <1>1, RecordsOf, RecordTypes DEF Sent
<1>3. Held \in Seq(QueueItem)
  BY <1>0, RecordsOf, RecordTypes DEF Held
<1>4. Coming \in Seq(QueueItem)
  <2>1. wire # <<>> => Frames(wire[Current].to_app) \in Seq(AnyFrame)
    BY <1>1, FramesOf
  <2> QED
    BY <1>0, <2>1, RecordsOf, RecordTypes DEF Coming
<1>5. Leaving \in Seq(QueueItem)
  <2>1. Record(draining) \in QueueItem
    BY <1>0 DEF Record, QueueItem
  <2> QED
    BY <1>0, <2>1 DEF Leaving
<1>6. Flow \in Parts
  BY <1>0, <1>2, <1>3, <1>4, <1>5 DEF Flow, Six, Parts
<1> QED
  BY <1>6 DEF FlowTyped, Flow, Six

LEMMA FlowPartsNext == SessionTypes' => FlowTyped'
BY FlowParts, PTL

LEMMA PartsTyped ==
    ASSUME SessionTypes
    PROVE  /\ harvest \in Seq(QueueItem) /\ answer_queue \in Seq(QueueItem)
           /\ Sent \in Seq(QueueItem) /\ Held \in Seq(QueueItem)
           /\ Coming \in Seq(QueueItem) /\ Leaving \in Seq(QueueItem)
<1>1. FlowTyped
  BY FlowParts
<1>2. \A p \in 1..6 : Flow[p] \in Seq(QueueItem)
  BY <1>1, PartTypes DEF FlowTyped
<1> QED
  BY <1>1, <1>2 DEF FlowTyped

\* What the network thread sees of the last connection.
LEMMA CurrentPut ==
    ASSUME SessionTypes, NEW c \in 1..Len(wire), NEW to_app, NEW to_server, NEW app, NEW server,
           NEW reset, Put(c, to_app, to_server, app, server, reset)
    PROVE  /\ wire # <<>> /\ wire' # <<>> /\ Current' = Current
           /\ c # Current => wire'[Current] = wire[Current]
           /\ c = Current => /\ wire'[Current].to_app = to_app
                             /\ wire'[Current].to_server = to_server
<1>1. wire \in Seq(End) /\ wire' \in Seq(End) /\ Len(wire') = Len(wire) /\ Len(wire) \in Nat
  BY DEF SessionTypes, Put
<1>2. Current \in 1..Len(wire) /\ Current' = Current
  BY <1>1 DEF Current
<1>3. wire # <<>> /\ wire' # <<>>
  BY <1>1
<1> QED
  BY <1>2, <1>3 DEF Put

\* Nothing went anywhere.
LEMMA FlowRests ==
    ASSUME SessionTypes, SessionTypes',
           UNCHANGED <<harvest, answer_queue, Sent, Held, Coming, Leaving>>
    PROVE  Passed(Flow', Flow)
<1>1. Flow' = Flow
  BY DEF Flow
<1> QED
  BY <1>1 DEF Passed

\* Each part kept what it kept, and got nothing.
LEMMA FlowThins ==
    ASSUME SessionTypes, SessionTypes',
           From(harvest', harvest), From(answer_queue', answer_queue), From(Sent', Sent),
           From(Held', Held), From(Coming', Coming), From(Leaving', Leaving)
    PROVE  Passed(Flow', Flow)
<1>1. FlowTyped /\ FlowTyped'
  BY FlowParts, FlowPartsNext
<1>2. Flow \in Parts /\ Flow' \in Parts
  BY <1>1 DEF FlowTyped
<1>3. ASSUME NEW p \in 1..6
      PROVE  From((Flow')[p], Flow[p])
  <2>1. p = 1 \/ p = 2 \/ p = 3 \/ p = 4 \/ p = 5 \/ p = 6
    OBVIOUS
  <2>2. /\ (Flow')[1] = harvest' /\ (Flow')[2] = answer_queue' /\ (Flow')[3] = Sent'
        /\ (Flow')[4] = Held' /\ (Flow')[5] = Coming' /\ (Flow')[6] = Leaving'
        /\ Flow[1] = harvest /\ Flow[2] = answer_queue /\ Flow[3] = Sent
        /\ Flow[4] = Held /\ Flow[5] = Coming /\ Flow[6] = Leaving
    BY <1>1 DEF FlowTyped
  <2> QED
    BY <2>1, <2>2
<1>4. Thinned(Flow', Flow)
  BY <1>3 DEF Thinned
<1> QED
  BY <1>2, <1>4, DroppedPasses

LEMMA SixNumbers == \A q \in 1..6 : q = 1 \/ q = 2 \/ q = 3 \/ q = 4 \/ q = 5 \/ q = 6
OBVIOUS

\* The first item of the next part went to the end of part p.
LEMMA FlowMoves ==
    ASSUME SessionTypes, SessionTypes', NEW p \in 1..5, NEW next \in 1..6, next = p + 1,
           Flow[next] # <<>>, (Flow')[p] = Append(Flow[p], Head(Flow[next])),
           (Flow')[next] = Tail(Flow[next]),
           \A q \in 1..6 : q # p /\ q # next => (Flow')[q] = Flow[q]
    PROVE  Passed(Flow', Flow)
<1>1. Flow \in Parts /\ Flow' \in Parts
  BY FlowParts, FlowPartsNext DEF FlowTyped
<1> QED
  BY <1>1, HeadPasses

\* The parts that the connection holds, where it is not touched.
LEMMA WireParts ==
    ASSUME UNCHANGED wire, wire # <<>> => (handler'[Current] = "closed" <=> handler[Current] = "closed")
    PROVE  Sent' = Sent /\ Coming' = Coming
BY DEF Sent, Coming, Current

LEMMA ReceiveItemFlow ==
    ASSUME SessionTypes, SessionTypes', ReceiveItem, UNCHANGED processVars
    PROVE  Passed(Flow', Flow)
<1>1. FlowTyped /\ FlowTyped'
  BY FlowParts, FlowPartsNext
<1>2. UNCHANGED <<Sent, Coming, Held, Leaving>>
  BY WireParts DEF ReceiveItem, processVars, Held, Leaving
<1>3. /\ answer_queue # <<>> /\ answer_queue' = Tail(answer_queue)
      /\ harvest' = Append(harvest, Head(answer_queue))
  BY DEF ReceiveItem
<1>4. Flow[2] # <<>> /\ (Flow')[1] = Append(Flow[1], Head(Flow[2])) /\ (Flow')[2] = Tail(Flow[2])
  BY <1>1, <1>2, <1>3 DEF FlowTyped
<1>5. /\ (Flow')[3] = Flow[3] /\ (Flow')[4] = Flow[4]
      /\ (Flow')[5] = Flow[5] /\ (Flow')[6] = Flow[6]
  BY <1>1, <1>2, <1>3 DEF FlowTyped
<1>6. \A q \in 1..6 : q # 1 /\ q # 2 => (Flow')[q] = Flow[q]
  BY <1>5, SixNumbers
<1> QED
  BY <1>4, <1>6, FlowMoves

LEMMA HandlerReadsLineFlow ==
    ASSUME SessionTypes, SessionTypes', WireInv, NEW c \in 1..Len(wire), HandlerReadsLine(c),
           UNCHANGED processVars
    PROVE  Passed(Flow', Flow)
<1>0. wire \in Seq(End) /\ Len(wire) \in Nat
  BY DEF SessionTypes
<1>1. FlowTyped /\ FlowTyped'
  BY FlowParts, FlowPartsNext
<1>2. /\ wire[c].to_server \in Seq(Answer) /\ wire[c].to_server # <<>>
      /\ handler' = handler /\ handler[c] = "reading"
      /\ answer_queue' = Append(answer_queue, Record(Head(wire[c].to_server)))
      /\ wire' = [wire EXCEPT ![c].to_server = Tail(wire[c].to_server)]
  BY <1>0, EndFields DEF HandlerReadsLine
<1>3. Tail(wire[c].to_server) \in Seq(Answer)
  BY <1>2
<1>4. c = Current
  BY <1>0, <1>2 DEF WireInv, Current
<1>5. Put(c, wire[c].to_app, Tail(wire[c].to_server), wire[c].app, wire[c].server,
          wire[c].reset)
  BY <1>0, <1>2, <1>3, ToServerPut
<1>6. /\ wire # <<>> /\ wire' # <<>> /\ Current' = Current
      /\ wire'[Current].to_app = wire[Current].to_app
      /\ wire'[Current].to_server = Tail(wire[Current].to_server)
  BY <1>4, <1>5, CurrentPut
<1>7. Sent = Records(wire[Current].to_server) /\ Sent' = Records(Tail(wire[Current].to_server))
  BY <1>2, <1>4, <1>6 DEF Sent
<1>8. /\ Sent # <<>> /\ Sent' = Tail(Sent)
      /\ Record(Head(wire[c].to_server)) = Head(Sent)
  BY <1>2, <1>4, <1>7, RecordsOf, RecordTypes
<1>9. UNCHANGED <<harvest, Coming, Held, Leaving>>
  BY <1>6 DEF HandlerReadsLine, processVars, Held, Leaving, Coming
<1>10. Flow[3] # <<>> /\ (Flow')[2] = Append(Flow[2], Head(Flow[3])) /\ (Flow')[3] = Tail(Flow[3])
  BY <1>1, <1>2, <1>8, <1>9 DEF FlowTyped
<1>11. /\ (Flow')[1] = Flow[1] /\ (Flow')[4] = Flow[4]
      /\ (Flow')[5] = Flow[5] /\ (Flow')[6] = Flow[6]
  BY <1>1, <1>2, <1>8, <1>9 DEF FlowTyped
<1>12. \A q \in 1..6 : q # 2 /\ q # 3 => (Flow')[q] = Flow[q]
  BY <1>11, SixNumbers
<1> QED
  BY <1>10, <1>12, FlowMoves

LEMMA AppReadsFlow ==
    ASSUME SessionTypes, SessionTypes', AppReads, UNCHANGED serverVars
    PROVE  Passed(Flow', Flow)
<1>0. wire \in Seq(End) /\ Len(wire) \in Nat /\ app_queue \in Seq(AnyFrame)
  BY DEF SessionTypes
<1>1. FlowTyped /\ FlowTyped'
  BY FlowParts, FlowPartsNext
<1>2. Current \in 1..Len(wire)
  BY <1>0, ConnectedCurrent DEF AppReads
<1>3. /\ wire[Current].to_app \in Seq(Sending) /\ wire[Current].to_app # <<>>
      /\ wire' = [wire EXCEPT ![Current].to_app = Tail(wire[Current].to_app)]
  BY <1>0, <1>2, EndFields DEF AppReads
<1>4. Tail(wire[Current].to_app) \in Seq(Sending) /\ Head(wire[Current].to_app) \in Sending
  BY <1>3
<1>5. Put(Current, Tail(wire[Current].to_app), wire[Current].to_server, wire[Current].app,
          wire[Current].server, wire[Current].reset)
  BY <1>0, <1>2, <1>3, <1>4, ToAppPut
<1>6. /\ wire # <<>> /\ wire' # <<>> /\ Current' = Current
      /\ wire'[Current].to_app = Tail(wire[Current].to_app)
      /\ wire'[Current].to_server = wire[Current].to_server
  BY <1>2, <1>5, CurrentPut
<1> DEFINE coming == Frames(wire[Current].to_app)
<1>7. /\ coming \in Seq(AnyFrame) /\ coming # <<>>
      /\ Head(coming) = Head(wire[Current].to_app).frame
      /\ Tail(coming) = Frames(Tail(wire[Current].to_app))
  BY <1>3, FramesOf
<1>8. Coming = Records(coming) /\ Coming' = Records(Tail(coming))
  BY <1>6, <1>7 DEF Coming
<1>9. command_frame_from_json(Head(wire[Current].to_app)) = Head(coming)
  BY <1>4, <1>7 DEF command_frame_from_json, Sending
<1>10. app_queue' = Append(app_queue, Head(coming)) /\ Head(coming) \in AnyFrame
  BY <1>7, <1>9 DEF AppReads
<1> HIDE DEF coming
<1>11. /\ Coming # <<>> /\ Coming' = Tail(Coming)
       /\ Record(Head(coming)) = Head(Coming)
  BY <1>7, <1>8, RecordsOf, RecordTypes
<1>12. Held' = Append(Held, Head(Coming))
  <2>1. Held' = Records(Append(app_queue, Head(coming)))
    BY <1>10 DEF Held
  <2>2. Records(Append(app_queue, Head(coming))) = Append(Records(app_queue), Record(Head(coming)))
    BY <1>0, <1>10, RecordsOf, RecordTypes
  <2> QED
    BY <1>11, <2>1, <2>2 DEF Held
<1>13. UNCHANGED <<harvest, answer_queue, Sent, Leaving>>
  BY <1>6 DEF serverVars, Sent, Leaving
<1>14. Flow[5] # <<>> /\ (Flow')[4] = Append(Flow[4], Head(Flow[5])) /\ (Flow')[5] = Tail(Flow[5])
  BY <1>1, <1>11, <1>12, <1>13 DEF FlowTyped
<1>15. /\ (Flow')[1] = Flow[1] /\ (Flow')[2] = Flow[2]
      /\ (Flow')[3] = Flow[3] /\ (Flow')[6] = Flow[6]
  BY <1>1, <1>11, <1>12, <1>13 DEF FlowTyped
<1>16. \A q \in 1..6 : q # 4 /\ q # 5 => (Flow')[q] = Flow[q]
  BY <1>15, SixNumbers
<1> QED
  BY <1>14, <1>16, FlowMoves

LEMMA BufferFlushesFlow ==
    ASSUME SessionTypes, SessionTypes', WireInv, BufferFlushes, UNCHANGED processVars
    PROVE  Passed(Flow', Flow)
<1>0. /\ wire \in Seq(End) /\ Len(wire) \in Nat
      /\ draining.conn \in 1..Len(wire) /\ draining.tag \in Nat /\ draining.id \in Nat
      /\ staged \in Body
  <2>1. /\ wire \in Seq(End) /\ Len(wire) \in Nat /\ staged \in Body
        /\ draining.tag \in Nat /\ draining.id \in Nat
    BY DEF SessionTypes, SessionTypeOK, ServerTypeOK
  <2>2. draining.conn \in 1..Len(wire)
    BY <2>1 DEF BufferFlushes, SessionTypes, NoConnection
  <2> QED
    BY <2>1, <2>2
<1>1. FlowTyped /\ FlowTyped'
  BY FlowParts, FlowPartsNext
<1>2. draining.conn = Current
  BY <1>0 DEF BufferFlushes, WireInv, Current
<1> DEFINE line == LineOf(draining.tag, draining.id, staged)
<1>3. line \in Sending /\ Record(line.frame) = Record(draining) /\ line.frame \in AnyFrame
  BY <1>0 DEF LineOf, Sending, AnyFrame, Record
<1>4. Put(Current, Append(wire[Current].to_app, line), wire[Current].to_server,
          wire[Current].app, wire[Current].server, wire[Current].reset)
  BY <1>0, <1>2, PutOnWirePut DEF BufferFlushes
<1>5. /\ wire # <<>> /\ wire' # <<>> /\ Current' = Current /\ Current \in 1..Len(wire)
      /\ wire'[Current].to_app = Append(wire[Current].to_app, line)
      /\ wire'[Current].to_server = wire[Current].to_server
  BY <1>0, <1>2, <1>4, CurrentPut
<1> HIDE DEF line
<1>6. Coming' = Append(Coming, Record(draining))
  <2>1. wire[Current].to_app \in Seq(Sending)
    BY <1>0, <1>5, EndFields
  <2>2. /\ Frames(wire[Current].to_app) \in Seq(AnyFrame)
        /\ Frames(Append(wire[Current].to_app, line)) =
             Append(Frames(wire[Current].to_app), line.frame)
    BY <1>3, <2>1, FramesOf
  <2>3. Records(Append(Frames(wire[Current].to_app), line.frame)) =
          Append(Records(Frames(wire[Current].to_app)), Record(line.frame))
    BY <1>3, <2>2, RecordsOf, RecordTypes
  <2> QED
    BY <1>3, <1>5, <2>2, <2>3 DEF Coming
<1>7. Leaving = <<Record(draining)>> /\ Leaving' = <<>>
  <2>1. call = "draining" /\ ~draining.flushed /\ draining'.flushed
    BY DEF BufferFlushes, SessionTypes, SessionTypeOK, ServerTypeOK
  <2> QED
    BY <2>1 DEF Leaving
<1>8. UNCHANGED <<harvest, answer_queue, Sent, Held>>
  BY <1>5 DEF BufferFlushes, processVars, Sent, Held
<1>9. Leaving # <<>> /\ Head(Leaving) = Record(draining) /\ Tail(Leaving) = <<>>
  BY <1>7
<1>10. Flow[6] # <<>> /\ (Flow')[5] = Append(Flow[5], Head(Flow[6])) /\ (Flow')[6] = Tail(Flow[6])
  BY <1>1, <1>6, <1>7, <1>8, <1>9 DEF FlowTyped
<1>11. /\ (Flow')[1] = Flow[1] /\ (Flow')[2] = Flow[2]
      /\ (Flow')[3] = Flow[3] /\ (Flow')[4] = Flow[4]
  BY <1>1, <1>6, <1>7, <1>8, <1>9 DEF FlowTyped
<1>12. \A q \in 1..6 : q # 5 /\ q # 6 => (Flow')[q] = Flow[q]
  BY <1>11, SixNumbers
<1> QED
  BY <1>10, <1>12, FlowMoves

\* Frames that the application is rid of leave the rest as it was ...
LEMMA WithoutFrom ==
    ASSUME app_queue \in Seq(AnyFrame), NEW k \in 0..Len(app_queue), app_queue' = Without(k)
    PROVE  From(Held', Held)
<1> DEFINE left == Without(k)
<1>1. /\ left \in Seq(AnyFrame) /\ Len(left) = Len(app_queue) - k
      /\ \A n \in 1..Len(app_queue) - k : left[n] = app_queue[n + k]
  BY WithoutFrames
<1> HIDE DEF left
<1>2. /\ Len(Records(left)) = Len(left)
      /\ \A n \in 1..Len(left) : Records(left)[n] = Record(left[n])
      /\ Len(Records(app_queue)) = Len(app_queue)
      /\ \A n \in 1..Len(app_queue) : Records(app_queue)[n] = Record(app_queue[n])
  BY <1>1, RecordsOf, RecordTypes
<1>3. Len(app_queue) \in Nat
  OBVIOUS
<1>4. ASSUME NEW n \in 1..Len(Records(left))
      PROVE  /\ n + k \in 1..Len(Records(app_queue))
             /\ Records(left)[n] = Records(app_queue)[n + k]
  <2>1. n \in 1..Len(left) /\ n \in 1..Len(app_queue) - k /\ n + k \in 1..Len(app_queue)
    BY <1>1, <1>2, <1>3
  <2> QED
    BY <1>1, <1>2, <2>1
<1>5. k \in Nat /\ \A n \in 1..Len(Records(left)) : Records(left)[n].record =>
         n + k \in 1..Len(Records(app_queue)) /\ Records(left)[n] = Records(app_queue)[n + k]
  BY <1>4
<1>6. From(Records(left), Records(app_queue))
  BY <1>5, Zenon DEF From
<1> QED
  BY <1>6 DEF Held, left

\* ... also behind the first, which was written.
LEMMA BehindFirst ==
    ASSUME app_queue \in Seq(AnyFrame), NEW k \in 1..Len(app_queue), app_queue' = Without(k)
    PROVE  From(Held', Tail(Held))
<1> DEFINE left == Without(k)
<1>0. Len(app_queue) \in Nat /\ k \in 0..Len(app_queue) /\ app_queue # <<>>
  OBVIOUS
<1>1. /\ left \in Seq(AnyFrame) /\ Len(left) = Len(app_queue) - k
      /\ \A n \in 1..Len(app_queue) - k : left[n] = app_queue[n + k]
  BY <1>0, WithoutFrames
<1> HIDE DEF left
<1>2. /\ Len(Records(left)) = Len(left)
      /\ \A n \in 1..Len(left) : Records(left)[n] = Record(left[n])
  BY <1>1, RecordsOf, RecordTypes
<1>3. /\ Held \in Seq(QueueItem) /\ Len(Held) = Len(app_queue)
      /\ \A n \in 1..Len(app_queue) : Held[n] = Record(app_queue[n])
  BY RecordsOf, RecordTypes DEF Held
<1>4. /\ Len(Tail(Held)) = Len(app_queue) - 1
      /\ \A n \in 1..Len(app_queue) - 1 : Tail(Held)[n] = Held[n + 1]
  BY <1>0, <1>3
<1>5. ASSUME NEW n \in 1..Len(Records(left))
      PROVE  /\ n + (k - 1) \in 1..Len(Tail(Held))
             /\ Records(left)[n] = Tail(Held)[n + (k - 1)]
  <2>1. /\ n \in 1..Len(left) /\ n \in 1..Len(app_queue) - k /\ n + k \in 1..Len(app_queue)
        /\ n + (k - 1) \in 1..Len(app_queue) - 1 /\ (n + (k - 1)) + 1 = n + k
    BY <1>0, <1>1, <1>2
  <2>2. Tail(Held)[n + (k - 1)] = Held[n + k]
    BY <1>4, <2>1
  <2>3. Held[n + k] = Record(app_queue[n + k])
    BY <1>3, <2>1
  <2> QED
    BY <1>1, <1>2, <1>4, <2>1, <2>2, <2>3
<1>6. k - 1 \in Nat /\ \A n \in 1..Len(Records(left)) : Records(left)[n].record =>
         /\ n + (k - 1) \in 1..Len(Tail(Held))
         /\ Records(left)[n] = Tail(Held)[n + (k - 1)]
  BY <1>5
<1>7. From(Records(left), Tail(Held))
  BY <1>6, Zenon DEF From
<1> QED
  BY <1>7 DEF Held, left

LEMMA AppAnswersFlow ==
    ASSUME SessionTypes, SessionTypes', AppAnswers, UNCHANGED serverVars
    PROVE  Passed(Flow', Flow)
<1>0. wire \in Seq(End) /\ Len(wire) \in Nat /\ app_queue \in Seq(AnyFrame) /\ app_queue # <<>>
  BY DEF SessionTypes, AppAnswers
<1>1. FlowTyped /\ FlowTyped'
  BY FlowParts, FlowPartsNext
<1>2. Current \in 1..Len(wire)
  BY <1>0, ConnectedCurrent DEF AppAnswers
<1>a. PICK answer \in AnswersTo(Head(app_queue)) :
        wire' = [wire EXCEPT ![Current].to_server = Append(wire[Current].to_server, answer)]
  BY DEF AppAnswers
<1>b. PICK k \in 1..Len(app_queue) : app_queue' = Without(k)
  BY DEF AppAnswers
<1>3. answer \in Answer /\ Record(answer) = Record(Head(app_queue))
  <2>1. Head(app_queue) \in AnyFrame
    BY <1>0
  <2> QED
    BY <2>1, AnswerType DEF Record
<1>4. wire[Current].to_server \in Seq(Answer)
  BY <1>0, <1>2, EndFields
<1>5. wire' = [wire EXCEPT ![Current].to_server = Append(wire[Current].to_server, answer)]
  BY <1>a
<1>6. Append(wire[Current].to_server, answer) \in Seq(Answer)
  BY <1>3, <1>4
<1>7. Put(Current, wire[Current].to_app, Append(wire[Current].to_server, answer),
          wire[Current].app, wire[Current].server, wire[Current].reset)
  BY <1>0, <1>2, <1>5, <1>6, ToServerPut
<1>8. /\ wire # <<>> /\ wire' # <<>> /\ Current' = Current
      /\ wire'[Current].to_app = wire[Current].to_app
      /\ wire'[Current].to_server = Append(wire[Current].to_server, answer)
  BY <1>2, <1>7, CurrentPut
<1>9. UNCHANGED <<harvest, answer_queue, Coming, Leaving, handler>>
  BY <1>8 DEF serverVars, Coming, Leaving
<1>10. Held # <<>> /\ Head(Held) = Record(Head(app_queue)) /\ Tail(Held) = Records(Tail(app_queue))
  BY <1>0, RecordsOf, RecordTypes DEF Held
<1>11. From(Held', Tail(Held))
  BY <1>0, <1>b, BehindFirst
<1>12. /\ Flow \in Parts /\ Flow' \in Parts
       /\ Sent \in Seq(QueueItem) /\ Held \in Seq(QueueItem)
       /\ harvest \in Seq(QueueItem) /\ answer_queue \in Seq(QueueItem)
       /\ Coming \in Seq(QueueItem) /\ Leaving \in Seq(QueueItem)
  BY <1>1, PartsTyped DEF FlowTyped
<1>13. From(Held', Held)
  <2>1. k \in 0..Len(app_queue)
    BY <1>0
  <2> QED
    BY <1>0, <1>b, <2>1, WithoutFrom
<1>14. CASE handler[Current] = "closed"
  <2>1. Sent = <<>> /\ Sent' = <<>>
    BY <1>8, <1>9, <1>14 DEF Sent
  <2>2. From(Sent', Sent)
    BY <1>12, <2>1, FromSome
  <2> QED
    BY <1>9, <1>12, <1>13, <2>2, FlowThins, FromSome
<1>15. CASE handler[Current] # "closed"
  <2>1. Sent' = Append(Sent, Head(Held))
    <3>1. Sent = Records(wire[Current].to_server)
      BY <1>8, <1>15 DEF Sent
    <3>2. Sent' = Records(Append(wire[Current].to_server, answer))
      BY <1>8, <1>9, <1>15 DEF Sent
    <3>3. Records(Append(wire[Current].to_server, answer)) =
            Append(Records(wire[Current].to_server), Record(answer))
      BY <1>3, <1>4, RecordsOf, RecordTypes
    <3> QED
      BY <1>3, <1>10, <3>1, <3>2, <3>3
  <2> DEFINE mid == Six(harvest, answer_queue, Append(Sent, Head(Held)), Tail(Held),
                        Coming, Leaving)
  <2>2. Append(Sent, Head(Held)) \in Seq(QueueItem) /\ Tail(Held) \in Seq(QueueItem)
    BY <1>10, <1>12
  <2>3. mid \in Parts
    BY <1>12, <2>2 DEF Six, Parts
  <2>4. /\ mid[1] = harvest /\ mid[2] = answer_queue /\ mid[3] = Append(Sent, Head(Held))
        /\ mid[4] = Tail(Held) /\ mid[5] = Coming /\ mid[6] = Leaving
    BY DEF Six
  <2> HIDE DEF mid
  <2>5. Passed(mid, Flow)
    <3>1. Flow[4] # <<>> /\ mid[3] = Append(Flow[3], Head(Flow[4])) /\ mid[4] = Tail(Flow[4])
      BY <1>1, <1>10, <2>4 DEF FlowTyped
    <3>2. mid[1] = Flow[1] /\ mid[2] = Flow[2] /\ mid[5] = Flow[5] /\ mid[6] = Flow[6]
      BY <1>1, <2>4 DEF FlowTyped
    <3>3. \A q \in 1..6 : q # 3 /\ q # 4 => mid[q] = Flow[q]
      BY <3>2, SixNumbers
    <3> QED
      BY <1>12, <2>3, <3>1, <3>3, HeadPasses
  <2>6. Passed(Flow', mid)
    <3>1. /\ From((Flow')[1], mid[1]) /\ From((Flow')[2], mid[2]) /\ From((Flow')[3], mid[3])
      BY <1>1, <1>9, <1>12, <2>1, <2>2, <2>4, FromSome DEF FlowTyped
    <3>2. /\ From((Flow')[5], mid[5]) /\ From((Flow')[6], mid[6])
      BY <1>1, <1>9, <1>12, <2>4, FromSome DEF FlowTyped
    <3>3. From((Flow')[4], mid[4])
      BY <1>1, <1>11, <2>4 DEF FlowTyped
    <3>4. Thinned(Flow', mid)
      <4> SUFFICES ASSUME NEW p \in 1..6
                   PROVE  From((Flow')[p], mid[p])
        BY DEF Thinned
      <4> QED
        BY <3>1, <3>2, <3>3, SixNumbers
    <3> QED
      BY <1>12, <2>3, <3>4, DroppedPasses
  <2> QED
    BY <2>5, <2>6, PassedTwice
<1> QED
  BY <1>14, <1>15

LEMMA HandlerOrphanedFlow ==
    ASSUME SessionTypes, SessionTypes', WireInv, NEW c \in 1..Len(wire), HandlerOrphaned(c),
           UNCHANGED processVars
    PROVE  Passed(Flow', Flow)
<1>0. /\ wire \in Seq(End) /\ Len(wire) \in Nat /\ Len(wire) <= MaxConnections
      /\ handler \in [1..MaxConnections -> {"none", "reading", "closed"}]
  <2>1. wire \in Seq(End) /\ Len(wire) \in Nat /\ Len(wire) <= MaxConnections
    BY DEF SessionTypes
  <2>2. handler \in [1..MaxConnections -> {"none", "reading", "closed"}]
    BY DEF SessionTypes, SessionTypeOK, ServerTypeOK
  <2> QED
    BY <2>1, <2>2
<1>1. FlowTyped /\ FlowTyped'
  BY FlowParts, FlowPartsNext
<1> DEFINE s == wire[c].to_server
<1>2. PICK k \in 1..Len(s) : HandlerCloses(c, Records(SubSeq(s, 1, k)))
  BY DEF HandlerOrphaned
<1>3. s \in Seq(Answer) /\ s # <<>>
  <2>1. s \in Seq(Answer)
    BY <1>0, EndFields
  <2> QED
    BY <1>2, <2>1
<1>4. handler[c] = "reading" /\ handler' = [handler EXCEPT ![c] = "closed"]
  BY DEF HandlerOrphaned
<1>5. c = Current /\ c \in 1..MaxConnections
  BY <1>0, <1>3, <1>4, MaxConnectionsAssumption DEF WireInv, Current
<1>6. Put(c, wire[c].to_app, <<>>, wire[c].app, "closed", wire[c].reset)
  BY <1>0, OrphanedPut
<1>7. /\ wire # <<>> /\ wire' # <<>> /\ Current' = Current
      /\ wire'[Current].to_app = wire[Current].to_app
  BY <1>5, <1>6, CurrentPut
<1>8. Sent = Records(s) /\ Sent' = <<>>
  <2>1. handler'[Current] = "closed" /\ handler[Current] # "closed"
    BY <1>0, <1>4, <1>5
  <2> QED
    BY <1>5, <1>7, <2>1 DEF Sent
<1>9. UNCHANGED <<harvest, Coming, Held, Leaving>>
  BY <1>7 DEF HandlerOrphaned, processVars, Held, Leaving, Coming
<1> DEFINE first == SubSeq(s, 1, k)
           rest == SubSeq(s, k + 1, Len(s))
<1>10. answer_queue' = answer_queue \o Records(first) \o <<NoRecord>>
  BY <1>2 DEF HandlerCloses
<1>11. /\ first \in Seq(Answer) /\ rest \in Seq(Answer) /\ Len(s) \in Nat
       /\ Len(first) = k /\ Len(rest) = Len(s) - k
       /\ \A n \in 1..k : first[n] = s[n]
       /\ \A n \in 1..Len(s) - k : rest[n] = s[n + k]
  BY <1>3
<1> HIDE DEF s, first, rest
<1>12. /\ Records(first) \in Seq(QueueItem) /\ Len(Records(first)) = k
       /\ \A n \in 1..k : Records(first)[n] = Record(first[n])
       /\ Records(rest) \in Seq(QueueItem) /\ Len(Records(rest)) = Len(s) - k
       /\ \A n \in 1..Len(s) - k : Records(rest)[n] = Record(rest[n])
       /\ Len(Records(s)) = Len(s)
       /\ \A n \in 1..Len(s) : Records(s)[n] = Record(s[n])
  BY <1>3, <1>11, RecordsOf, RecordTypes
<1>13. /\ Flow \in Parts /\ Flow' \in Parts
       /\ harvest \in Seq(QueueItem) /\ answer_queue \in Seq(QueueItem)
       /\ Held \in Seq(QueueItem) /\ Coming \in Seq(QueueItem) /\ Leaving \in Seq(QueueItem)
  BY <1>1, PartsTyped DEF FlowTyped
<1> DEFINE queued == answer_queue \o Records(first)
           mid == Six(harvest, queued, Records(rest), Held, Coming, Leaving)
<1>14. /\ queued \in Seq(QueueItem) /\ Len(queued) = Len(answer_queue) + k
       /\ \A n \in 1..Len(answer_queue) : queued[n] = answer_queue[n]
       /\ \A n \in 1..k : queued[Len(answer_queue) + n] = Records(first)[n]
       /\ queued \o <<NoRecord>> = Append(queued, NoRecord)
  <2>1. /\ queued \in Seq(QueueItem) /\ Len(queued) = Len(answer_queue) + k
        /\ \A n \in 1..Len(answer_queue) : queued[n] = answer_queue[n]
    <3>1. queued \in Seq(QueueItem) /\ Len(queued) = Len(answer_queue) + k
      BY <1>12, <1>13, ConcatProperties
    <3>2. ASSUME NEW n \in 1..Len(answer_queue)
          PROVE  queued[n] = answer_queue[n]
      <4>1. n \in 1..Len(answer_queue) + Len(Records(first)) /\ n <= Len(answer_queue)
        BY <1>12, <1>13
      <4> QED
        BY <1>12, <1>13, <4>1, ConcatProperties
    <3> QED
      BY <3>1, <3>2
  <2>2. \A n \in 1..k : queued[Len(answer_queue) + n] = Records(first)[n]
    <3> SUFFICES ASSUME NEW n \in 1..k
                 PROVE  queued[Len(answer_queue) + n] = Records(first)[n]
      OBVIOUS
    <3>1. Len(answer_queue) \in Nat
      BY <1>13
    <3>2. queued[Len(answer_queue) + n] = Records(first)[Len(answer_queue) + n - Len(answer_queue)]
      BY <1>12, <1>13, <3>1, ConcatProperties
    <3> QED
      BY <3>1, <3>2
  <2>3. queued \o <<NoRecord>> = Append(queued, NoRecord)
    <3>1. NoRecord \in QueueItem
      BY DEF NoRecord, QueueItem
    <3> QED
      BY <2>1, <3>1, AppendIsConcat
  <2> QED
    BY <2>1, <2>2, <2>3
<1> HIDE DEF queued
<1>15. mid \in Parts
  BY <1>12, <1>13, <1>14 DEF Six, Parts
<1>16. /\ mid[1] = harvest /\ mid[2] = queued /\ mid[3] = Records(rest)
       /\ mid[4] = Held /\ mid[5] = Coming /\ mid[6] = Leaving
  BY DEF Six
<1> HIDE DEF mid
<1>17. Passed(mid, Flow)
  <2>1. mid[1] = Flow[1] /\ mid[4] = Flow[4] /\ mid[5] = Flow[5] /\ mid[6] = Flow[6]
    BY <1>1, <1>16 DEF FlowTyped
  <2>2. \A q \in 1..6 : q # 2 /\ q # 3 => mid[q] = Flow[q]
    BY <2>1, SixNumbers
  <2>3. Flow[2] = answer_queue /\ Flow[3] = Records(s)
    BY <1>1, <1>8 DEF FlowTyped
  <2>4. k \in 0..Len(Flow[3]) /\ Len(mid[2]) = Len(Flow[2]) + k /\ Len(mid[3]) = Len(Flow[3]) - k
    BY <1>11, <1>12, <1>14, <1>16, <2>3
  <2>5. \A n \in 1..Len(Flow[2]) : mid[2][n] = Flow[2][n]
    BY <1>14, <1>16, <2>3
  <2>6. \A n \in 1..k : mid[2][Len(Flow[2]) + n] = Flow[3][n]
    <3>1. \A n \in 1..k : Records(first)[n] = Records(s)[n]
      <4> SUFFICES ASSUME NEW n \in 1..k
                   PROVE  Records(first)[n] = Records(s)[n]
        OBVIOUS
      <4>1. n \in 1..Len(s)
        BY <1>11
      <4> QED
        BY <1>11, <1>12, <4>1
    <3> QED
      BY <1>14, <1>16, <2>3, <3>1
  <2>7. \A n \in 1..Len(Flow[3]) - k : mid[3][n] = Flow[3][n + k]
    BY <1>11, <1>12, <1>16, <2>3
  <2>8. Moved(mid, Flow, 2, k)
    BY <2>2, <2>4, <2>5, <2>6, <2>7 DEF Moved
  <2> QED
    BY <1>13, <1>15, <2>8, MovedPasses
<1>18. Passed(Flow', mid)
  <2>1. (Flow')[2] = Append(mid[2], NoRecord) /\ (Flow')[3] = <<>>
    BY <1>1, <1>8, <1>10, <1>14, <1>16 DEF FlowTyped, queued
  <2>2. From((Flow')[2], mid[2]) /\ From((Flow')[3], mid[3])
    BY <1>12, <1>14, <1>16, <2>1, FromSome
  <2>3. /\ From((Flow')[1], mid[1]) /\ From((Flow')[4], mid[4])
        /\ From((Flow')[5], mid[5]) /\ From((Flow')[6], mid[6])
    BY <1>1, <1>9, <1>13, <1>16, FromSome DEF FlowTyped
  <2>4. Thinned(Flow', mid)
    <3> SUFFICES ASSUME NEW p \in 1..6
                 PROVE  From((Flow')[p], mid[p])
      BY DEF Thinned
    <3> QED
      BY <2>2, <2>3, SixNumbers
  <2> QED
    BY <1>13, <1>15, <2>4, DroppedPasses
<1> QED
  BY <1>17, <1>18, PassedTwice

LEMMA HandlerEndsFlow ==
    ASSUME SessionTypes, SessionTypes', NEW c \in 1..Len(wire), HandlerEnds(c),
           UNCHANGED processVars
    PROVE  Passed(Flow', Flow)
<1>0. wire \in Seq(End) /\ Len(wire) \in Nat /\ Len(wire) <= MaxConnections
  BY DEF SessionTypes
<1>1. handler \in [1..MaxConnections -> {"none", "reading", "closed"}]
  BY DEF SessionTypes, SessionTypeOK, ServerTypeOK
<1>2. c \in 1..MaxConnections /\ Current \in 1..Len(wire)
  BY <1>0, MaxConnectionsAssumption DEF Current
<1>3. Put(c, wire[c].to_app, wire[c].to_server, wire[c].app, "closed", wire[c].reset)
  BY <1>0, ServerClosesPut DEF HandlerEnds
<1>4. handler' = [handler EXCEPT ![c] = "closed"]
  BY DEF HandlerEnds
<1>5. /\ wire # <<>> /\ wire' # <<>> /\ Current' = Current
      /\ wire'[Current].to_app = wire[Current].to_app
      /\ wire'[Current].to_server = wire[Current].to_server
  BY <1>3, CurrentPut
<1>6. UNCHANGED <<harvest, Held, Leaving, Coming>>
  BY <1>5 DEF HandlerEnds, processVars, Held, Leaving, Coming
<1>7. Sent' = Sent \/ Sent' = <<>>
  <2>1. CASE c = Current
    <3>1. handler'[Current] = "closed"
      BY <1>1, <1>2, <1>4, <2>1
    <3> QED
      BY <1>5, <3>1 DEF Sent
  <2>2. CASE c # Current
    <3>1. handler'[Current] = handler[Current]
      BY <1>1, <1>4, <2>2
    <3> QED
      BY <1>5, <3>1 DEF Sent
  <2> QED
    BY <2>1, <2>2
<1>8. answer_queue' = Append(answer_queue, NoRecord)
  <2>1. answer_queue' = answer_queue \o <<>> \o <<NoRecord>>
    BY DEF HandlerEnds, HandlerCloses
  <2>2. NoRecord \in QueueItem
    BY DEF NoRecord, QueueItem
  <2>3. answer_queue \o <<>> = answer_queue
    BY PartsTyped, ConcatEmptySeq
  <2>4. Append(answer_queue, NoRecord) = answer_queue \o <<NoRecord>>
    BY <2>2, PartsTyped, AppendIsConcat
  <2> QED
    BY <2>1, <2>3, <2>4
<1> QED
  BY <1>6, <1>7, <1>8, PartsTyped, FromSome, FlowThins

\* The steps of the server keep the order of the names.
LEMMA CoroutineFlow ==
    ASSUME SessionTypes, SessionTypes', WireInv, ServerCoroutine, UNCHANGED processVars
    PROVE  Passed(Flow', Flow)
<1>0. wire \in Seq(End) /\ Len(wire) \in Nat /\ Len(wire) <= MaxConnections
  BY DEF SessionTypes
<1>1. CASE CommitResumes
  <2>1. UNCHANGED <<harvest, answer_queue, Sent, Coming, Held>>
    BY <1>1, WireParts DEF CommitResumes, processVars, Held
  <2>2. draining.then # "draining"
    BY DEF SessionTypes, SessionTypeOK, ServerTypeOK
  <2>3. Leaving' = Leaving
    BY <1>1, <2>2 DEF CommitResumes, CommitReturns, Leaving
  <2> QED
    BY <2>1, <2>3, FlowRests
<1>2. CASE CommitRaises
  <2>1. UNCHANGED <<harvest, answer_queue, Sent, Coming, Held>>
    BY <1>2, WireParts DEF CommitRaises, processVars, Held
  <2>2. Leaving' = <<>>
    BY <1>2 DEF CommitRaises, Leaving
  <2> QED
    BY <2>1, <2>2, PartsTyped, FromSome, FlowThins
<1>3. CASE ReceiveTimesOut
  <2>1. UNCHANGED <<answer_queue, Sent, Coming, Held, Leaving>>
    BY <1>3, WireParts DEF ReceiveTimesOut, processVars, Held, Leaving
  <2>2. harvest' = Append(harvest, NoRecord)
    BY <1>3 DEF ReceiveTimesOut
  <2> QED
    BY <2>1, <2>2, PartsTyped, FromSome, FlowThins
<1>4. ASSUME NEW c \in 1..Len(wire), _on_client_connect(c)
      PROVE  Passed(Flow', Flow)
  <2>1. Current \in 1..Len(wire) /\ Current \in 1..MaxConnections /\ c \in 1..MaxConnections
    BY <1>0, MaxConnectionsAssumption DEF Current
  <2>2. handler \in [1..MaxConnections -> {"none", "reading", "closed"}]
    BY DEF SessionTypes, SessionTypeOK, ServerTypeOK
  <2>3. handler'[Current] = "closed" <=> handler[Current] = "closed"
    BY <1>4, <2>1, <2>2 DEF _on_client_connect
  <2>4. UNCHANGED <<wire, harvest, answer_queue, Held, Leaving>>
    BY <1>4 DEF _on_client_connect, processVars, Held, Leaving
  <2>5. Sent' = Sent /\ Coming' = Coming
    BY <2>3, <2>4, WireParts
  <2> QED
    BY <2>4, <2>5, FlowRests
<1> QED
  BY <1>1, <1>2, <1>3, <1>4, BufferFlushesFlow, ReceiveItemFlow, HandlerReadsLineFlow,
     HandlerOrphanedFlow, HandlerEndsFlow DEF ServerCoroutine

\* So do those of the application and the network.
LEMMA ApplicationFlow ==
    ASSUME SessionTypes, SessionTypes', Application \/ \E c \in 1..Len(wire) : NetworkResets(c)
    PROVE  Passed(Flow', Flow)
<1>0. /\ wire \in Seq(End) /\ Len(wire) \in Nat
      /\ app_queue \in Seq(AnyFrame)
  BY DEF SessionTypes
<1>1. UNCHANGED <<harvest, answer_queue, handler, Leaving, serverVars>>
  BY DEF Application, NetworkResets, serverVars, Leaving
<1>2. CASE AppConnects \/ ExitedConnects
  <2>0. PICK app_end \in {"open", "closed"} : Open(app_end)
    BY <1>2 DEF AppConnects, ExitedConnects
  <2>1. /\ wire' \in Seq(End) /\ Len(wire') = Len(wire) + 1
        /\ wire'[Len(wire')] = [to_app |-> <<>>, to_server |-> <<>>, app |-> app_end,
                                server |-> "open", reset |-> FALSE]
    BY <1>0, <2>0, Opened
  <2>2. wire'[Current'].to_server = <<>> /\ wire'[Current'].to_app = <<>>
    BY <2>1 DEF Current
  <2>3. Records(<<>>) = <<>> /\ Frames(<<>>) = <<>>
    BY DEF Records, Frames
  <2>4. Sent' = <<>> /\ Coming' = <<>>
    BY <2>2, <2>3 DEF Sent, Coming
  <2>5. Held' = Held
    BY <1>2 DEF AppConnects, ExitedConnects, Held
  <2> QED
    BY <1>1, <2>4, <2>5, PartsTyped, FromSome, FlowThins
<1>3. CASE AppExits \/ AppDisconnects
  <2>1. AppConnected => Current \in 1..Len(wire)
    BY <1>0, ConnectedCurrent
  <2>2. Sent' = Sent /\ Coming' = Coming
    <3>1. CASE wire' = wire
      BY <1>1, <3>1, WireParts
    <3>2. CASE wire' # wire
      <4>1. AppConnected /\ AppCloses(Current)
        BY <1>0, <1>3, <3>2, ProcessGoneWires DEF AppExits, AppDisconnects
      <4>2. Put(Current, wire[Current].to_app, wire[Current].to_server, "closed",
                wire[Current].server, wire[Current].reset)
        BY <1>0, <2>1, <4>1, AppClosesPut
      <4>3. /\ wire # <<>> /\ wire' # <<>> /\ Current' = Current
            /\ wire'[Current].to_app = wire[Current].to_app
            /\ wire'[Current].to_server = wire[Current].to_server
        BY <2>1, <4>1, <4>2, CurrentPut
      <4> QED
        BY <1>1, <4>3 DEF Sent, Coming
    <3> QED
      BY <3>1, <3>2
  <2>3. Held' = Held \/ Held' = <<>>
    <3>1. app_queue' = app_queue \/ app_queue' = <<>>
      BY <1>0, <1>3, ProcessGoneWires DEF AppExits, AppDisconnects
    <3>2. Records(<<>>) = <<>>
      BY DEF Records
    <3> QED
      BY <3>1, <3>2 DEF Held
  <2> QED
    BY <1>1, <2>2, <2>3, PartsTyped, FromSome, FlowThins
<1>4. CASE AppLoses
  <2>1. PICK k \in 1..Len(app_queue) : app_queue' = Without(k)
    BY <1>4 DEF AppLoses
  <2>2. From(Held', Held)
    <3>1. k \in 0..Len(app_queue)
      BY <1>0
    <3> QED
      BY <1>0, <2>1, <3>1, WithoutFrom
  <2>3. Sent' = Sent /\ Coming' = Coming
    BY <1>1, <1>4, WireParts DEF AppLoses
  <2> QED
    BY <1>1, <2>2, <2>3, PartsTyped, FromSome, FlowThins
<1>5. CASE ExitedReads
  <2>1. Current \in 1..Len(wire) /\ wire[Current].to_app # <<>>
    BY <1>0, <1>5 DEF ExitedReads, Current
  <2>2. /\ wire[Current].to_app \in Seq(Sending)
        /\ Tail(wire[Current].to_app) \in Seq(Sending)
    BY <1>0, <2>1, EndFields
  <2>3. wire' = [wire EXCEPT ![Current].to_app = Tail(wire[Current].to_app)]
    BY <1>5 DEF ExitedReads
  <2>4. Put(Current, Tail(wire[Current].to_app), wire[Current].to_server, wire[Current].app,
            wire[Current].server, wire[Current].reset)
    BY <1>0, <2>1, <2>2, <2>3, ToAppPut
  <2>5. /\ wire # <<>> /\ wire' # <<>> /\ Current' = Current
        /\ wire'[Current].to_app = Tail(wire[Current].to_app)
        /\ wire'[Current].to_server = wire[Current].to_server
    BY <2>1, <2>4, CurrentPut
  <2>6. Sent' = Sent /\ Held' = Held
    BY <1>1, <1>5, <2>5 DEF Sent, Held, ExitedReads
  <2> DEFINE coming == Frames(wire[Current].to_app)
  <2>7. /\ coming \in Seq(AnyFrame) /\ coming # <<>>
        /\ Tail(coming) = Frames(Tail(wire[Current].to_app))
    BY <2>1, <2>2, FramesOf
  <2>8. Coming = Records(coming) /\ Coming' = Records(Tail(coming))
    BY <2>5, <2>7 DEF Coming
  <2> HIDE DEF coming
  <2>9. Coming # <<>> /\ Coming' = Tail(Coming)
    BY <2>7, <2>8, RecordsOf, RecordTypes
  <2> QED
    BY <1>1, <2>6, <2>9, PartsTyped, FromSome, FlowThins
<1>6. CASE \E c \in 1..Len(wire) : NetworkResets(c)
  <2>1. PICK c \in 1..Len(wire) : NetworkResets(c)
    BY <1>6
  <2>2. Put(c, <<>>, <<>>, wire[c].app, wire[c].server, TRUE)
    BY <1>0, <2>1, ResetPut DEF NetworkResets
  <2>3. /\ wire # <<>> /\ wire' # <<>> /\ Current' = Current
        /\ c # Current => wire'[Current] = wire[Current]
        /\ c = Current => wire'[Current].to_app = <<>> /\ wire'[Current].to_server = <<>>
    BY <2>2, CurrentPut
  <2>4. Records(<<>>) = <<>> /\ Frames(<<>>) = <<>>
    BY DEF Records, Frames
  <2>5. Sent' = Sent \/ Sent' = <<>>
    BY <1>1, <2>3, <2>4 DEF Sent
  <2>6. Coming' = Coming \/ Coming' = <<>>
    BY <1>1, <2>3, <2>4 DEF Coming
  <2>7. Held' = Held
    BY <2>1 DEF NetworkResets, Held
  <2> QED
    BY <1>1, <2>5, <2>6, <2>7, PartsTyped, FromSome, FlowThins
<1> QED
  BY <1>1, <1>2, <1>3, <1>4, <1>5, <1>6, AppReadsFlow, AppAnswersFlow
     DEF Application, RemoteAppStep

\* And those of the tools that write no frame.
LEMMA ToolFlow ==
    ASSUME SessionTypes, SessionTypes',
           \/ LaunchBegins \/ LaunchSpawns \/ LaunchFails \/ LaunchReturns
           \/ \E type \in Commands : fcommand(type)
           \/ fcommand_discard_frame_set
           \/ blocking_wait_next_fcommand_response
           \/ ShutdownRefused
           \/ ShutdownReturns
    PROVE  Passed(Flow', Flow)
<1>0. wire \in Seq(End)
  BY DEF SessionTypes
<1>1. UNCHANGED <<harvest, answer_queue, handler>>
  BY DEF LaunchBegins, LaunchSpawns, LaunchFails, LaunchReturns, fcommand, add_command,
         fcommand_discard_frame_set, discard_staged, blocking_wait_next_fcommand_response,
         ShutdownRefused, ShutdownReturns, serverVars
<1>2. Leaving' = Leaving
  BY DEF LaunchBegins, LaunchSpawns, LaunchFails, LaunchReturns, fcommand, add_command,
         fcommand_discard_frame_set, discard_staged, blocking_wait_next_fcommand_response,
         ShutdownRefused, ShutdownReturns, serverVars, Leaving
<1>3. UNCHANGED <<app_queue, wire>> \/ ProcessGone
  BY DEF LaunchBegins, LaunchSpawns, LaunchFails, LaunchReturns, fcommand, add_command,
         fcommand_discard_frame_set, discard_staged, blocking_wait_next_fcommand_response,
         ShutdownRefused, ShutdownReturns, processVars
<1>4. Held' = Held \/ Held' = <<>>
  BY <1>3 DEF ProcessGone, Held, Records
<1>5. Sent' = Sent /\ Coming' = Coming
  <2>1. CASE wire' = wire
    BY <1>1, <2>1, WireParts
  <2>2. CASE wire' # wire
    <3>1. AppConnected /\ AppCloses(Current)
      BY <1>3, <2>2 DEF ProcessGone
    <3>2. Current \in 1..Len(wire)
      BY <1>0, <3>1, ConnectedCurrent
    <3>3. Put(Current, wire[Current].to_app, wire[Current].to_server, "closed",
              wire[Current].server, wire[Current].reset)
      BY <1>0, <3>1, <3>2, AppClosesPut
    <3>4. /\ wire # <<>> /\ wire' # <<>> /\ Current' = Current
          /\ wire'[Current].to_app = wire[Current].to_app
          /\ wire'[Current].to_server = wire[Current].to_server
      BY <3>2, <3>3, CurrentPut
    <3> QED
      BY <1>1, <3>4 DEF Sent, Coming
  <2> QED
    BY <2>1, <2>2
<1> QED
  BY <1>1, <1>2, <1>4, <1>5, PartsTyped, FromSome, FlowThins

LEMMA UnwrittenFlow ==
    ASSUME SessionTypes, SessionTypes', WireInv, Unwritten
    PROVE  Passed(Flow', Flow)
<1>1. CASE UNCHANGED sessionVars
  <2>1. UNCHANGED <<harvest, answer_queue, Held, Leaving, wire, handler>>
    BY <1>1 DEF sessionVars, serverVars, processVars, Held, Leaving
  <2>2. Sent' = Sent /\ Coming' = Coming
    BY <2>1, WireParts
  <2> QED
    BY <2>1, <2>2, FlowRests
<1> QED
  BY <1>1, ToolFlow, CoroutineFlow, ApplicationFlow DEF Unwritten

-----------------------------------------------------------------------------
(* Order.                                                                  *)

\* The names that may still be harvested: commits, and the one being drained.
Draining == <<draining.tag, draining.id>>
Known == IF call = "draining" THEN Append(commits, Draining) ELSE commits

KnownInv ==
    /\ \A i \in 1..Len(Known) : \E j \in 1..Len(written) : written[j] = Known[i]
    /\ \A i, j \in 1..Len(Known) : Known[i] = Known[j] => i = j

\* Whatever travels was written, and is a commit or being drained; it travels in
\* the order in which it was written, which is the order of the commits.
FlowInv ==
    /\ KnownInv
    /\ Ordered(written, Flow)
    /\ Ordered(Known, Flow)

LEMMA FlowInvInit == SessionInit => FlowInv
<1> HAVE SessionInit
<1>1. /\ harvest = <<>> /\ answer_queue = <<>> /\ Sent = <<>> /\ Held = <<>>
      /\ Coming = <<>> /\ Leaving = <<>>
  BY DEF SessionInit, ServerInit, WireInit, Sent, Held, Coming, Leaving, Records
<1>2. \A p \in 1..6 : Flow[p] = <<>>
  BY <1>1 DEF Flow, Six
<1>3. \A p \in 1..6 : \A n \in 1..Len(Flow[p]) : FALSE
  BY <1>2
<1>4. Ordered(written, Flow) /\ Ordered(Known, Flow)
  BY <1>3 DEF Ordered, Listed, Rising
<1>5. Known = <<>>
  BY DEF SessionInit, ServerInit, Known
<1> QED
  BY <1>4, <1>5 DEF FlowInv, KnownInv

LEMMA KnownTypes ==
    ASSUME SessionTypes
    PROVE  /\ Known \in Seq(Name) /\ written \in Seq(Name) /\ commits \in Seq(Name)
           /\ Draining \in Name
           /\ Len(Known) \in Nat /\ Len(written) \in Nat /\ Len(commits) \in Nat
<1>1. written \in Seq(Name) /\ commits \in Seq(Name)
  BY DEF SessionTypes, SessionTypeOK, ServerTypeOK
<1>2. Draining \in Name
  BY DEF SessionTypes, SessionTypeOK, ServerTypeOK, Draining, Name
<1> QED
  BY <1>1, <1>2 DEF Known

\* A step that writes nothing knows the same names, or forgets the one whose
\* drain() raised.
LEMMA UnwrittenKnown ==
    ASSUME SessionTypes, Unwritten
    PROVE  Known' = Known \/ CommitRaises
<1>1. CASE ServerCoroutine
  <2>1. CASE CommitResumes
    <3>1. draining.then # "draining"
      BY DEF SessionTypes, SessionTypeOK, ServerTypeOK
    <3> QED
      BY <2>1, <3>1 DEF CommitResumes, CommitReturns, Known, Draining
  <2>2. CASE BufferFlushes
    <3>1. draining'.tag = draining.tag /\ draining'.id = draining.id
      BY <2>2 DEF BufferFlushes, SessionTypes, SessionTypeOK, ServerTypeOK
    <3> QED
      BY <2>2, <3>1 DEF BufferFlushes, Known, Draining
  <2>3. CASE ~CommitResumes /\ ~BufferFlushes
    BY <1>1, <2>3 DEF ServerCoroutine, ReceiveItem, ReceiveTimesOut, _on_client_connect,
       HandlerReadsLine, HandlerOrphaned, HandlerEnds, Known, Draining
  <2> QED
    BY <2>1, <2>2, <2>3
<1>2. CASE Application \/ \E c \in 1..Len(wire) : NetworkResets(c)
  BY <1>2 DEF Application, NetworkResets, serverVars,
              Known, Draining
<1>3. CASE ~ServerCoroutine /\ ~Application /\ ~(\E c \in 1..Len(wire) : NetworkResets(c))
  BY <1>3 DEF Unwritten, LaunchBegins, LaunchSpawns, LaunchFails, LaunchReturns, fcommand,
              add_command, fcommand_discard_frame_set, discard_staged,
              blocking_wait_next_fcommand_response, ShutdownRefused, ShutdownReturns,
              sessionVars, serverVars, Known, Draining
<1> QED
  BY <1>1, <1>2, <1>3

\* When drain() raises, the frame that waited is nowhere else.
LEMMA CommitRaisesOrder ==
    ASSUME SessionTypes, SessionTypes', WireInv, FlowInv, CommitRaises, UNCHANGED processVars
    PROVE  FlowInv'
<1>1. Known = Append(commits, Draining) /\ Known' = commits /\ written' = written
  BY DEF CommitRaises, Known
<1>2. /\ Len(commits) \in Nat /\ Len(Known) = Len(commits) + 1
      /\ \A i \in 1..Len(commits) : Known[i] = commits[i]
      /\ Known[Len(Known)] = Draining
  BY <1>1, KnownTypes
<1>3. \A i \in 1..Len(commits) : i \in 1..Len(Known)
  BY <1>2
<1>4. KnownInv'
  <2>1. \A i \in 1..Len(commits) : \E j \in 1..Len(written) : written[j] = commits[i]
    BY <1>2, <1>3 DEF FlowInv, KnownInv
  <2>2. \A i, j \in 1..Len(commits) : commits[i] = commits[j] => i = j
    BY <1>2, <1>3 DEF FlowInv, KnownInv
  <2> QED
    BY <1>1, <2>1, <2>2 DEF KnownInv
<1>5. Unwritten
  BY DEF Unwritten, ServerCoroutine
<1>6. Passed(Flow', Flow)
  BY <1>5, UnwrittenFlow
<1>7. Ordered(written, Flow') /\ Ordered(Known, Flow')
  BY <1>6, KnownTypes DEF Passed, FlowInv
<1>8. FlowTyped /\ FlowTyped'
  BY FlowParts, FlowPartsNext
<1>9. UNCHANGED <<harvest, answer_queue, Sent, Coming, Held>>
  BY WireParts DEF CommitRaises, processVars, Held
<1>10. Leaving = <<Record(draining)>> /\ Leaving' = <<>>
  BY DEF CommitRaises, Leaving
<1>11. /\ (Flow')[1] = Flow[1] /\ (Flow')[2] = Flow[2] /\ (Flow')[3] = Flow[3]
       /\ (Flow')[4] = Flow[4] /\ (Flow')[5] = Flow[5] /\ (Flow')[6] = <<>>
       /\ Flow[6] = <<Record(draining)>>
  BY <1>8, <1>9, <1>10 DEF FlowTyped
<1>12. Listed(commits, Flow')
  <2> SUFFICES ASSUME NEW p \in 1..6, NEW n \in 1..Len((Flow')[p]), (Flow')[p][n].record
               PROVE  \E i \in 1..Len(commits) : commits[i] = ItemName((Flow')[p][n])
    BY DEF Listed
  <2>1. p # 6
    <3>1. Len((Flow')[6]) = 0
      BY <1>11
    <3> QED
      BY <3>1
  <2>2. (Flow')[p] = Flow[p]
    BY <1>11, <2>1, SixNumbers
  <2>3. PICK i \in 1..Len(Known) : Known[i] = ItemName((Flow')[p][n])
    BY <1>7 DEF Ordered, Listed
  <2>4. i # Len(Known)
    <3> SUFFICES ASSUME i = Len(Known)
                 PROVE  FALSE
      OBVIOUS
    <3>1. Rising(Known, Flow)
      BY DEF FlowInv, Ordered
    <3>2. /\ 1 \in 1..Len(Flow[6]) /\ Flow[6][1].record
          /\ ItemName(Flow[6][1]) = Known[i]
      BY <1>2, <1>11 DEF Record, ItemName, Draining
    <3>3. n \in 1..Len(Flow[p]) /\ Flow[p][n].record /\ Known[i] = ItemName(Flow[p][n])
      BY <2>2, <2>3
    <3>4. p < 6 /\ 6 \in 1..6
      BY <2>1
    <3>5. i < i
      BY <3>1, <3>2, <3>3, <3>4, RisingAt
    <3> QED
      BY <3>5
  <2>5. i \in 1..Len(commits)
    BY <1>2, <2>4
  <2> QED
    BY <1>2, <2>3, <2>5
<1>13. Rising(commits, Flow')
  <2> SUFFICES ASSUME NEW p \in 1..6, NEW q \in 1..6,
                      NEW m \in 1..Len((Flow')[p]), NEW n \in 1..Len((Flow')[q]),
                      p < q \/ (p = q /\ m < n), (Flow')[p][m].record, (Flow')[q][n].record,
                      NEW i \in 1..Len(commits), NEW j \in 1..Len(commits),
                      commits[i] = ItemName((Flow')[p][m]), commits[j] = ItemName((Flow')[q][n])
               PROVE  i < j
    BY DEF Rising
  <2>1. /\ i \in 1..Len(Known) /\ j \in 1..Len(Known)
        /\ Known[i] = ItemName((Flow')[p][m]) /\ Known[j] = ItemName((Flow')[q][n])
    BY <1>2, <1>3
  <2>2. Rising(Known, Flow')
    BY <1>7 DEF Ordered
  <2> QED
    BY <2>1, <2>2, RisingAt
<1> QED
  BY <1>1, <1>4, <1>7, <1>12, <1>13 DEF FlowInv, Ordered

LEMMA UnwrittenOrder ==
    ASSUME SessionTypes, SessionTypes', WireInv, FlowInv, Unwritten
    PROVE  FlowInv'
<1>1. written' = written
  BY UnwrittenNames
<1>2. CASE Known' = Known
  <2>1. Passed(Flow', Flow)
    BY UnwrittenFlow
  <2>2. Ordered(written, Flow') /\ Ordered(Known, Flow')
    BY <2>1, KnownTypes DEF Passed, FlowInv
  <2>3. KnownInv'
    BY <1>1, <1>2 DEF FlowInv, KnownInv
  <2> QED
    BY <1>1, <1>2, <2>2, <2>3 DEF FlowInv
<1>3. CASE CommitRaises /\ UNCHANGED processVars
  BY <1>3, CommitRaisesOrder
<1>4. CASE CommitRaises /\ ~UNCHANGED processVars
  <2>1. call = "draining" /\ call' = "idle"
    BY <1>4 DEF CommitRaises
  <2> QED
    BY <1>4, <2>1 DEF Unwritten, LaunchBegins, LaunchSpawns, LaunchFails, LaunchReturns,
       fcommand, fcommand_discard_frame_set, blocking_wait_next_fcommand_response,
       ShutdownRefused, ShutdownReturns, Application, NetworkResets, serverVars, sessionVars
<1> QED
  BY <1>2, <1>3, <1>4, UnwrittenKnown

\* A new name joins the list, and its frame follows all others, or goes nowhere.
LEMMA NewNameJoins ==
    ASSUME NEW list \in Seq(Name), NEW name \in Name, \A i \in 1..Len(list) : list[i] # name,
           NEW old \in Parts, NEW new \in Parts, NEW p \in 1..6, NEW item \in QueueItem,
           ItemName(item) = name, Ordered(list, old), new = old \/ Joined(new, old, p, item)
    PROVE  Ordered(Append(list, name), new)
<1> DEFINE longer == Append(list, name)
<1>1. Ordered(longer, old)
  BY ListGrows
<1>2. /\ Len(list) \in Nat /\ Len(longer) = Len(list) + 1
      /\ \A i \in 1..Len(list) : longer[i] = list[i]
      /\ longer[Len(list) + 1] = name
  OBVIOUS
<1> HIDE DEF longer
<1>3. Newest(longer, old, ItemName(item))
  <2>1. longer[Len(longer)] = name
    BY <1>2
  <2>2. ASSUME NEW i \in 1..Len(longer), longer[i] = name
        PROVE  i = Len(longer)
    <3>1. i \in 1..Len(list) \/ i = Len(longer)
      BY <1>2
    <3> QED
      BY <1>2, <2>2, <3>1
  <2>3. ASSUME NEW q \in 1..6, NEW n \in 1..Len(old[q]), old[q][n].record
        PROVE  ItemName(old[q][n]) # name
    BY <2>3 DEF Ordered, Listed
  <2> QED
    BY <2>1, <2>2, <2>3 DEF Newest
<1>4. Len(longer) \in Nat \ {0}
  BY <1>2
<1>5. CASE new = old
  BY <1>1, <1>5 DEF longer
<1>6. CASE Joined(new, old, p, item)
  <2>1. Ordered(longer, new)
    BY <1>1, <1>3, <1>4, <1>6, LastJoins
  <2> QED
    BY <2>1 DEF longer
<1> QED
  BY <1>5, <1>6

\* A part's new contents, all else as before.
LEMMA FlowJoins ==
    ASSUME FlowTyped, FlowTyped', NEW item,
           UNCHANGED <<harvest, answer_queue, Sent, Held>>, Leaving = <<>>,
           \/ Coming' = Append(Coming, item) /\ Leaving' = <<>>
           \/ Coming' = Coming /\ Leaving' = <<item>>
           \/ Coming' = Coming /\ Leaving' = <<>>
    PROVE  Flow' = Flow \/ \E p \in 1..6 : Joined(Flow', Flow, p, item)
<1>1. /\ (Flow')[1] = Flow[1] /\ (Flow')[2] = Flow[2]
      /\ (Flow')[3] = Flow[3] /\ (Flow')[4] = Flow[4]
      /\ Flow[5] = Coming /\ (Flow')[5] = Coming'
      /\ Flow[6] = <<>> /\ (Flow')[6] = Leaving'
  BY DEF FlowTyped
<1>2. /\ Flow = [q \in 1..6 |-> Flow[q]]
      /\ Flow' = [q \in 1..6 |-> (Flow')[q]]
  BY DEF FlowTyped, Parts
<1>3. CASE Coming' = Coming /\ Leaving' = <<>>
  <2>1. \A q \in 1..6 : (Flow')[q] = Flow[q]
    BY <1>1, <1>3, SixNumbers
  <2> QED
    BY <1>2, <2>1
<1>4. CASE Coming' = Append(Coming, item) /\ Leaving' = <<>>
  <2> DEFINE joined == [Flow EXCEPT ![5] = Append(Flow[5], item)]
  <2>1. \A q \in 1..6 : (Flow')[q] = joined[q]
    BY <1>1, <1>2, <1>4, SixNumbers
  <2>2. joined = [q \in 1..6 |-> joined[q]]
    BY <1>2
  <2>3. Flow' = joined
    BY <1>2, <2>1, <2>2
  <2>4. \A q \in 1..6 : q > 5 => Flow[q] = <<>>
    BY <1>1, SixNumbers
  <2>5. Joined(Flow', Flow, 5, item)
    BY <2>3, <2>4 DEF Joined
  <2> QED
    BY <2>5
<1>5. CASE Coming' = Coming /\ Leaving' = <<item>>
  <2> DEFINE joined == [Flow EXCEPT ![6] = Append(Flow[6], item)]
  <2>1. Append(<<>>, item) = <<item>>
    OBVIOUS
  <2>2. \A q \in 1..6 : (Flow')[q] = joined[q]
    BY <1>1, <1>2, <1>5, <2>1, SixNumbers
  <2>3. joined = [q \in 1..6 |-> joined[q]]
    BY <1>2
  <2>4. Flow' = joined
    BY <1>2, <2>2, <2>3
  <2>5. \A q \in 1..6 : ~(q > 6)
    OBVIOUS
  <2>6. Joined(Flow', Flow, 6, item)
    BY <2>4, <2>5 DEF Joined
  <2> QED
    BY <2>6
<1> QED
  BY <1>3, <1>4, <1>5

NewName == <<session_tag, net_id>>
NewItem == [tag |-> session_tag, id |-> net_id, record |-> TRUE]

\* A frame that is written is the last that travels, if it travels at all.
LEMMA CommitFlow ==
    ASSUME SessionTypes, SessionTypes', WireInv, Commits
    PROVE  Flow' = Flow \/ \E p \in 1..6 : Joined(Flow', Flow, p, NewItem)
<1>0. /\ wire \in Seq(End) /\ Len(wire) \in Nat
      /\ session_tag \in Nat /\ net_id \in Nat /\ client \in 0..Len(wire)
  BY DEF SessionTypes, SessionTypeOK, ServerTypeOK
<1>1. FlowTyped /\ FlowTyped'
  BY FlowParts, FlowPartsNext
<1>2. PICK body \in Body, then \in {"idle", "exiting"} :
        /\ call = "idle"
        /\ CommitAtOnce(body, then) \/ CommitSuspends(body, then)
        /\ OrderlyCommit
  BY DEF Commits
<1>3. Leaving = <<>>
  BY <1>2 DEF Leaving
<1>4. UNCHANGED <<harvest, answer_queue, handler, Held>>
  BY <1>2 DEF CommitAtOnce, CommitSuspends, Held, OrderlyCommit
<1>5. CASE CommitAtOnce(body, then)
  <2> DEFINE line == LineOf(session_tag, net_id, body)
  <2>1. line \in Sending /\ Record(line.frame) = NewItem /\ line.frame \in AnyFrame
    BY <1>0 DEF LineOf, Sending, AnyFrame, Record, NewItem
  <2>2. client \in 1..Len(wire) /\ PutOnWire(client, LineOf(session_tag, net_id, body))
    BY <1>0, <1>5 DEF CommitAtOnce, CommitNames, NoConnection
  <2>3. Leaving' = <<>>
    BY <1>2, <1>5 DEF CommitAtOnce, CommitReturns, Leaving
  <2>4. CASE wire[client].reset \/ wire[client].server = "closed"
    <3>1. wire' = wire
      BY <1>0, <2>2, <2>4, PutOnWirePut
    <3>2. Sent' = Sent /\ Coming' = Coming
      BY <1>4, <3>1, WireParts
    <3> QED
      BY <1>1, <1>3, <1>4, <2>3, <3>2, FlowJoins
  <2>5. CASE ~(wire[client].reset \/ wire[client].server = "closed")
    <3>1. client = Current
      BY <1>0, <2>2, <2>5 DEF WireInv, Current
    <3>2. Put(Current, Append(wire[Current].to_app, LineOf(session_tag, net_id, body)),
              wire[Current].to_server, wire[Current].app, wire[Current].server,
              wire[Current].reset)
      BY <1>0, <2>2, <2>5, <3>1, PutOnWirePut
    <3>3. /\ wire # <<>> /\ wire' # <<>> /\ Current' = Current /\ Current \in 1..Len(wire)
          /\ wire'[Current].to_app = Append(wire[Current].to_app, line)
          /\ wire'[Current].to_server = wire[Current].to_server
      BY <2>2, <3>1, <3>2, CurrentPut
    <3> HIDE DEF line
    <3>4. Coming' = Append(Coming, NewItem)
      <4>1. wire[Current].to_app \in Seq(Sending)
        BY <1>0, <3>3, EndFields
      <4>2. /\ Frames(wire[Current].to_app) \in Seq(AnyFrame)
            /\ Frames(Append(wire[Current].to_app, line)) =
                 Append(Frames(wire[Current].to_app), line.frame)
        BY <2>1, <4>1, FramesOf
      <4>3. Records(Append(Frames(wire[Current].to_app), line.frame)) =
              Append(Records(Frames(wire[Current].to_app)), Record(line.frame))
        BY <2>1, <4>2, RecordsOf, RecordTypes
      <4> QED
        BY <2>1, <3>3, <4>2, <4>3 DEF Coming
    <3>5. Sent' = Sent
      BY <1>4, <3>3 DEF Sent
    <3> QED
      BY <1>1, <1>3, <1>4, <2>3, <3>4, <3>5, FlowJoins
  <2> QED
    BY <2>4, <2>5
<1>6. CASE CommitSuspends(body, then)
  <2>1. wire' = wire
    BY <1>6 DEF CommitSuspends
  <2>2. Sent' = Sent /\ Coming' = Coming
    BY <1>4, <2>1, WireParts
  <2>3. call' = "draining" /\ ~draining'.flushed /\ Record(draining') = NewItem
    BY <1>6 DEF CommitSuspends, Record, NewItem
  <2>4. Leaving' = <<NewItem>>
    BY <2>3 DEF Leaving, Record
  <2> QED
    BY <1>1, <1>3, <1>4, <2>2, <2>4, FlowJoins
<1> QED
  BY <1>2, <1>5, <1>6

LEMMA CommitKnown ==
    ASSUME SessionTypes, Commits
    PROVE  /\ NewName \in Name /\ ItemName(NewItem) = NewName /\ NewItem \in QueueItem
           /\ written' = Append(written, NewName)
           /\ Known' = Append(Known, NewName)
           /\ Known = commits
<1>0. session_tag \in Nat /\ net_id \in Nat
  BY DEF SessionTypes, SessionTypeOK, ServerTypeOK
<1>1. PICK body \in Body, then \in {"idle", "exiting"} :
        /\ call = "idle"
        /\ CommitAtOnce(body, then) \/ CommitSuspends(body, then)
  BY DEF Commits
<1>2. written' = Append(written, NewName) /\ Known = commits
  BY <1>1 DEF CommitAtOnce, CommitSuspends, CommitNames, NewName, Known
<1>3. Known' = Append(commits, NewName)
  <2>1. CASE CommitAtOnce(body, then)
    BY <2>1 DEF CommitAtOnce, CommitReturns, NewName, Known
  <2>2. CASE CommitSuspends(body, then)
    BY <2>2 DEF CommitSuspends, NewName, Known, Draining
  <2> QED
    BY <1>1, <2>1, <2>2
<1> QED
  BY <1>0, <1>2, <1>3 DEF NewName, NewItem, ItemName, Name, QueueItem

LEMMA CommitsOrder ==
    ASSUME SessionTypes, SessionTypes', NamesInv, WireInv, FlowInv, Commits
    PROVE  FlowInv'
<1>0. /\ Known \in Seq(Name) /\ written \in Seq(Name)
      /\ Len(Known) \in Nat /\ Len(written) \in Nat
  BY KnownTypes
<1>1. /\ NewName \in Name /\ ItemName(NewItem) = NewName /\ NewItem \in QueueItem
      /\ written' = Append(written, NewName) /\ Known' = Append(Known, NewName)
  BY CommitKnown
<1>2. Flow \in Parts /\ Flow' \in Parts
  BY FlowParts, FlowPartsNext DEF FlowTyped
<1>3. PICK p \in 1..6 : Flow' = Flow \/ Joined(Flow', Flow, p, NewItem)
  BY CommitFlow
<1>4. \A i \in 1..Len(written) : written[i] # NewName
  <2> SUFFICES ASSUME NEW i \in 1..Len(written), written[i] = NewName
               PROVE  FALSE
    OBVIOUS
  <2>1. written[i][1] = session_tag /\ written[i][2] = net_id
    BY DEF NewName
  <2>2. session_tag \in Nat /\ net_id \in Nat
    BY DEF SessionTypes, SessionTypeOK, ServerTypeOK
  <2> QED
    BY <2>1, <2>2 DEF NamesInv
<1>5. \A i \in 1..Len(Known) : Known[i] # NewName
  BY <1>4 DEF FlowInv, KnownInv
<1>6. Ordered(written, Flow) /\ Ordered(Known, Flow)
  BY DEF FlowInv
<1>7. Ordered(Append(written, NewName), Flow')
  BY <1>0, <1>1, <1>2, <1>3, <1>4, <1>6, NewNameJoins
<1>8. Ordered(Append(Known, NewName), Flow')
  BY <1>0, <1>1, <1>2, <1>3, <1>5, <1>6, NewNameJoins
<1>9. KnownInv'
  <2> DEFINE names == Append(Known, NewName)
             frames == Append(written, NewName)
  <2>1. /\ Len(names) = Len(Known) + 1 /\ names[Len(Known) + 1] = NewName
        /\ \A i \in 1..Len(Known) : names[i] = Known[i]
    BY <1>0
  <2>2. /\ Len(frames) = Len(written) + 1 /\ frames[Len(written) + 1] = NewName
        /\ \A i \in 1..Len(written) : frames[i] = written[i]
    BY <1>0
  <2> HIDE DEF names, frames
  <2>3. \A i \in 1..Len(names) : i \in 1..Len(Known) \/ i = Len(Known) + 1
    BY <1>0, <2>1
  <2>4. \A j \in 1..Len(written) : j \in 1..Len(frames)
    BY <1>0, <2>2
  <2>5. Len(written) + 1 \in 1..Len(frames)
    BY <1>0, <2>2
  <2>6. \A i \in 1..Len(names) : \E j \in 1..Len(frames) : frames[j] = names[i]
    BY <2>1, <2>2, <2>3, <2>4, <2>5 DEF FlowInv, KnownInv
  <2>7. \A i, j \in 1..Len(names) : names[i] = names[j] => i = j
    BY <1>5, <2>1, <2>3 DEF FlowInv, KnownInv
  <2> QED
    BY <1>1, <2>6, <2>7 DEF KnownInv, names, frames
<1> QED
  BY <1>1, <1>7, <1>8, <1>9 DEF FlowInv

LEMMA FlowInvStep ==
    ASSUME SessionTypes, SessionTypes', NamesInv, WireInv, FlowInv, [SessionNext]_sessionVars
    PROVE  FlowInv'
BY CommitsOrNot, UnwrittenOrder, CommitsOrder

\* What counts: an answer taken, a wait that timed out, a commit that returns.
LEMMA CountedStep ==
    ASSUME SessionTypes, [SessionNext]_sessionVars
    PROVE  \/ ReceiveItem \/ ReceiveTimesOut
           \/ \E name, then : CommitReturns(name, then) /\ harvest' = harvest
           \/ UNCHANGED <<commits, harvest, pending_count>>
<1>1. CASE Commits
  BY <1>1 DEF Commits, CommitAtOnce, CommitSuspends
<1>2. CASE ServerCoroutine
  BY <1>2 DEF ServerCoroutine, BufferFlushes, CommitResumes, CommitRaises, _on_client_connect,
              HandlerReadsLine, HandlerOrphaned, HandlerEnds
<1>3. CASE Application \/ \E c \in 1..Len(wire) : NetworkResets(c)
  BY <1>3 DEF Application, NetworkResets, serverVars
<1>4. CASE Unwritten /\ ~ServerCoroutine /\ ~Application
           /\ ~(\E c \in 1..Len(wire) : NetworkResets(c))
  BY <1>4 DEF Unwritten, LaunchBegins, LaunchSpawns, LaunchFails, LaunchReturns, fcommand,
              add_command, fcommand_discard_frame_set, discard_staged,
              blocking_wait_next_fcommand_response, ShutdownRefused, ShutdownReturns,
              sessionVars, serverVars
<1> QED
  BY <1>1, <1>2, <1>3, <1>4, CommitsOrNot

\* What was harvested answers frames whose commit_set had returned.
Committed ==
    \A k \in 1..Len(harvest) : harvest[k].record =>
        \E i \in 1..Len(commits) : commits[i] = ItemName(harvest[k])

LEMMA CommittedInit == SessionInit => Committed
BY DEF SessionInit, ServerInit, Committed

\* Only receive_next_answer harvests, and not while a commit is suspended.
LEMMA CommittedStep ==
    ASSUME SessionTypes, SessionTypes', FlowInv, Committed, [SessionNext]_sessionVars
    PROVE  Committed'
<1>0. harvest \in Seq(QueueItem) /\ answer_queue \in Seq(QueueItem) /\ commits \in Seq(Name)
  BY DEF SessionTypes, SessionTypeOK, ServerTypeOK
<1>1. CASE harvest' = harvest /\ commits' = commits
  BY <1>1 DEF Committed
<1>2. CASE harvest' = harvest /\ \E name, then : CommitReturns(name, then)
  <2>1. PICK name, then : CommitReturns(name, then)
    BY <1>2
  <2>2. commits' = Append(commits, name) /\ Len(commits) \in Nat
    BY <1>0, <2>1 DEF CommitReturns
  <2>3. /\ Len(commits') = Len(commits) + 1
        /\ \A i \in 1..Len(commits) : commits'[i] = commits[i]
    BY <1>0, <2>2
  <2>4. \A i \in 1..Len(commits) : i \in 1..Len(commits')
    BY <2>2, <2>3
  <2> QED
    BY <1>2, <2>3, <2>4 DEF Committed
<1>3. CASE ReceiveTimesOut
  <2>1. harvest' = Append(harvest, NoRecord) /\ commits' = commits
    BY <1>3 DEF ReceiveTimesOut
  <2>2. /\ Len(harvest') = Len(harvest) + 1 /\ Len(harvest) \in Nat
        /\ \A i \in 1..Len(harvest) : harvest'[i] = harvest[i]
        /\ harvest'[Len(harvest')] = NoRecord
    BY <1>0, <2>1
  <2>3. \A k \in 1..Len(harvest') : k \in 1..Len(harvest) \/ k = Len(harvest')
    BY <2>2
  <2>4. ~NoRecord.record
    BY DEF NoRecord
  <2> QED
    BY <2>1, <2>2, <2>3, <2>4 DEF Committed
<1>4. CASE ReceiveItem
  <2>1. /\ harvest' = Append(harvest, Head(answer_queue)) /\ commits' = commits
        /\ call = "waiting" /\ answer_queue # <<>>
    BY <1>4 DEF ReceiveItem
  <2>2. /\ Len(harvest') = Len(harvest) + 1 /\ Len(harvest) \in Nat
        /\ \A i \in 1..Len(harvest) : harvest'[i] = harvest[i]
        /\ harvest'[Len(harvest')] = Head(answer_queue)
    BY <1>0, <2>1
  <2>3. \A k \in 1..Len(harvest') : k \in 1..Len(harvest) \/ k = Len(harvest')
    BY <2>2
  <2>4. Head(answer_queue) = answer_queue[1] /\ 1 \in 1..Len(answer_queue)
    BY <1>0, <2>1
  <2>5. Flow[2] = answer_queue /\ 2 \in 1..6
    BY FlowParts DEF FlowTyped
  <2>6. Listed(Known, Flow) /\ Known = commits
    BY <2>1 DEF FlowInv, Ordered, Known
  <2>7. Head(answer_queue).record =>
          \E i \in 1..Len(commits) : commits[i] = ItemName(Head(answer_queue))
    BY <2>4, <2>5, <2>6 DEF Listed
  <2> QED
    BY <2>1, <2>2, <2>3, <2>7 DEF Committed
<1> QED
  BY <1>1, <1>2, <1>3, <1>4, CountedStep

\* For any number of commits, reconnects and relaunches: a name has one place at
\* a time between commit_set and receive_next_answer, places are left in the
\* order they are entered, and so answers are harvested in the order of the commits.
THEOREM HarvestOrdered == SessionSpec => []HarvestInCommitOrder
<1>1. SessionTypes /\ FlowInv /\ Committed => HarvestInCommitOrder
  <2> SUFFICES ASSUME SessionTypes, FlowInv, Committed
               PROVE  HarvestInCommitOrder
    OBVIOUS
  <2>1. Flow[1] = harvest /\ 1 \in 1..6
    BY FlowParts DEF FlowTyped
  <2>2. Rising(Known, Flow)
    BY DEF FlowInv, Ordered
  <2>3. \A i \in 1..Len(commits) : i \in 1..Len(Known) /\ Known[i] = commits[i]
    BY KnownTypes DEF Known
  <2>4. ASSUME NEW k \in 1..Len(harvest), NEW l \in 1..Len(harvest),
               NEW i \in 1..Len(commits), NEW j \in 1..Len(commits),
               k < l, harvest[k].record, harvest[l].record,
               commits[i] = ItemName(harvest[k]), commits[j] = ItemName(harvest[l])
        PROVE  i < j
    <3>1. /\ i \in 1..Len(Known) /\ j \in 1..Len(Known)
          /\ Known[i] = ItemName(harvest[k]) /\ Known[j] = ItemName(harvest[l])
      BY <2>3, <2>4
    <3> QED
      BY <2>1, <2>2, <2>4, <3>1, RisingAt
  <2> QED
    BY <2>4 DEF HarvestInCommitOrder, Committed
<1> QED
  BY SessionTypesInit, SessionTypesStep, NamesInit, NamesStep, WireInvInit, WireInvStep,
     FlowInvInit, FlowInvStep, CommittedInit, CommittedStep, <1>1, PTL DEF SessionSpec

-----------------------------------------------------------------------------
(* What pending_count covers.                                              *)

LEMMA OutstandingFinite ==
    ASSUME SessionTypes
    PROVE  IsFiniteSet(Outstanding) /\ Cardinality(Outstanding) \in Nat
<1>1. 1 \in Int /\ Len(commits) \in Int
  BY KnownTypes
<1>2. IsFiniteSet(1..Len(commits))
  BY <1>1, FS_Interval, Zenon
<1>3. Outstanding \subseteq 1..Len(commits)
  BY DEF Outstanding
<1> QED
  BY <1>2, <1>3, FS_Subset, FS_CardinalityType

LEMMA PendingInit == SessionInit => PendingCoversCommits
<1> HAVE SessionInit
<1>1. Outstanding = {} /\ pending_count = 0
  BY DEF SessionInit, ServerInit, Outstanding
<1> QED
  BY <1>1, FS_EmptySet DEF PendingCoversCommits

LEMMA PendingStep ==
    ASSUME SessionTypes, SessionTypes', FlowInv, PendingCoversCommits,
           [SessionNext]_sessionVars
    PROVE  PendingCoversCommits'
<1>0. /\ Len(commits) \in Nat /\ commits \in Seq(Name)
      /\ IsFiniteSet(Outstanding) /\ Cardinality(Outstanding) \in Nat
      /\ harvest \in Seq(QueueItem) /\ answer_queue \in Seq(QueueItem) /\ pending_count \in Nat
  BY KnownTypes, OutstandingFinite DEF SessionTypes, SessionTypeOK, ServerTypeOK
<1>1. ASSUME Outstanding' \subseteq Outstanding, pending_count' = pending_count
      PROVE  PendingCoversCommits'
  <2>1. Cardinality(Outstanding') <= Cardinality(Outstanding) /\ Cardinality(Outstanding') \in Nat
    BY <1>0, <1>1, FS_Subset, FS_CardinalityType
  <2> QED
    BY <1>0, <1>1, <2>1 DEF PendingCoversCommits
<1>2. CASE UNCHANGED <<commits, harvest, pending_count>>
  BY <1>1, <1>2 DEF Outstanding
<1>3. ASSUME NEW name, NEW then, CommitReturns(name, then), harvest' = harvest
      PROVE  PendingCoversCommits'
  <2>1. commits' = Append(commits, name) /\ pending_count' = pending_count + 1
    BY <1>3 DEF CommitReturns
  <2>2. /\ Len(commits') = Len(commits) + 1
        /\ \A i \in 1..Len(commits) : commits'[i] = commits[i]
    BY <1>0, <2>1
  <2>3. Outstanding' \subseteq Outstanding \cup {Len(commits) + 1}
    BY <1>0, <1>3, <2>2 DEF Outstanding
  <2>4. Len(commits) + 1 \notin Outstanding
    BY <1>0 DEF Outstanding
  <2> DEFINE more == Outstanding \cup {Len(commits) + 1}
  <2>5. IsFiniteSet(more) /\ Cardinality(more) = Cardinality(Outstanding) + 1
    BY <1>0, <2>4, FS_AddElement
  <2> HIDE DEF more
  <2>6. Cardinality(Outstanding') <= Cardinality(more) /\ Cardinality(Outstanding') \in Nat
    BY <2>3, <2>5, FS_Subset, FS_CardinalityType DEF more
  <2> QED
    BY <1>0, <2>1, <2>5, <2>6 DEF PendingCoversCommits
<1>4. CASE ReceiveTimesOut
  <2>1. /\ harvest' = Append(harvest, NoRecord) /\ commits' = commits
        /\ pending_count' = pending_count
    BY <1>4 DEF ReceiveTimesOut
  <2>2. /\ Len(harvest') = Len(harvest) + 1 /\ Len(harvest) \in Nat
        /\ \A k \in 1..Len(harvest) : harvest'[k] = harvest[k]
    BY <1>0, <2>1
  <2>3. Outstanding' \subseteq Outstanding
    BY <2>1, <2>2 DEF Outstanding
  <2> QED
    BY <1>1, <2>1, <2>3
<1>5. CASE ReceiveItem
  <2> DEFINE item == Head(answer_queue)
  <2>1. /\ call = "waiting" /\ answer_queue # <<>>
        /\ harvest' = Append(harvest, item) /\ commits' = commits
        /\ pending_count' = IF item.record /\ pending_count > 0
                            THEN pending_count - 1 ELSE pending_count
    BY <1>5 DEF ReceiveItem
  <2>2. item \in QueueItem /\ item = answer_queue[1] /\ 1 \in 1..Len(answer_queue)
    BY <1>0, <2>1
  <2>3. /\ Len(harvest') = Len(harvest) + 1 /\ Len(harvest) \in Nat
        /\ \A k \in 1..Len(harvest) : harvest'[k] = harvest[k]
        /\ harvest'[Len(harvest) + 1] = item
    BY <1>0, <2>1, <2>2
  <2> HIDE DEF item
  <2>4. Outstanding' \subseteq Outstanding
    BY <2>1, <2>3 DEF Outstanding
  <2>5. CASE ~item.record
    BY <1>1, <2>1, <2>4, <2>5
  <2>6. CASE item.record
    <3>1. Known = commits
      BY <2>1 DEF Known
    <3>2. /\ Flow[1] = harvest /\ Flow[2] = answer_queue
          /\ 1 \in 1..6 /\ 2 \in 1..6
      BY FlowParts DEF FlowTyped
    <3>3. Listed(commits, Flow) /\ Rising(commits, Flow)
      BY <3>1 DEF FlowInv, Ordered
    <3>4. PICK i \in 1..Len(commits) : commits[i] = ItemName(item)
      BY <2>2, <2>6, <3>2, <3>3 DEF Listed
    <3>5. ASSUME NEW k \in 1..Len(harvest), harvest[k].record, ItemName(harvest[k]) = commits[i]
          PROVE  FALSE
      <4>1. k \in 1..Len(Flow[1]) /\ Flow[1][k].record /\ commits[i] = ItemName(Flow[1][k])
        BY <3>2, <3>5
      <4>2. 1 \in 1..Len(Flow[2]) /\ Flow[2][1].record /\ commits[i] = ItemName(Flow[2][1])
        BY <2>2, <2>6, <3>2, <3>4
      <4>3. 1 \in 1..6 /\ 2 \in 1..6 /\ 1 < 2
        OBVIOUS
      <4>4. Rising(commits, Flow)
        BY <3>3
      <4>5. i < i
        BY <4>1, <4>2, <4>3, <4>4, RisingAt
      <4> QED
        BY <4>5
    <3>6. i \in Outstanding
      BY <3>5 DEF Outstanding
    <3>7. i \notin Outstanding'
      <4>1. Len(harvest) + 1 \in 1..Len(harvest')
        BY <2>3
      <4> QED
        BY <2>1, <2>3, <2>6, <3>4, <4>1 DEF Outstanding
    <3>8. Outstanding' \subseteq Outstanding \ {i}
      BY <2>4, <3>7
    <3> DEFINE less == Outstanding \ {i}
    <3>9. IsFiniteSet(less) /\ Cardinality(less) = Cardinality(Outstanding) - 1
      BY <1>0, <3>6, FS_RemoveElement
    <3> HIDE DEF less
    <3>10. Cardinality(Outstanding') <= Cardinality(less) /\ Cardinality(Outstanding') \in Nat
      BY <3>8, <3>9, FS_Subset, FS_CardinalityType DEF less
    <3> QED
      BY <1>0, <2>1, <3>9, <3>10 DEF PendingCoversCommits
  <2> QED
    BY <2>5, <2>6
<1> QED
  BY <1>2, <1>3, <1>4, <1>5, CountedStep

\* For any number of commits and losses: an answer that is taken belongs to a commit
\* whose answer was not taken before, so pending_count, which such an answer lowers
\* by one, stays at or above the number of commits without one.
THEOREM PendingCovers == SessionSpec => []PendingCoversCommits
BY SessionTypesInit, SessionTypesStep, NamesInit, NamesStep, WireInvInit, WireInvStep,
   FlowInvInit, FlowInvStep, PendingInit, PendingStep, PTL DEF SessionSpec
-----------------------------------------------------------------------------
(* The peer that RemoteApp assumes.                                        *)

LEMMA NoTrafficInit == SessionInit => NoProcessNoTraffic
BY DEF SessionInit, WireInit, NoProcessNoTraffic, AppConnected

\* The application's end of the last connection, and of a new one.
LEMMA ConnectedPut ==
    ASSUME wire \in Seq(End), NEW c \in 1..Len(wire), NEW to_app, NEW to_server, NEW server,
           NEW reset, Put(c, to_app, to_server, wire[c].app, server, reset)
    PROVE  AppConnected' = AppConnected
<1>1. Current \in 1..Len(wire) /\ Current' = Current /\ Len(wire') = Len(wire)
  BY DEF Put, Current
<1>2. wire'[Current].app = wire[Current].app
  BY <1>1 DEF Put
<1> QED
  BY <1>1, <1>2 DEF AppConnected

LEMMA GoneDisconnects ==
    ASSUME wire \in Seq(End), ProcessGone
    PROVE  app_queue' = <<>> /\ ~AppConnected'
<1>1. CASE AppConnected
  <2>1. Current \in 1..Len(wire) /\ AppCloses(Current)
    BY <1>1, ConnectedCurrent DEF ProcessGone
  <2>2. Put(Current, wire[Current].to_app, wire[Current].to_server, "closed",
            wire[Current].server, wire[Current].reset)
    BY <2>1, AppClosesPut
  <2>3. Current' = Current /\ wire'[Current].app = "closed"
    BY <2>2 DEF Put, Current
  <2> QED
    BY <2>3 DEF AppConnected, ProcessGone
<1>2. CASE ~AppConnected
  BY <1>2 DEF ProcessGone, AppConnected, Current
<1> QED
  BY <1>1, <1>2

\* What makes a step of the peer out of an edit of a connection.
LEMMA PutPeer ==
    ASSUME wire \in Seq(End), NEW c \in 1..Len(wire), NEW to_app, NEW to_server, NEW server,
           NEW reset, Put(c, to_app, to_server, wire[c].app, server, reset),
           PeerMay(wire[c], wire'[c]), UNCHANGED <<process, app_queue>>
    PROVE  \E p \in 1..Len(wire) : Peer(p)
<1>1. /\ wire' \in Seq(End) /\ Len(wire') = Len(wire)
      /\ \A i \in 1..Len(wire) : i # c => wire'[i] = wire[i]
  BY DEF Put
<1> DEFINE e == wire'[c]
           edited == [wire EXCEPT ![c] = e]
<1>2. /\ edited \in Seq(End) /\ Len(edited) = Len(wire)
      /\ \A i \in 1..Len(wire) : edited[i] = IF i = c THEN e ELSE wire[i]
  <2>1. e \in End
    BY <1>1
  <2> HIDE DEF e
  <2> QED
    BY <2>1, ExceptSeq
<1>3. \A i \in 1..Len(wire) : wire'[i] = edited[i]
  BY <1>1, <1>2
<1> HIDE DEF edited
<1>4. wire' = edited
  BY <1>1, <1>2, <1>3, SeqEqual
<1> QED
  BY <1>4 DEF Peer, edited, e

\* The three things the server does to a connection, and the network's one.
LEMMA LinePeer ==
    ASSUME SessionTypes, NEW c \in 1..Len(wire), NEW tag \in Nat, NEW id \in Nat,
           NEW body \in Body, PutOnWire(c, LineOf(tag, id, body)), UNCHANGED <<process, app_queue>>
    PROVE  /\ UNCHANGED remoteAppVars \/ \E p \in 1..Len(wire) : Peer(p)
           /\ AppConnected' = AppConnected
<1>0. wire \in Seq(End)
  BY DEF SessionTypes
<1>1. CASE wire[c].reset \/ wire[c].server = "closed"
  <2>1. wire' = wire
    BY <1>1 DEF PutOnWire
  <2> QED
    BY <2>1 DEF remoteAppVars, AppConnected, Current
<1>2. CASE ~(wire[c].reset \/ wire[c].server = "closed")
  <2> DEFINE lines == Append(wire[c].to_app, LineOf(tag, id, body))
  <2>1. Put(c, lines, wire[c].to_server, wire[c].app, wire[c].server, wire[c].reset)
    BY <1>0, <1>2, PutOnWirePut
  <2>2. /\ wire[c].to_app \in Seq(Sending) /\ wire[c].to_server \in Seq(Answer)
        /\ wire[c].server \in {"open", "closed"}
    BY <1>0, EndFields
  <2>3. LineOf(tag, id, body) \in Sending
    BY DEF LineOf, Sending, AnyFrame
  <2>4. Len(wire[c].to_app) <= Len(lines) /\ SubSeq(lines, 1, Len(wire[c].to_app)) = wire[c].to_app
    <3>1. lines \in Seq(Sending) /\ Len(lines) = Len(wire[c].to_app) + 1 /\ Len(wire[c].to_app) \in Nat
      BY <2>2, <2>3
    <3>2. \A i \in 1..Len(wire[c].to_app) : lines[i] = wire[c].to_app[i]
      BY <2>2, <2>3
    <3> DEFINE front == SubSeq(lines, 1, Len(wire[c].to_app))
    <3> HIDE DEF lines
    <3>3. /\ front \in Seq(Sending) /\ Len(front) = Len(wire[c].to_app)
          /\ \A i \in 1..Len(wire[c].to_app) : front[i] = lines[i]
      BY <3>1
    <3>4. \A i \in 1..Len(wire[c].to_app) : front[i] = wire[c].to_app[i]
      BY <3>2, <3>3
    <3> HIDE DEF front
    <3>5. front = wire[c].to_app
      BY <2>2, <3>3, <3>4, SeqEqual
    <3> QED
      BY <3>1, <3>5 DEF front
  <2>5. \E k \in 0..Len(wire[c].to_server) :
          wire[c].to_server = SubSeq(wire[c].to_server, k + 1, Len(wire[c].to_server))
    <3>1. SubSeq(wire[c].to_server, 0 + 1, Len(wire[c].to_server)) = wire[c].to_server
      BY <2>2, SubSeqFull
    <3>2. 0 \in 0..Len(wire[c].to_server)
      BY <2>2
    <3> QED
      BY <3>1, <3>2
  <2> HIDE DEF lines
  <2>6. PeerMay(wire[c], wire'[c])
    BY <1>2, <2>1, <2>2, <2>4, <2>5 DEF Put, PeerMay
  <2> QED
    BY <1>0, <2>1, <2>6, PutPeer, ConnectedPut
<1> QED
  BY <1>1, <1>2

\* Answers are taken from the front, by a handler that may close on the way.
LEMMA HandlerPeer ==
    ASSUME SessionTypes, NEW c \in 1..Len(wire), NEW k \in 0..Len(wire[c].to_server),
           NEW left, left = SubSeq(wire[c].to_server, k + 1, Len(wire[c].to_server)),
           NEW server \in {wire[c].server, "closed"},
           Put(c, wire[c].to_app, left, wire[c].app, server, wire[c].reset),
           UNCHANGED <<process, app_queue>>
    PROVE  (\E p \in 1..Len(wire) : Peer(p)) /\ AppConnected' = AppConnected
<1>0. wire \in Seq(End)
  BY DEF SessionTypes
<1>1. wire[c].to_app \in Seq(Sending)
  BY <1>0, EndFields
<1>2. /\ SubSeq(wire[c].to_app, 1, Len(wire[c].to_app)) = wire[c].to_app
      /\ Len(wire[c].to_app) <= Len(wire[c].to_app)
  BY <1>1, SubSeqFull
<1>3. PeerMay(wire[c], wire'[c])
  BY <1>2 DEF Put, PeerMay
<1> QED
  BY <1>0, <1>3, PutPeer, ConnectedPut

\* The coroutines of the server.
LEMMA CoroutinePeer ==
    ASSUME SessionTypes, ServerCoroutine, UNCHANGED processVars
    PROVE  /\ UNCHANGED remoteAppVars \/ \E p \in 1..Len(wire) : Peer(p)
           /\ AppConnected' = AppConnected
<1>0. /\ wire \in Seq(End) /\ Len(wire) \in Nat /\ UNCHANGED <<process, app_queue>>
      /\ draining.tag \in Nat /\ draining.id \in Nat /\ staged \in Body
      /\ draining.conn \in 0..Len(wire) /\ (call = "draining" => draining.conn # 0)
  BY DEF SessionTypes, SessionTypeOK, ServerTypeOK, processVars, NoConnection
<1>1. CASE UNCHANGED wire
  BY <1>0, <1>1 DEF remoteAppVars, AppConnected, Current
<1>2. CASE BufferFlushes
  <2>1. draining.conn \in 1..Len(wire) /\ PutOnWire(draining.conn, LineOf(draining.tag, draining.id, staged))
    BY <1>0, <1>2 DEF BufferFlushes
  <2> QED
    BY <1>0, <2>1, LinePeer
<1>3. ASSUME NEW c \in 1..Len(wire), HandlerReadsLine(c)
      PROVE  (\E p \in 1..Len(wire) : Peer(p)) /\ AppConnected' = AppConnected
  <2>1. /\ wire[c].to_server \in Seq(Answer) /\ wire[c].to_server # <<>>
        /\ wire' = [wire EXCEPT ![c].to_server = Tail(wire[c].to_server)]
    BY <1>0, <1>3, EndFields DEF HandlerReadsLine
  <2>2. /\ Tail(wire[c].to_server) \in Seq(Answer)
        /\ Tail(wire[c].to_server) = SubSeq(wire[c].to_server, 1 + 1, Len(wire[c].to_server))
        /\ 1 \in 0..Len(wire[c].to_server)
    BY <2>1
  <2>3. Put(c, wire[c].to_app, Tail(wire[c].to_server), wire[c].app, wire[c].server, wire[c].reset)
    BY <1>0, <2>1, <2>2, ToServerPut
  <2> QED
    BY <1>0, <2>2, <2>3, HandlerPeer
<1>4. ASSUME NEW c \in 1..Len(wire), HandlerOrphaned(c)
      PROVE  (\E p \in 1..Len(wire) : Peer(p)) /\ AppConnected' = AppConnected
  <2>1. Put(c, wire[c].to_app, <<>>, wire[c].app, "closed", wire[c].reset)
    BY <1>0, <1>4, OrphanedPut
  <2>2. wire[c].to_server \in Seq(Answer)
    BY <1>0, EndFields
  <2>3. /\ SubSeq(wire[c].to_server, Len(wire[c].to_server) + 1, Len(wire[c].to_server)) = <<>>
        /\ Len(wire[c].to_server) \in 0..Len(wire[c].to_server)
    BY <2>2
  <2> QED
    BY <1>0, <2>1, <2>3, HandlerPeer
<1>5. ASSUME NEW c \in 1..Len(wire), HandlerEnds(c)
      PROVE  (\E p \in 1..Len(wire) : Peer(p)) /\ AppConnected' = AppConnected
  <2>1. Put(c, wire[c].to_app, wire[c].to_server, wire[c].app, "closed", wire[c].reset)
    BY <1>0, <1>5, ServerClosesPut DEF HandlerEnds
  <2>2. wire[c].to_server \in Seq(Answer)
    BY <1>0, EndFields
  <2>3. /\ SubSeq(wire[c].to_server, 0 + 1, Len(wire[c].to_server)) = wire[c].to_server
        /\ 0 \in 0..Len(wire[c].to_server)
    BY <2>2, SubSeqFull
  <2> QED
    BY <1>0, <2>1, <2>3, HandlerPeer
<1>6. \/ UNCHANGED wire \/ BufferFlushes
      \/ \E c \in 1..Len(wire) : HandlerReadsLine(c) \/ HandlerOrphaned(c) \/ HandlerEnds(c)
  BY DEF ServerCoroutine, CommitResumes, CommitRaises, ReceiveItem, ReceiveTimesOut,
         _on_client_connect
<1> QED
  BY <1>1, <1>2, <1>3, <1>4, <1>5, <1>6

\* What any step is to the application.
LEMMA SessionStepOfPeer ==
    ASSUME SessionTypes, [SessionNext]_sessionVars
    PROVE  \/ RemoteAppStep
           \/ /\ UNCHANGED remoteAppVars \/ \E c \in 1..Len(wire) : Peer(c)
              /\ AppConnected' = AppConnected /\ UNCHANGED <<process, app_queue>>
           \/ /\ process' = "none" /\ process = "running" /\ ProcessGone
           \/ /\ process \in {"none", "exited"} /\ process' = "none"
              /\ AppConnected' = AppConnected /\ UNCHANGED app_queue
           \/ /\ process = "none" /\ process' = "running"
<1>0. wire \in Seq(End) /\ Len(wire) \in Nat /\ process \in {"none", "running", "exited"}
  BY DEF SessionTypes, SessionTypeOK
<1>1. CASE Commits
  <2>1. PICK body \in Body, then \in {"idle", "exiting"} :
          (CommitAtOnce(body, then) \/ CommitSuspends(body, then)) /\ OrderlyCommit
    BY <1>1 DEF Commits
  <2>2. UNCHANGED <<process, app_queue>>
    BY <2>1 DEF OrderlyCommit
  <2>3. CASE CommitAtOnce(body, then)
    <3>1. PutOnWire(client, LineOf(session_tag, net_id, body)) /\ client # NoConnection
      BY <2>3 DEF CommitAtOnce, CommitNames
    <3>2. client \in 1..Len(wire) /\ session_tag \in Nat /\ net_id \in Nat
      BY <1>0, <3>1, MaxConnectionsAssumption
         DEF SessionTypes, SessionTypeOK, ServerTypeOK, NoConnection
    <3> QED
      BY <2>2, <3>1, <3>2, LinePeer
  <2>4. CASE CommitSuspends(body, then)
    BY <2>2, <2>4 DEF CommitSuspends, remoteAppVars, AppConnected, Current
  <2> QED
    BY <2>1, <2>3, <2>4
<1>2. CASE ServerCoroutine /\ UNCHANGED processVars
  BY <1>2, CoroutinePeer DEF processVars
<1>3. CASE Application
  BY <1>3 DEF Application
<1>4. CASE \E c \in 1..Len(wire) : NetworkResets(c)
  <2>1. PICK c \in 1..Len(wire) : NetworkResets(c)
    BY <1>4
  <2>2. Put(c, <<>>, <<>>, wire[c].app, wire[c].server, TRUE) /\ UNCHANGED <<process, app_queue>>
    BY <1>0, <2>1, ResetPut DEF NetworkResets
  <2>3. PeerMay(wire[c], wire'[c])
    BY <2>2 DEF Put, PeerMay
  <2> QED
    BY <1>0, <2>2, <2>3, PutPeer, ConnectedPut
<1>5. CASE LaunchBegins \/ ShutdownReturns
  <2>1. /\ process' = "none"
        /\ IF process = "running" THEN ProcessGone ELSE UNCHANGED <<app_queue, wire>>
    BY <1>5 DEF LaunchBegins, ShutdownReturns
  <2>2. process # "running" => AppConnected' = AppConnected
    BY <2>1 DEF AppConnected, Current
  <2> QED
    BY <1>0, <2>1, <2>2
<1>6. CASE LaunchSpawns
  BY <1>6 DEF LaunchSpawns
<1>7. CASE UNCHANGED <<wire, process, app_queue>>
  BY <1>7 DEF remoteAppVars, AppConnected, Current
<1>8. Unwritten => \/ <<wire, process, app_queue>>' = <<wire, process, app_queue>>
                   \/ LaunchBegins \/ ShutdownReturns \/ LaunchSpawns
                   \/ ServerCoroutine /\ UNCHANGED processVars
                   \/ Application \/ \E c \in 1..Len(wire) : NetworkResets(c)
  BY DEF Unwritten, LaunchFails, LaunchReturns, fcommand, add_command,
         fcommand_discard_frame_set, discard_staged, blocking_wait_next_fcommand_response,
         ShutdownRefused, sessionVars, processVars
<1> QED
  BY <1>1, <1>2, <1>3, <1>4, <1>5, <1>6, <1>7, <1>8, CommitsOrNot

LEMMA NoTrafficStep ==
    ASSUME SessionTypes, NoProcessNoTraffic, [SessionNext]_sessionVars
    PROVE  NoProcessNoTraffic'
<1>0. wire \in Seq(End) /\ Len(wire) \in Nat
  BY DEF SessionTypes
<1>1. CASE RemoteAppStep
  <2>1. CASE process' = "running"
    BY <2>1 DEF NoProcessNoTraffic
  <2>2. CASE AppExits
    BY <1>0, <2>2, GoneDisconnects DEF AppExits, NoProcessNoTraffic
  <2>3. CASE ExitedReads
    <3>1. Current \in 1..Len(wire) /\ wire[Current].to_app # <<>>
      BY <1>0, <2>3 DEF ExitedReads, Current
    <3>2. Tail(wire[Current].to_app) \in Seq(Sending)
      BY <1>0, <3>1, EndFields
    <3>3. wire' = [wire EXCEPT ![Current].to_app = Tail(wire[Current].to_app)]
      BY <2>3 DEF ExitedReads
    <3>4. Put(Current, Tail(wire[Current].to_app), wire[Current].to_server, wire[Current].app,
              wire[Current].server, wire[Current].reset)
      BY <1>0, <3>1, <3>2, <3>3, ToAppPut
    <3>5. AppConnected' = AppConnected
      BY <1>0, <3>1, <3>4, ConnectedPut
    <3> QED
      BY <2>3, <3>5 DEF ExitedReads, NoProcessNoTraffic
  <2>4. CASE ExitedConnects
    <3>1. /\ wire'[Len(wire')] = [to_app |-> <<>>, to_server |-> <<>>, app |-> "closed",
                                  server |-> "open", reset |-> FALSE]
      BY <1>0, <2>4, Opened DEF ExitedConnects
    <3> QED
      BY <2>4, <3>1 DEF ExitedConnects, NoProcessNoTraffic, AppConnected, Current
  <2> QED
    BY <1>1, <2>1, <2>2, <2>3, <2>4
       DEF RemoteAppStep, AppConnects, AppReads, AppAnswers, AppLoses, AppDisconnects
<1>2. CASE process' = "none" /\ ProcessGone
  BY <1>0, <1>2, GoneDisconnects DEF NoProcessNoTraffic
<1>3. CASE ~RemoteAppStep /\ ~(process' = "none" /\ ProcessGone)
  <2>1. \/ process' = "running"
        \/ AppConnected' = AppConnected /\ UNCHANGED app_queue /\ process # "running"
        \/ AppConnected' = AppConnected /\ UNCHANGED <<process, app_queue>>
    BY <1>3, SessionStepOfPeer
  <2> QED
    BY <2>1 DEF NoProcessNoTraffic
<1> QED
  BY <1>1, <1>2, <1>3

\* A launched process starts as RemoteApp does, and the tools, the server and the
\* network then do nothing to its connections that RemoteApp forbids its peer, and
\* send lines of whole frames only: what AppControl is shown to do against any such
\* peer, it does in this session.
THEOREM ServerIsPeer ==
    SessionSpec => []NoProcessNoTraffic /\ RemoteAppAssured /\ [](wire \in Seq(End))
<1> DEFINE Assured == process # "none" /\ process' # "none"
                        => RemoteAppNext \/ UNCHANGED remoteAppVars
<1>1. SessionTypes /\ [SessionNext]_sessionVars => [Assured]_sessionVars
  <2> SUFFICES ASSUME SessionTypes, [SessionNext]_sessionVars
               PROVE  Assured
    OBVIOUS
  <2> QED
    BY SessionStepOfPeer DEF RemoteAppNext
<1>2. SessionTypes => wire \in Seq(End)
  BY DEF SessionTypes
<1> QED
  BY <1>1, <1>2, SessionTypesInit, SessionTypesStep, NoTrafficInit, NoTrafficStep, PTL
     DEF SessionSpec, RemoteAppAssured

=============================================================================
