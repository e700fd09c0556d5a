----------------------- MODULE WorkloadDatasetProofs -----------------------
(***************************************************************************)
(* Theorems about WorkloadDataset, for any total and any number of frauds: *)
(* every block of the file has one fraud, so that every prefix of whole    *)
(* blocks has a known number of them, and no row is written twice.         *)
(***************************************************************************)
EXTENDS WorkloadDataset, TLAPS

Row == [is_fraud : BOOLEAN, source : Nat]

Arguments ==
  /\ total \in 1 .. MaxTotal /\ n_fraud \in 1 .. total
  /\ b \in 0 .. n_fraud /\ written \in BOOLEAN
  /\ written => b = n_fraud

(* How far loop and file are.                                              *)
Progress ==
  /\ li = b * (block - 1)
  /\ Len(rows) = IF written THEN total ELSE b * block

(* The rows are fraud rows used up and legitimate rows used up, each once.  *)
Used ==
  /\ rows \in Seq(Row)
  /\ \A i \in 1 .. Len(rows) :
       rows[i].source < IF rows[i].is_fraud THEN b
                        ELSE IF written THEN total - n_fraud ELSE li
  /\ \A i, j \in 1 .. Len(rows) : rows[i] = rows[j] => i = j

(* The rows of the j-th block of a length.                                 *)
Place(j, length) == (j - 1) * length + 1 .. j * length

(* A row is the only fraud in a place.                                     *)
OnlyFraud(r, i, place) ==
  i \in place /\ r[i].is_fraud /\ \A k \in place : r[k].is_fraud => k = i

(* Every block has one fraud, the first block in its first row, and there   *)
(* is none after the last block.                                           *)
Spread ==
  /\ \A j \in 1 .. b : \E i \in Place(j, block) : OnlyFraud(rows, i, Place(j, block))
  /\ b > 0 => rows[1].is_fraud
  /\ \A i \in b * block + 1 .. Len(rows) : ~ rows[i].is_fraud

DatasetInv == Arguments /\ Progress /\ Used /\ Spread

-----------------------------------------------------------------------------
(* Numbers *)

LEMMA ProductGrows ==
  ASSUME NEW x \in Nat, NEW y \in Nat, x <= y, NEW z \in Nat
  PROVE  x * z <= y * z
<1> DEFINE d == y - x
<1>1. d \in Nat /\ y = x + d
  OBVIOUS
<1> HIDE DEF d
<1>2. y * z = x * z + d * z /\ x * z \in Nat /\ d * z \in Nat
  BY <1>1
<1> QED BY <1>2

(* What a product with one factor more or less is.                          *)
LEMMA ProductSteps ==
  ASSUME NEW x \in Int, NEW z \in Int
  PROVE  /\ x * z \in Int
         /\ (x + 1) * z = x * z + z /\ (x - 1) * z = x * z - z
         /\ x * (z - 1) = x * z - x
  OBVIOUS

(* The whole blocks fit, and what they leave over is the remainder.         *)
LEMMA BlockLength ==
  ASSUME Arguments
  PROVE  /\ total \in Nat /\ n_fraud \in Nat \ {0} /\ block \in Nat \ {0}
         /\ n_fraud * block \in Nat /\ n_fraud * block <= total
         /\ total - n_fraud * block = total % n_fraud
<1>1. total \in Nat \ {0} /\ n_fraud \in Nat \ {0} /\ n_fraud <= total
  BY DatasetAssumption DEF Arguments
<1>2. /\ total \div n_fraud \in Nat
      /\ total % n_fraud \in 0 .. n_fraud - 1
      /\ total = n_fraud * (total \div n_fraud) + (total % n_fraud)
  BY <1>1
<1>3. total \div n_fraud # 0
  BY <1>1, <1>2
<1>4. n_fraud * (total \div n_fraud) \in Nat
  BY <1>1, <1>2
<1> QED BY <1>1, <1>2, <1>3, <1>4 DEF block

(* The legitimate rows a block takes are there.                             *)
LEMMA LegitimateLeft ==
  ASSUME Arguments, Progress, b < n_fraud
  PROVE  /\ b \in Nat /\ li \in Nat /\ b * block \in Nat
         /\ li + block - 1 = (b + 1) * (block - 1)
         /\ li + block - 1 <= total - n_fraud
         /\ (b + 1) * block = b * block + block
         /\ (b + 1) * block <= total
<1>1. b \in Nat /\ b + 1 \in Nat /\ b + 1 <= n_fraud
  BY BlockLength DEF Arguments
<1>2. block - 1 \in Nat /\ block \in Nat
  BY BlockLength
<1>3. li = b * (block - 1) /\ li \in Nat /\ b * block \in Nat
  BY <1>1, <1>2 DEF Progress
<1>4. (b + 1) * (block - 1) = b * (block - 1) + (block - 1) /\ (b + 1) * block = b * block + block
  BY <1>1, <1>2, ProductSteps
<1>5. (b + 1) * (block - 1) <= n_fraud * (block - 1) /\ (b + 1) * block <= n_fraud * block
  BY <1>1, <1>2, BlockLength, ProductGrows
<1>6. n_fraud * (block - 1) = n_fraud * block - n_fraud /\ n_fraud * block \in Nat
        /\ n_fraud * block <= total /\ n_fraud \in Nat /\ total \in Nat
  BY <1>2, BlockLength, ProductSteps
<1> DEFINE x == (b + 1) * (block - 1)
           y == n_fraud * (block - 1)
           z == n_fraud * block
           w == (b + 1) * block
           v == b * block
<1>7. li + block - 1 = x
  BY <1>2, <1>3, <1>4
<1>8. x \in Int /\ x <= y /\ y = z - n_fraud /\ z <= total /\ z \in Nat /\ w <= z /\ w = v + block
        /\ v \in Nat
  BY <1>1, <1>2, <1>3, <1>4, <1>5, <1>6
<1> HIDE DEF x, y, z, w, v
<1>9. x <= total - n_fraud /\ w <= total
  BY <1>2, <1>6, <1>8
<1> QED BY <1>1, <1>3, <1>7, <1>8, <1>9 DEF x, w, v

(* A slice of the legitimate rows.                                         *)
LEMMA Slice ==
  ASSUME NEW from \in Nat, NEW n \in Nat, total \in Nat, n_fraud \in Nat,
         from + n <= total - n_fraud
  PROVE  /\ legit(from, from + n) \in Seq(Row)
         /\ Len(legit(from, from + n)) = n
         /\ \A i \in 1 .. n :
              legit(from, from + n)[i] = [is_fraud |-> FALSE, source |-> from + i - 1]
<1>1. (IF from + n > total - n_fraud THEN total - n_fraud ELSE from + n) - from = n
  OBVIOUS
<1>2. legit(from, from + n) =
        [i \in 1 .. n |-> [is_fraud |-> FALSE, source |-> from + i - 1]]
  BY <1>1 DEF legit
<1> DEFINE s == legit(from, from + n)
           row(i) == [is_fraud |-> FALSE, source |-> from + i - 1]
<1>3. \A i \in 1 .. n : row(i) \in Row
  BY DEF Row
<1>4. s = [i \in 1 .. n |-> row(i)]
  BY <1>2
<1> HIDE DEF s, row
<1>5. s \in [1 .. n -> Row] /\ \A i \in 1 .. n : s[i] = row(i)
  BY <1>3, <1>4
<1>6. s \in Seq(Row) /\ Len(s) = n
  BY <1>5
<1> QED BY <1>5, <1>6 DEF s, row

(* An element put into a sequence.                                          *)
With(s, k, e) ==
  [i \in 1 .. Len(s) + 1 |-> IF i < k THEN s[i] ELSE IF i = k THEN e ELSE s[i - 1]]

LEMMA Inserted ==
  ASSUME NEW S, NEW s \in Seq(S), NEW e \in S, NEW k \in 1 .. Len(s) + 1,
         NEW c, c = InsertAt(s, k, e)
  PROVE  c \in Seq(S) /\ Len(c) = Len(s) + 1 /\ c = With(s, k, e)
<1> DEFINE pos == k - 1
           left == SubSeq(s, 1, pos)
           right == SubSeq(s, pos + 1, Len(s))
<1>1. Len(s) \in Nat /\ pos \in Nat /\ pos <= Len(s) /\ pos + 1 = k
  OBVIOUS
<1> HIDE DEF pos
<1>2. left \in Seq(S) /\ Len(left) = pos /\ \A i \in 1 .. pos : left[i] = s[i]
  BY <1>1
<1>3. /\ right \in Seq(S) /\ Len(right) = Len(s) - pos
      /\ \A i \in 1 .. Len(s) - pos : right[i] = s[pos + i]
  BY <1>1
<1>4. c = (left \o <<e>>) \o right
  BY <1>1 DEF InsertAt, pos
<1> HIDE DEF left, right
<1> DEFINE m == left \o <<e>>
<1>5. /\ m \in Seq(S) /\ Len(m) = pos + 1 /\ m[pos + 1] = e
      /\ \A i \in 1 .. pos : m[i] = s[i]
  BY <1>1, <1>2
<1> HIDE DEF m
<1>6. /\ m \o right \in Seq(S) /\ Len(m \o right) = Len(s) + 1
      /\ \A i \in 1 .. pos + 1 : (m \o right)[i] = m[i]
      /\ \A i \in 1 .. Len(s) + 1 : i > pos + 1 => (m \o right)[i] = right[i - (pos + 1)]
  BY <1>1, <1>3, <1>5
<1>7. \A i \in 1 .. Len(s) + 1 : i > pos + 1 =>
        i - (pos + 1) \in 1 .. Len(s) - pos /\ pos + (i - (pos + 1)) = i - 1
  BY <1>1
<1>8. (m \o right)[pos + 1] = e
  BY <1>1, <1>5, <1>6
<1>9. ASSUME NEW i \in 1 .. Len(s) + 1
      PROVE  /\ i <= pos => (m \o right)[i] = s[i]
             /\ i > pos + 1 => (m \o right)[i] = s[i - 1]
  <2>1. CASE i <= pos
    <3>1. i \in 1 .. pos /\ i \in 1 .. pos + 1 /\ ~(i > pos + 1)
      BY <1>1, <2>1
    <3> QED BY <1>5, <1>6, <3>1
  <2>2. CASE i > pos + 1
    <3>1. /\ (m \o right)[i] = right[i - (pos + 1)]
          /\ i - (pos + 1) \in 1 .. Len(s) - pos /\ pos + (i - (pos + 1)) = i - 1
      BY <1>6, <1>7, <2>2
    <3>2. right[i - (pos + 1)] = s[i - 1]
      BY <1>3, <3>1
    <3> QED BY <1>1, <2>2, <3>1, <3>2
  <2> QED BY <2>1, <2>2
<1>10. c = m \o right
  BY <1>4 DEF m
<1>11. c \in Seq(S) /\ Len(c) = Len(s) + 1
  BY <1>6, <1>10
<1>12. \A i \in 1 .. Len(s) + 1 :
         c[i] = IF i < k THEN s[i] ELSE IF i = k THEN e ELSE s[i - 1]
  <2> SUFFICES ASSUME NEW i \in 1 .. Len(s) + 1
               PROVE  c[i] = IF i < k THEN s[i] ELSE IF i = k THEN e ELSE s[i - 1]
    OBVIOUS
  <2>1. CASE i < k
    <3>1. i <= pos
      BY <1>1, <2>1
    <3> QED BY <1>9, <1>10, <2>1, <3>1
  <2>2. CASE i = k
    <3>1. ~(i < k)
      BY <2>2
    <3> QED BY <1>1, <1>8, <1>10, <2>2, <3>1
  <2>3. CASE i > k
    <3>1. i > pos + 1 /\ ~(i < k) /\ i # k
      BY <1>1, <2>3
    <3> QED BY <1>9, <1>10, <3>1
  <2> QED BY <2>1, <2>2, <2>3
<1>13. c = With(s, k, e)
  <2>1. c = [i \in 1 .. Len(s) + 1 |-> c[i]]
    BY <1>11
  <2> QED BY <1>12, <2>1 DEF With
<1> QED BY <1>11, <1>13

(* Steps *)

Chunk(pos) == InsertAt(legit(li, li + block - 1), pos + 1, fraud(b))

(* A block has its fraud at pos and fresh legitimate rows elsewhere.        *)
LEMMA ChunkRows ==
  ASSUME Arguments, Progress, b < n_fraud, NEW pos \in 0 .. block - 1
  PROVE  /\ Chunk(pos) \in Seq(Row) /\ Len(Chunk(pos)) = block
         /\ Chunk(pos)[pos + 1] = fraud(b)
         /\ \A i \in 1 .. block : i # pos + 1 =>
              /\ ~ Chunk(pos)[i].is_fraud
              /\ li <= Chunk(pos)[i].source /\ Chunk(pos)[i].source < li + block - 1
         /\ \A i, j \in 1 .. block : Chunk(pos)[i] = Chunk(pos)[j] => i = j
<1>1. /\ b \in Nat /\ li \in Nat /\ block \in Nat \ {0} /\ total \in Nat /\ n_fraud \in Nat
      /\ li + block - 1 <= total - n_fraud
  BY BlockLength, LegitimateLeft
<1> DEFINE n == block - 1
           s == legit(li, li + block - 1)
           c == Chunk(pos)
<1>2. n \in Nat /\ block = n + 1 /\ li + n = li + block - 1 /\ pos \in Nat /\ pos <= n
  BY <1>1
<1>3. /\ s \in Seq(Row) /\ Len(s) = n
      /\ \A i \in 1 .. n : s[i] = [is_fraud |-> FALSE, source |-> li + i - 1]
  <2> HIDE DEF n
  <2>1. li + n <= total - n_fraud
    BY <1>1, <1>2
  <2>2. s = legit(li, li + n)
    BY <1>2
  <2> HIDE DEF s
  <2> QED BY <1>1, <1>2, <2>1, <2>2, Slice
<1>4. fraud(b) \in Row /\ fraud(b).is_fraud
  BY <1>1 DEF fraud, Row
<1>5. c = InsertAt(s, pos + 1, fraud(b))
  BY DEF Chunk
<1> HIDE DEF n, s, c
<1>6. /\ c \in Seq(Row) /\ Len(c) = n + 1 /\ c[pos + 1] = fraud(b)
      /\ \A i \in 1 .. n + 1 :
           /\ i <= pos => c[i] = s[i]
           /\ i > pos + 1 => c[i] = s[i - 1]
  <2>1. pos + 1 \in 1 .. Len(s) + 1 /\ s \in Seq(Row) /\ fraud(b) \in Row
    BY <1>2, <1>3, <1>4
  <2>2. /\ c \in Seq(Row) /\ Len(c) = Len(s) + 1 /\ c[pos + 1] = fraud(b)
        /\ \A i \in 1 .. Len(s) + 1 :
             /\ i < pos + 1 => c[i] = s[i]
             /\ i > pos + 1 => c[i] = s[i - 1]
    <3>1. c \in Seq(Row) /\ Len(c) = Len(s) + 1 /\ c = With(s, pos + 1, fraud(b))
      BY <1>5, <2>1, Inserted
    <3>2. \A i \in 1 .. Len(s) + 1 :
            c[i] = IF i < pos + 1 THEN s[i] ELSE IF i = pos + 1 THEN fraud(b) ELSE s[i - 1]
      BY <3>1 DEF With
    <3>3. ~(pos + 1 < pos + 1)
      BY <1>2
    <3>4. c[pos + 1] = fraud(b)
      BY <2>1, <3>2, <3>3
    <3>5. ASSUME NEW i \in 1 .. Len(s) + 1, i > pos + 1
          PROVE  c[i] = s[i - 1]
      BY <1>2, <3>2, <3>5
    <3> QED BY <3>1, <3>2, <3>4, <3>5
  <2>3. \A i \in 1 .. n + 1 : i <= pos => i < pos + 1
    BY <1>2
  <2> QED BY <1>3, <2>2, <2>3
<1>7. ASSUME NEW i \in 1 .. n + 1, i # pos + 1
      PROVE  /\ ~ c[i].is_fraud
             /\ c[i].source = li + (IF i <= pos THEN i - 1 ELSE i - 2)
             /\ li <= c[i].source /\ c[i].source < li + n
  <2>1. CASE i <= pos
    <3>1. i \in 1 .. n /\ c[i] = s[i]
      BY <1>2, <1>6, <2>1
    <3>2. c[i] = [is_fraud |-> FALSE, source |-> li + i - 1]
      BY <1>3, <3>1
    <3> QED BY <1>1, <1>2, <2>1, <3>1, <3>2
  <2>2. CASE i > pos + 1
    <3>1. i - 1 \in 1 .. n /\ c[i] = s[i - 1]
      BY <1>2, <1>6, <2>2
    <3>2. c[i] = [is_fraud |-> FALSE, source |-> li + (i - 1) - 1]
      BY <1>3, <3>1
    <3> QED BY <1>1, <1>2, <2>2, <3>1, <3>2
  <2> QED BY <1>2, <1>7, <2>1, <2>2
<1>8. ASSUME NEW i \in 1 .. n + 1, NEW j \in 1 .. n + 1, c[i] = c[j]
      PROVE  i = j
  <2>1. (i = pos + 1) = (j = pos + 1)
    BY <1>4, <1>6, <1>7, <1>8
  <2>2. CASE i # pos + 1 /\ j # pos + 1
    <3>1. li + (IF i <= pos THEN i - 1 ELSE i - 2) = li + (IF j <= pos THEN j - 1 ELSE j - 2)
      BY <1>7, <1>8, <2>2
    <3> QED BY <1>1, <1>2, <2>2, <3>1
  <2> QED BY <2>1, <2>2
<1>9. li + n = li + block - 1
  BY <1>2
<1>10. \A i \in 1 .. block : i # pos + 1 =>
         ~ c[i].is_fraud /\ li <= c[i].source /\ c[i].source < li + block - 1
  BY <1>2, <1>7, <1>9
<1> QED BY <1>2, <1>6, <1>8, <1>10 DEF c

(* Rows put behind others.                                                 *)
LEMMA Joined ==
  ASSUME NEW S, NEW s \in Seq(S), NEW t \in Seq(S)
  PROVE  /\ s \o t \in Seq(S) /\ Len(s \o t) = Len(s) + Len(t)
         /\ \A i \in 1 .. Len(s) : (s \o t)[i] = s[i]
         /\ \A i \in 1 .. Len(s) + Len(t) :
              i > Len(s) => i - Len(s) \in 1 .. Len(t) /\ (s \o t)[i] = t[i - Len(s)]
  OBVIOUS

(* The rows of a block lie before the end of any later one.                 *)
LEMMA PlaceWithin ==
  ASSUME NEW k \in Nat, NEW j \in 1 .. k, NEW length \in Nat
  PROVE  \A i \in Place(j, length) : i \in 1 .. k * length
<1>1. j \in Nat /\ j - 1 \in Nat /\ j <= k
  OBVIOUS
<1>2. j * length <= k * length
  BY <1>1, ProductGrows
<1> DEFINE x == (j - 1) * length
           y == j * length
           z == k * length
<1>3. x \in Nat /\ y \in Nat /\ z \in Nat /\ y <= z
  BY <1>1, <1>2
<1>4. Place(j, length) = x + 1 .. y
  BY DEF Place
<1> HIDE DEF x, y
<1> QED BY <1>3, <1>4

LEMMA BlockKeeps ==
  ASSUME DatasetInv, Block
  PROVE  DatasetInv'
<1>1. /\ b < n_fraud /\ b' = b + 1 /\ li' = li + block - 1
      /\ total' = total /\ n_fraud' = n_fraud /\ written' = written
  BY DEF Block
<1>2. Arguments /\ Progress /\ Used /\ Spread /\ written = FALSE
  BY <1>1 DEF DatasetInv, Arguments
<1>3. block' = block /\ block \in Nat \ {0}
  BY <1>1, <1>2, BlockLength DEF block
<1>4. PICK pos \in 0 .. block - 1 : (b = 0 => pos = 0) /\ rows' = rows \o Chunk(pos)
  BY <1>3 DEF Block, Chunk
<1> DEFINE c == Chunk(pos)
           n == b * block
<1>5. /\ c \in Seq(Row) /\ Len(c) = block /\ c[pos + 1] = fraud(b)
      /\ \A i \in 1 .. block : i # pos + 1 =>
           ~ c[i].is_fraud /\ li <= c[i].source /\ c[i].source < li + block - 1
      /\ \A i, j \in 1 .. block : c[i] = c[j] => i = j
  BY <1>1, <1>2, <1>4, ChunkRows
<1>6. /\ b \in Nat /\ li \in Nat /\ n \in Nat
      /\ li + block - 1 = (b + 1) * (block - 1)
      /\ (b + 1) * block = n + block
  BY <1>1, <1>2, LegitimateLeft
<1>7. rows' = rows \o c
  BY <1>4
<1>8. rows \in Seq(Row) /\ Len(rows) = n
  BY <1>2 DEF Used, Progress
<1> HIDE DEF c, n
<1>9. /\ rows' \in Seq(Row) /\ Len(rows') = n + block
      /\ \A i \in 1 .. n : rows'[i] = rows[i]
      /\ \A i \in 1 .. n + block : i > n => i - n \in 1 .. block /\ rows'[i] = c[i - n]
  BY <1>5, <1>7, <1>8, Joined
<1>10. Arguments'
  BY <1>1, <1>2, <1>6, BlockLength DEF Arguments
<1>11. Progress'
  BY <1>1, <1>2, <1>3, <1>6, <1>9 DEF Progress
<1>12. \A i \in 1 .. n : rows[i] \in Row /\ rows[i].source < IF rows[i].is_fraud THEN b ELSE li
  BY <1>2, <1>8 DEF Used
<1>13. fraud(b) = [is_fraud |-> TRUE, source |-> b]
  BY DEF fraud
<1>14. Used'
  <2>1. \A i \in 1 .. n + block :
          rows'[i].source < IF rows'[i].is_fraud THEN b + 1 ELSE li + block - 1
    <3> SUFFICES ASSUME NEW i \in 1 .. n + block
                 PROVE  rows'[i].source < IF rows'[i].is_fraud THEN b + 1 ELSE li + block - 1
      OBVIOUS
    <3>1. CASE i <= n
      <4>1. i \in 1 .. n /\ rows'[i] = rows[i]
        BY <1>6, <1>9, <3>1
      <4>2. rows[i].source \in Nat
        BY <1>12, <4>1 DEF Row
      <4> QED BY <1>3, <1>6, <1>12, <4>1, <4>2
    <3>2. CASE i > n
      <4>1. i - n \in 1 .. block /\ rows'[i] = c[i - n]
        BY <1>9, <3>2
      <4>2. CASE i - n = pos + 1
        BY <1>5, <1>6, <1>13, <4>1, <4>2
      <4>3. CASE i - n # pos + 1
        BY <1>5, <4>1, <4>3
      <4> QED BY <4>2, <4>3
    <3> QED BY <1>6, <3>1, <3>2
  <2>2. ASSUME NEW i \in 1 .. n, NEW j \in 1 .. n + block, j > n
        PROVE  rows'[i] # rows'[j]
    <3>1. rows'[i] = rows[i] /\ rows[i] \in Row /\ rows[i].source \in Nat
            /\ rows[i].source < IF rows[i].is_fraud THEN b ELSE li
      BY <1>9, <1>12 DEF Row
    <3>2. j - n \in 1 .. block /\ rows'[j] = c[j - n]
      BY <1>9, <2>2
    <3>3. CASE j - n = pos + 1
      BY <1>5, <1>6, <1>13, <3>1, <3>2, <3>3
    <3>4. CASE j - n # pos + 1
      <4>1. ~ c[j - n].is_fraud /\ li <= c[j - n].source
        BY <1>5, <3>2, <3>4
      <4> QED BY <1>6, <3>1, <3>2, <4>1
    <3> QED BY <3>3, <3>4
  <2>3. ASSUME NEW i \in 1 .. n + block, NEW j \in 1 .. n + block, rows'[i] = rows'[j]
        PROVE  i = j
    <3>1. CASE i <= n /\ j <= n
      <4>1. i \in 1 .. n /\ j \in 1 .. n
        BY <1>6, <3>1
      <4> QED BY <1>2, <1>8, <1>9, <2>3, <4>1 DEF Used
    <3>2. CASE i > n /\ j > n
      <4>1. i - n \in 1 .. block /\ j - n \in 1 .. block /\ c[i - n] = c[j - n]
        BY <1>9, <2>3, <3>2
      <4>2. i - n = j - n
        BY <1>5, <4>1
      <4> QED BY <1>6, <4>2
    <3>3. CASE i <= n /\ j > n
      <4>1. i \in 1 .. n
        BY <1>6, <3>3
      <4> QED BY <2>2, <2>3, <3>3, <4>1
    <3>4. CASE i > n /\ j <= n
      <4>1. j \in 1 .. n
        BY <1>6, <3>4
      <4> QED BY <2>2, <2>3, <3>4, <4>1
    <3> QED BY <1>6, <3>1, <3>2, <3>3, <3>4
  <2> QED BY <1>1, <1>2, <1>9, <2>1, <2>3 DEF Used
<1>15. \A j \in 1 .. b + 1 :
         \E i \in Place(j, block) : OnlyFraud(rows', i, Place(j, block))
  <2> SUFFICES ASSUME NEW j \in 1 .. b + 1
               PROVE  \E i \in Place(j, block) : OnlyFraud(rows', i, Place(j, block))
    OBVIOUS
  <2>1. CASE j = b + 1
    <3>1. Place(j, block) = n + 1 .. n + block
      BY <1>3, <1>6, <2>1 DEF Place, n
    <3>2. \A k \in n + 1 .. n + block : k \in 1 .. n + block /\ k > n
      BY <1>6
    <3>3. n + pos + 1 \in n + 1 .. n + block /\ (n + pos + 1) - n = pos + 1
      BY <1>3, <1>6
    <3>4. rows'[n + pos + 1].is_fraud
      BY <1>5, <1>9, <1>13, <3>2, <3>3
    <3>5. ASSUME NEW k \in n + 1 .. n + block, rows'[k].is_fraud
          PROVE  k = n + pos + 1
      <4>1. k - n \in 1 .. block /\ c[k - n].is_fraud
        BY <1>9, <3>2, <3>5
      <4>2. k - n = pos + 1
        BY <1>5, <4>1
      <4> QED BY <1>3, <1>6, <4>2
    <3> QED BY <3>1, <3>3, <3>4, <3>5 DEF OnlyFraud
  <2>2. CASE j # b + 1
    <3>1. j \in 1 .. b
      BY <1>6, <2>2
    <3>2. \A k \in Place(j, block) : k \in 1 .. n
      BY <1>3, <1>6, <3>1, PlaceWithin DEF n
    <3>3. PICK i \in Place(j, block) : OnlyFraud(rows, i, Place(j, block))
      BY <1>2, <3>1 DEF Spread
    <3> QED BY <1>9, <3>2, <3>3 DEF OnlyFraud
  <2> QED BY <2>1, <2>2
<1>16. rows'[1].is_fraud
  <2>1. CASE b = 0
    <3>1. n = 0 /\ pos = 0 /\ 1 \in 1 .. n + block /\ 1 > n /\ 1 - n = pos + 1
      BY <1>3, <1>4, <2>1 DEF n
    <3> QED BY <1>5, <1>9, <1>13, <3>1
  <2>2. CASE b # 0
    <3>1. 1 * block <= b * block
      BY <1>3, <1>6, <2>2, ProductGrows
    <3>2. 1 \in 1 .. n
      BY <1>3, <1>6, <3>1 DEF n
    <3> QED BY <1>2, <1>6, <1>9, <2>2, <3>2 DEF Spread
  <2> QED BY <2>1, <2>2
<1>17. Spread'
  <2>1. b' * block' = Len(rows') /\ Len(rows') \in Nat
    BY <1>1, <1>3, <1>6, <1>9
  <2>2. b' * block' + 1 .. Len(rows') = {}
    BY <2>1
  <2>3. \A j \in 1 .. b' :
          \E i \in Place(j, block') : OnlyFraud(rows', i, Place(j, block'))
    BY <1>1, <1>3, <1>15
  <2> QED BY <1>16, <2>2, <2>3 DEF Spread
<1> QED BY <1>10, <1>11, <1>14, <1>17 DEF DatasetInv

(* What is left of the legitimate rows makes up the total.                  *)
LEMMA WriteKeeps ==
  ASSUME DatasetInv, Write
  PROVE  DatasetInv'
<1>1. /\ b = n_fraud /\ b' = b /\ li' = li /\ written = FALSE /\ written' = TRUE
      /\ total' = total /\ n_fraud' = n_fraud
      /\ rows' = rows \o legit(li, li + (total - Len(rows)))
  BY DEF Write, DatasetInv, Arguments
<1>2. Arguments /\ Progress /\ Used /\ Spread
  BY DEF DatasetInv
<1>3. block' = block /\ block \in Nat \ {0} /\ n_fraud \in Nat \ {0} /\ total \in Nat
        /\ n_fraud * block \in Nat /\ n_fraud * block <= total
  BY <1>1, <1>2, BlockLength DEF block
<1> DEFINE n == n_fraud * block
           m == total - n
           t == legit(li, li + m)
<1>4. li = n - n_fraud /\ li \in Nat
  <2>1. li = n_fraud * (block - 1) /\ n_fraud * (block - 1) \in Nat
    BY <1>1, <1>2, <1>3 DEF Progress
  <2> QED BY <1>3, <2>1, ProductSteps
<1>5. n \in Nat /\ m \in Nat /\ n + m = total /\ li + m = total - n_fraud
  BY <1>3, <1>4
<1>6. rows \in Seq(Row) /\ Len(rows) = n
  BY <1>1, <1>2 DEF Used, Progress
<1>7. rows' = rows \o t
  BY <1>1, <1>6
<1> HIDE DEF n
<1>8. t \in Seq(Row) /\ Len(t) = m
        /\ \A i \in 1 .. m : t[i] = [is_fraud |-> FALSE, source |-> li + i - 1]
  <2> HIDE DEF m
  <2> QED BY <1>3, <1>4, <1>5, Slice
<1> HIDE DEF m, t
<1>9. /\ rows' \in Seq(Row) /\ Len(rows') = n + m
      /\ \A i \in 1 .. n : rows'[i] = rows[i]
      /\ \A i \in 1 .. n + m : i > n => i - n \in 1 .. m /\ rows'[i] = t[i - n]
  BY <1>6, <1>7, <1>8, Joined
<1>10. ASSUME NEW i \in 1 .. n + m, i > n
       PROVE  ~ rows'[i].is_fraud /\ rows'[i].source = li + (i - n) - 1
  <2>1. i - n \in 1 .. m /\ rows'[i] = t[i - n]
    BY <1>9, <1>10
  <2>2. rows'[i] = [is_fraud |-> FALSE, source |-> li + (i - n) - 1]
    BY <1>8, <2>1
  <2> QED BY <2>2
<1>11. \A i \in 1 .. n : rows[i] \in Row /\ rows[i].source < IF rows[i].is_fraud THEN b ELSE li
  BY <1>1, <1>2, <1>6 DEF Used
<1>12. Arguments'
  BY <1>1, <1>2 DEF Arguments
<1>13. Progress'
  BY <1>1, <1>2, <1>3, <1>5, <1>9 DEF Progress
<1>14. Used'
  <2>1. \A i \in 1 .. n + m :
          rows'[i].source < IF rows'[i].is_fraud THEN b ELSE total - n_fraud
    <3> SUFFICES ASSUME NEW i \in 1 .. n + m
                 PROVE  rows'[i].source < IF rows'[i].is_fraud THEN b ELSE total - n_fraud
      OBVIOUS
    <3>1. CASE i <= n
      <4>1. i \in 1 .. n /\ rows'[i] = rows[i]
        BY <1>5, <1>9, <3>1
      <4>2. rows[i].source \in Nat
        BY <1>11, <4>1 DEF Row
      <4>3. li <= total - n_fraud /\ total - n_fraud \in Int
        BY <1>3, <1>4, <1>5
      <4>4. rows[i].source < IF rows[i].is_fraud THEN b ELSE li
        BY <1>11, <4>1
      <4>5. CASE rows[i].is_fraud
        BY <4>1, <4>4, <4>5
      <4>6. CASE ~ rows[i].is_fraud
        BY <1>4, <4>1, <4>2, <4>3, <4>4, <4>6
      <4> QED BY <4>5, <4>6
    <3>2. CASE i > n
      BY <1>4, <1>5, <1>10, <3>2
    <3> QED BY <1>5, <3>1, <3>2
  <2>2. ASSUME NEW i \in 1 .. n, NEW j \in 1 .. n + m, j > n
        PROVE  rows'[i] # rows'[j]
    <3>1. rows'[i] = rows[i] /\ rows[i].source \in Nat
            /\ rows[i].source < IF rows[i].is_fraud THEN b ELSE li
      BY <1>9, <1>11 DEF Row
    <3>2. ~ rows'[j].is_fraud /\ rows'[j].source = li + (j - n) - 1
      BY <1>10, <2>2
    <3> QED BY <1>4, <1>5, <2>2, <3>1, <3>2
  <2>3. ASSUME NEW i \in 1 .. n + m, NEW j \in 1 .. n + m, rows'[i] = rows'[j]
        PROVE  i = j
    <3>1. CASE i <= n /\ j <= n
      <4>1. i \in 1 .. n /\ j \in 1 .. n
        BY <1>5, <3>1
      <4> QED BY <1>2, <1>6, <1>9, <2>3, <4>1 DEF Used
    <3>2. CASE i > n /\ j > n
      BY <1>4, <1>5, <1>10, <2>3, <3>2
    <3>3. CASE i <= n /\ j > n
      <4>1. i \in 1 .. n
        BY <1>5, <3>3
      <4> QED BY <2>2, <2>3, <3>3, <4>1
    <3>4. CASE i > n /\ j <= n
      <4>1. j \in 1 .. n
        BY <1>5, <3>4
      <4> QED BY <2>2, <2>3, <3>4, <4>1
    <3> QED BY <1>5, <3>1, <3>2, <3>3, <3>4
  <2> QED BY <1>1, <1>9, <2>1, <2>3 DEF Used
<1>15. Spread'
  <2>1. b * block = n
    BY <1>1 DEF n
  <2>2. ASSUME NEW j \in 1 .. b
        PROVE  \E i \in Place(j, block) : OnlyFraud(rows', i, Place(j, block))
    <3>1. \A k \in Place(j, block) : k \in 1 .. n
      BY <1>1, <1>3, <2>1, <2>2, PlaceWithin
    <3>2. PICK i \in Place(j, block) : OnlyFraud(rows, i, Place(j, block))
      BY <1>2, <2>2 DEF Spread
    <3> QED BY <1>9, <3>1, <3>2 DEF OnlyFraud
  <2>3. rows'[1].is_fraud
    <3>1. 1 * block <= n_fraud * block
      BY <1>3, ProductGrows
    <3>2. 1 \in 1 .. n
      BY <1>3, <1>5, <3>1 DEF n
    <3>3. rows[1].is_fraud
      BY <1>1, <1>2, <1>3 DEF Spread
    <3> QED BY <1>9, <3>2, <3>3
  <2>4. \A i \in n + 1 .. Len(rows') : ~ rows'[i].is_fraud
    <3>1. \A i \in n + 1 .. n + m : i \in 1 .. n + m /\ i > n
      BY <1>5
    <3> QED BY <1>9, <1>10, <3>1
  <2>5. b' * block' = n
    BY <1>1, <1>3, <2>1
  <2> QED BY <1>1, <1>3, <2>2, <2>3, <2>4, <2>5 DEF Spread
<1> QED BY <1>12, <1>13, <1>14, <1>15 DEF DatasetInv

-----------------------------------------------------------------------------
LEMMA DatasetInit == Init => DatasetInv
<1> SUFFICES ASSUME Init PROVE DatasetInv
  OBVIOUS
<1>1. /\ total \in 1 .. MaxTotal /\ n_fraud \in 1 .. total
      /\ b = 0 /\ li = 0 /\ rows = << >> /\ written = FALSE
  BY DEF Init
<1>2. Arguments
  <2>1. total \in Nat /\ n_fraud \in Nat
    BY <1>1, DatasetAssumption
  <2>2. b \in 0 .. n_fraud
    BY <1>1, <2>1
  <2>3. written \in BOOLEAN /\ ~ written
    BY <1>1
  <2> QED BY <1>1, <2>2, <2>3, Zenon DEF Arguments
<1>3. block \in Nat /\ 0 * (block - 1) = 0 /\ 0 * block = 0
  BY <1>2, BlockLength
<1>4. rows \in Seq(Row) /\ Len(rows) = 0 /\ 1 .. 0 = {} /\ 0 + 1 .. 0 = {}
  BY <1>1
<1> QED BY <1>1, <1>2, <1>3, <1>4 DEF DatasetInv, Progress, Used, Spread

LEMMA DatasetNext == DatasetInv /\ [Next]_vars => DatasetInv'
<1> SUFFICES ASSUME DatasetInv, [Next]_vars PROVE DatasetInv'
  OBVIOUS
<1>1. CASE Block
  BY <1>1, BlockKeeps
<1>2. CASE Write
  BY <1>2, WriteKeeps
<1>3. CASE UNCHANGED vars
  <2>1. UNCHANGED <<total, n_fraud, b, li, rows, written>> /\ block' = block
    BY <1>3 DEF vars, block
  <2>2. Arguments' /\ Progress'
    BY <2>1 DEF DatasetInv, Arguments, Progress
  <2>3. Used' /\ Spread'
    BY <2>1 DEF DatasetInv, Used, Spread
  <2> QED BY <2>2, <2>3 DEF DatasetInv
<1> QED BY <1>1, <1>2, <1>3 DEF Next, Finished

LEMMA DatasetInvariant == Spec => []DatasetInv
<1> QED BY DatasetInit, DatasetNext, PTL DEF Spec

-----------------------------------------------------------------------------
(* "so every size lands on an exact, known fraud count": in any dataset the *)
(* first k blocks hold k frauds, one each, the first of them in row 0.     *)
THEOREM PrefixesAlwaysExact == Spec => []PrefixesAreExact
<1>1. DatasetInv => PrefixesAreExact
  <2> SUFFICES ASSUME DatasetInv, NEW k \in 1 .. b
               PROVE  /\ 1 \in Frauds(k * block)
                      /\ \A j \in 1 .. k :
                           \E i \in Frauds(k * block) :
                             Frauds(k * block) \intersect ((j - 1) * block + 1 .. j * block) = {i}
    BY DEF PrefixesAreExact
  <2>1. b \in Nat /\ k \in Nat \ {0} /\ block \in Nat \ {0} /\ k * block \in Nat
    BY BlockLength DEF DatasetInv, Arguments
  <2>2. 1 \in Frauds(k * block)
    <3>1. 1 * block <= k * block
      BY <2>1, ProductGrows
    <3>2. 1 \in 1 .. k * block
      BY <2>1, <3>1
    <3>3. rows[1].is_fraud
      BY <2>1 DEF DatasetInv, Spread
    <3> QED BY <3>2, <3>3 DEF Frauds
  <2>3. ASSUME NEW j \in 1 .. k
        PROVE  \E i \in Frauds(k * block) : Frauds(k * block) \intersect Place(j, block) = {i}
    <3>1. j \in 1 .. b
      BY <2>1
    <3>2. PICK i \in Place(j, block) : OnlyFraud(rows, i, Place(j, block))
      BY <3>1 DEF DatasetInv, Spread
    <3>3. \A x \in Place(j, block) : x \in 1 .. k * block
      BY <2>1, PlaceWithin
    <3> QED BY <3>2, <3>3 DEF OnlyFraud, Frauds
  <2> QED BY <2>2, <2>3 DEF Place
<1> QED BY <1>1, DatasetInvariant, PTL

(* The file has the rows asked for, none twice, and only whole blocks end   *)
(* in a fraud, for every total and every number of frauds.                 *)
THEOREM WorkloadAlwaysWhole == Spec => []WorkloadIsWhole
<1>1. DatasetInv => WorkloadIsWhole
  <2> SUFFICES ASSUME DatasetInv, written
               PROVE  /\ Len(rows) = total
                      /\ IsInjective(rows)
                      /\ rows[total].is_fraud => total % n_fraud = 0
    BY DEF WorkloadIsWhole
  <2>1. Len(rows) = total /\ b = n_fraud
    BY DEF DatasetInv, Progress, Arguments
  <2>2. IsInjective(rows)
    <3>1. DOMAIN rows = 1 .. Len(rows)
      BY DEF DatasetInv, Used
    <3> QED BY <3>1 DEF DatasetInv, Used, IsInjective
  <2>3. ASSUME rows[total].is_fraud PROVE total % n_fraud = 0
    <3> DEFINE n == n_fraud * block
    <3>1. n \in Nat /\ n <= total /\ total \in Nat /\ total - n = total % n_fraud
      BY BlockLength DEF DatasetInv
    <3>2. total \notin b * block + 1 .. Len(rows)
      BY <2>3 DEF DatasetInv, Spread
    <3>3. total \notin n + 1 .. total
      BY <2>1, <3>2
    <3> HIDE DEF n
    <3>4. n = total
      BY <3>1, <3>3
    <3> QED BY <3>1, <3>4
  <2> QED BY <2>1, <2>2, <2>3
<1> QED BY <1>1, DatasetInvariant, PTL
=============================================================================
