------------------------------- MODULE Bitmap --------------------------------
(***************************************************************************)
(* The bitmaps that say which slots are taken, and the table of a poll.    *)
(*                                                                         *)
(* A bitmap for `size' slots is an array of size \div W words, W being the *)
(* bytes of a word; a word is the set of the bits that are on.  Of each    *)
(* word only the W lowest bits are used, as the macros divide by the bytes *)
(* of a word and not by its bits.  The other modules take a table for the  *)
(* set of its taken slots, which is what the theorems here allow.          *)
(***************************************************************************)
EXTENDS Integers, FiniteSets, FiniteSetTheorems, TLAPS

\* The compilers' uintptr_t: of four bytes or of eight.
WordBytes == {4, 8}

Words(W, size) == size \div W
Bitmaps(W, size) == [0 .. Words(W, size) - 1 -> SUBSET (0 .. 8 * W - 1)]

Get(W, bmp, bit) == (bit % W) \in bmp[bit \div W]
On(W, bmp, bit) == [bmp EXCEPT ![bit \div W] = @ \cup {bit % W}]
Off(W, bmp, bit) == [bmp EXCEPT ![bit \div W] = @ \ {bit % W}]

\* The words the start of the server writes for a bitmap: one for every slot.
StartWrites(size) == 0 .. size - 1

\* What it leaves of the bitmap itself.
Started(W, bmp, size) == [w \in DOMAIN bmp |-> IF w \in StartWrites(size) THEN {} ELSE bmp[w]]

-----------------------------------------------------------------------------
\* The entries of a poll, when `users' are the sessions and open[u] the
\* connected channels of u: the listener, the control connections, the channels.
Listener == <<-1, -1>>
Control(u) == <<u, -1>>
Entries(users, open) ==
  {Listener} \cup {Control(u) : u \in users}
    \cup UNION {{<<u, j>> : j \in open[u]} : u \in users}

\* The entries of polls[], and those "reserved to special purposes".
Reserved == 32
PollSlots(U, D) == U * D + Reserved
-----------------------------------------------------------------------------
\* What the compiler's division does with the number of a slot.
LEMMA Division ==
  ASSUME NEW W \in WordBytes, NEW k \in Nat, NEW b \in 0 .. k * W - 1
  PROVE  /\ b \div W \in 0 .. k - 1
         /\ b % W \in 0 .. W - 1
         /\ b = W * (b \div W) + (b % W)
<1>1. CASE W = 4
  <2>1. /\ b \div 4 \in Int /\ b % 4 \in 0 .. 3
        /\ b = 4 * (b \div 4) + (b % 4)
    BY <1>1
  <2>2. 0 <= b \div 4 /\ b \div 4 <= k - 1
    BY <1>1, <2>1
  <2> QED BY <1>1, <2>1, <2>2
<1>2. CASE W = 8
  <2>1. /\ b \div 8 \in Int /\ b % 8 \in 0 .. 7
        /\ b = 8 * (b \div 8) + (b % 8)
    BY <1>2
  <2>2. 0 <= b \div 8 /\ b \div 8 <= k - 1
    BY <1>2, <2>1
  <2> QED BY <1>2, <2>1, <2>2
<1> QED BY <1>1, <1>2 DEF WordBytes

LEMMA SameBit ==
  ASSUME NEW W \in WordBytes, NEW k \in Nat,
         NEW b \in 0 .. k * W - 1, NEW c \in 0 .. k * W - 1,
         b \div W = c \div W, b % W = c % W
  PROVE  b = c
<1>1. b = W * (b \div W) + (b % W) /\ c = W * (c \div W) + (c % W)
  BY Division
<1> DEFINE q == b \div W
           r == b % W
<1>2. b = W * q + r /\ c = W * q + r
  BY <1>1
<1> QED BY <1>2

\* A bitmap of as many words as its size asks for keeps the words of every slot.
LEMMA WordsOfSize ==
  ASSUME NEW W \in WordBytes, NEW k \in Nat
  PROVE  Words(W, k * W) = k
BY DEF WordBytes, Words

\* Taking or freeing a slot is that and nothing else: no other slot changes, and
\* the word it is in is a word of the bitmap (BMP_ON, BMP_OFF and BMP_GET, where
\* the size is a multiple of the bytes of a word, as 64 and 128 are).  So a
\* table is the set of its taken slots.
THEOREM SlotsIndependent ==
  ASSUME NEW W \in WordBytes, NEW k \in Nat, NEW bmp \in Bitmaps(W, k * W),
         NEW b \in 0 .. k * W - 1
  PROVE  /\ b \div W \in DOMAIN bmp
         /\ On(W, bmp, b) \in Bitmaps(W, k * W) /\ Off(W, bmp, b) \in Bitmaps(W, k * W)
         /\ \A c \in 0 .. k * W - 1 :
              /\ Get(W, On(W, bmp, b), c) <=> c = b \/ Get(W, bmp, c)
              /\ Get(W, Off(W, bmp, b), c) <=> c # b /\ Get(W, bmp, c)
<1>1. Bitmaps(W, k * W) = [0 .. k - 1 -> SUBSET (0 .. 8 * W - 1)]
  BY WordsOfSize DEF Bitmaps
<1>2. b \div W \in 0 .. k - 1 /\ b % W \in 0 .. W - 1
  BY Division
<1>3. b % W \in 0 .. 8 * W - 1
  BY <1>2 DEF WordBytes
<1>4. b \div W \in DOMAIN bmp
  BY <1>1, <1>2
<1>5. On(W, bmp, b) \in Bitmaps(W, k * W) /\ Off(W, bmp, b) \in Bitmaps(W, k * W)
  BY <1>1, <1>2, <1>3 DEF On, Off
<1>6. ASSUME NEW c \in 0 .. k * W - 1
      PROVE  /\ Get(W, On(W, bmp, b), c) <=> c = b \/ Get(W, bmp, c)
             /\ Get(W, Off(W, bmp, b), c) <=> c # b /\ Get(W, bmp, c)
  <2>1. c \div W \in 0 .. k - 1
    BY Division
  <2>2. CASE c \div W # b \div W
    BY <1>1, <2>1, <2>2 DEF Get, On, Off
  <2>3. CASE c \div W = b \div W
    <3>1. c % W = b % W => c = b
      BY <2>3, SameBit
    <3> QED BY <1>1, <1>2, <2>3, <3>1 DEF Get, On, Off
  <2> QED BY <2>2, <2>3
<1> QED BY <1>4, <1>5, <1>6

\* The start of the server leaves no slot taken, but it writes words that are
\* not there: it counts slots where it indexes words (ftpd_start_server).
THEOREM StartWritesBeyond ==
  ASSUME NEW W \in WordBytes, NEW k \in Nat \ {0}, NEW bmp \in Bitmaps(W, k * W)
  PROVE  /\ \A c \in 0 .. k * W - 1 : ~Get(W, Started(W, bmp, k * W), c)
         /\ k * W - 1 \in StartWrites(k * W) /\ k * W - 1 \notin DOMAIN bmp
<1>1. DOMAIN bmp = 0 .. k - 1
  BY WordsOfSize DEF Bitmaps
<1>2. k * W - 1 > k - 1 /\ k * W - 1 >= 0 /\ 0 .. k - 1 \subseteq 0 .. k * W - 1
  BY DEF WordBytes
<1>3. ASSUME NEW c \in 0 .. k * W - 1
      PROVE  ~Get(W, Started(W, bmp, k * W), c)
  <2>1. c \div W \in 0 .. k - 1
    BY Division
  <2>2. Started(W, bmp, k * W)[c \div W] = {}
    BY <1>1, <1>2, <2>1 DEF Started, StartWrites
  <2> QED BY <2>2 DEF Get
<1>4. k * W - 1 \in StartWrites(k * W) /\ k * W - 1 \notin DOMAIN bmp
  <2>1. k * W - 1 \in Int
    BY DEF WordBytes
  <2> QED BY <1>1, <1>2, <2>1 DEF StartWrites
<1> QED BY <1>3, <1>4

-----------------------------------------------------------------------------
\* What there can be entries for: D channels and one connection of U sessions.
LEMMA TableSize ==
  ASSUME NEW U \in Nat, NEW D \in Nat
  PROVE  /\ IsFiniteSet((0 .. U - 1) \X (-1 .. D - 1))
         /\ Cardinality((0 .. U - 1) \X (-1 .. D - 1)) = U * (D + 1)
<1>1. IsFiniteSet(0 .. U - 1) /\ Cardinality(0 .. U - 1) = IF 0 > U - 1 THEN 0 ELSE U - 1 - 0 + 1
  <2>1. U - 1 \in Int /\ 0 \in Int
    OBVIOUS
  <2> QED BY <2>1, FS_Interval
<1>2. IsFiniteSet(-1 .. D - 1) /\ Cardinality(-1 .. D - 1) = IF -1 > D - 1 THEN 0 ELSE D - 1 - (-1) + 1
  <2>1. D - 1 \in Int /\ -1 \in Int
    OBVIOUS
  <2> QED BY <2>1, FS_Interval
<1> DEFINE A == 0 .. U - 1
           B == -1 .. D - 1
<1>3. IsFiniteSet(A) /\ Cardinality(A) = U /\ IsFiniteSet(B) /\ Cardinality(B) = D + 1
  BY <1>1, <1>2
<1>4. IsFiniteSet(A \X B) /\ Cardinality(A \X B) = U * (D + 1)
  <2> HIDE DEF A, B
  <2>1. IsFiniteSet(A \X B) /\ Cardinality(A \X B) = Cardinality(A) * Cardinality(B)
    BY <1>3, FS_Product
  <2> QED BY <1>3, <2>1
<1> QED BY <1>4

\* Entries are pairs of a session and one of its channels, or of it alone.
LEMMA EntriesBounded ==
  ASSUME NEW U \in Nat, NEW D \in Nat,
         NEW users \in SUBSET (0 .. U - 1), NEW open \in [users -> SUBSET (0 .. D - 1)]
  PROVE  /\ IsFiniteSet(Entries(users, open))
         /\ Cardinality(Entries(users, open)) <= 1 + U * (D + 1)
<1> DEFINE All == (0 .. U - 1) \X (-1 .. D - 1)
<1>2. IsFiniteSet(All) /\ Cardinality(All) = U * (D + 1)
  BY TableSize
<1>3. /\ IsFiniteSet(All \cup {Listener})
      /\ Cardinality(All \cup {Listener}) <= 1 + U * (D + 1)
  BY <1>2, FS_AddElement
<1>4. Entries(users, open) \subseteq All \cup {Listener}
  BY DEF Entries, Control
<1>5. /\ IsFiniteSet(Entries(users, open))
      /\ Cardinality(Entries(users, open)) <= Cardinality(All \cup {Listener})
  BY <1>3, <1>4, FS_Subset
<1>6. U * (D + 1) \in Nat /\ Cardinality(Entries(users, open)) \in Nat /\ Cardinality(All \cup {Listener}) \in Nat
  BY <1>3, <1>5, FS_CardinalityType
<1> QED BY <1>3, <1>5, <1>6

\* As long as there are not more sessions than reserved entries, less one, a
\* poll fits its table, however many channels the sessions open
\* (ftpd_server_loop counts without looking at MAX_POLLSLOTS).
THEOREM PollFits ==
  ASSUME NEW U \in Nat, NEW D \in Nat, U < Reserved,
         NEW users \in SUBSET (0 .. U - 1), NEW open \in [users -> SUBSET (0 .. D - 1)]
  PROVE  Cardinality(Entries(users, open)) <= PollSlots(U, D)
<1>1. U * (D + 1) = U * D + U /\ U * D \in Nat
  OBVIOUS
<1>2. /\ Cardinality(Entries(users, open)) \in Nat
      /\ Cardinality(Entries(users, open)) <= 1 + U * (D + 1)
  BY EntriesBounded, FS_CardinalityType
<1> QED BY <1>1, <1>2 DEF PollSlots, Reserved

\* With more, as with MAX_USERS = 64, the entries of a full server do not fit.
THEOREM PollOverruns ==
  ASSUME NEW U \in Nat, NEW D \in Nat, U >= Reserved
  PROVE  LET users == 0 .. U - 1
             open == [u \in users |-> 0 .. D - 1]
         IN Cardinality(Entries(users, open)) > PollSlots(U, D)
<1> DEFINE users == 0 .. U - 1
           open == [u \in users |-> 0 .. D - 1]
           All == (0 .. U - 1) \X (-1 .. D - 1)
<1>2. IsFiniteSet(All) /\ Cardinality(All) = U * (D + 1)
  BY TableSize
<1>3. Listener \notin All
  BY DEF Listener
<1>4. Cardinality(All \cup {Listener}) = U * (D + 1) + 1
  BY <1>2, <1>3, FS_AddElement
<1>5. Entries(users, open) = All \cup {Listener}
  <2>1. Entries(users, open) \subseteq All \cup {Listener}
    BY DEF Entries, Control
  <2>2. ASSUME NEW u \in users, NEW j \in -1 .. D - 1
        PROVE  <<u, j>> \in Entries(users, open)
    <3>1. CASE j = -1
      BY <3>1 DEF Entries, Control
    <3>2. CASE j \in 0 .. D - 1
      <4>1. <<u, j>> \in {<<u, i>> : i \in open[u]}
        BY <3>2
      <4>2. {<<u, i>> : i \in open[u]} \in {{<<v, i>> : i \in open[v]} : v \in users}
        OBVIOUS
      <4>3. <<u, j>> \in UNION {{<<v, i>> : i \in open[v]} : v \in users}
        BY <4>1, <4>2
      <4> QED BY <4>3 DEF Entries
    <3> QED BY <3>1, <3>2
  <2>3. Listener \in Entries(users, open)
    BY DEF Entries
  <2> QED BY <2>1, <2>2, <2>3
<1>6. U * (D + 1) = U * D + U /\ U * D \in Nat
  OBVIOUS
<1>7. Cardinality(Entries(users, open)) = U * D + U + 1
  BY <1>4, <1>5, <1>6
<1> QED BY <1>6, <1>7 DEF PollSlots, Reserved
=============================================================================
