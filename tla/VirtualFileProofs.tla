-------------------------- MODULE VirtualFileProofs --------------------------
(***************************************************************************)
(* The paths, for working directories, arguments and disks of any size:    *)
(* where CWD leads, what it accepts, and which names lead to the same      *)
(* directory or file.                                                      *)
(*                                                                         *)
(* The names between the slashes of a string, and the directory they lead  *)
(* to, are computed token by token and name by name.  What is proved of    *)
(* them is proved by the shortest string, or list of names, for which it   *)
(* would fail (LeastOf, SeqInduct, UpTo).                                  *)
(***************************************************************************)
EXTENDS VirtualFiles, WellFoundedInduction, NaturalsInduction, SequenceTheorems, TLAPS

\* The tokens of a path: those of the arguments, and those the code adds.
Token ==
  STRING \cup {"/", "\\", ":", ".", "mnt", "home", "tmp", "Users", "Temp", WinDrive}

\* Those of a working directory: vfs_fix_slashes takes one kind of slash away.
Plain == Token \ {"\\"}

\* An argument is a sequence of tokens.
LEMMA ArgTokens == \A a \in Args : a \in Seq(Token)
<1>1. ASSUME NEW a \in Args PROVE a \in Seq(Token)
  <2>1. a \in Seq(STRING)
    BY ArgsAssumption
  <2>2. \A i \in 1 .. Len(a) : a[i] \in Token
    BY <2>1 DEF Token
  <2>3. a \in [1 .. Len(a) -> Token] /\ Len(a) \in Nat
    BY <2>1, <2>2
  <2> QED BY <2>3
<1> QED BY <1>1

\* Paths and their parts put together, in either order.
LEMMA Associates == \A x, y, z \in Seq(Token) : (x \o y) \o z = x \o (y \o z)
<1>1. ASSUME NEW x \in Seq(Token), NEW y \in Seq(Token), NEW z \in Seq(Token)
      PROVE  (x \o y) \o z = x \o (y \o z)
  BY ONLY x \in Seq(Token), y \in Seq(Token), z \in Seq(Token), ConcatAssociative
<1> QED BY <1>1

\* A set of naturals that has a member has a least one.
LEMMA LeastOf ==
  ASSUME NEW T, T \subseteq Nat, T # {}
  PROVE  \E n \in T : \A k \in T : n <= k
<1> DEFINE R == {p \in Nat \X Nat : p[1] < p[2]}
<1>1. IsWellFoundedOn(R, Nat)
  BY NatLessThanWellFounded DEF OpToRel
<1>2. PICK n \in T : \A k \in T : ~(<<k, n>> \in R)
  <2> HIDE DEF R
  <2> QED BY <1>1, WFMin
<1>3. ASSUME NEW k \in T PROVE n <= k
  <2>1. k \in Nat /\ n \in Nat
    OBVIOUS
  <2>2. ~(k < n)
    BY <1>2, <2>1
  <2> QED BY <2>1, <2>2
<1> QED BY <1>3

\* Induction over sequences, for a property that is given as a set.
LEMMA SeqInduct ==
  ASSUME NEW A, NEW T, <<>> \in T,
         \A s \in Seq(A), e \in A : s \in T => Append(s, e) \in T
  PROVE  Seq(A) \subseteq T
<1> SUFFICES ASSUME NEW s \in Seq(A), s \notin T PROVE FALSE
  OBVIOUS
<1> DEFINE Lens == {Len(q) : q \in {r \in Seq(A) : r \notin T}}
<1>1. Lens \subseteq Nat /\ Lens # {}
  <2>1. \A q \in Seq(A) : Len(q) \in Nat
    OBVIOUS
  <2>2. Len(s) \in Lens
    OBVIOUS
  <2> QED BY <2>1, <2>2
<1>2. PICK n \in Lens : \A k \in Lens : n <= k
  <2> HIDE DEF Lens
  <2> QED BY <1>1, LeastOf
<1>3. PICK q \in Seq(A) : q \notin T /\ n = Len(q)
  OBVIOUS
<1>4. q # <<>>
  BY <1>3
<1>5. PICK p \in Seq(A), e \in A : q = Append(p, e)
  BY <1>4, SequenceEmptyOrAppend
<1>6. Len(q) = Len(p) + 1 /\ Len(p) \in Nat
  BY <1>5
<1>7. p \in T
  BY <1>2, <1>3, <1>6
<1> QED BY <1>3, <1>5, <1>7

\* A set of numbers that holds 0 and, with each, the next, up to a bound.
LEMMA UpTo ==
  ASSUME NEW n \in Nat, NEW T, 0 \in T, \A i \in 1 .. n : i - 1 \in T => i \in T
  PROVE  n \in T
<1> SUFFICES ASSUME n \notin T PROVE FALSE
  OBVIOUS
<1> DEFINE Out == {i \in 0 .. n : i \notin T}
<1>1. Out \subseteq Nat /\ Out # {}
  OBVIOUS
<1>2. PICK m \in Out : \A k \in Out : m <= k
  <2> HIDE DEF Out
  <2> QED BY <1>1, LeastOf
<1>3. m \in 1 .. n /\ m - 1 \in 0 .. n /\ ~(m <= m - 1)
  OBVIOUS
<1> QED BY <1>2, <1>3

\* What was put behind a sequence is its end.
LEMMA Ended ==
  ASSUME NEW A, NEW s \in Seq(A), NEW e \in A
  PROVE  Front(Append(s, e)) = s /\ Last(Append(s, e)) = e
BY DEF Front, Last

\* The ends of a sequence that is not empty.
LEMMA Ends ==
  ASSUME NEW A, NEW s \in Seq(A), s # <<>>
  PROVE  Front(s) \in Seq(A) /\ Last(s) \in A /\ s = Append(Front(s), Last(s))
<1>1. PICK q \in Seq(A), x \in A : s = Append(q, x)
  BY SequenceEmptyOrAppend
<1>2. Front(s) = q /\ Last(s) = x
  BY <1>1, Ended
<1> QED BY <1>1, <1>2

\* A recursive function over the places of a string: the names up to each.
NamesUpto(f, s, n) ==
  f = [i \in 0 .. n |-> IF i = 0 THEN << <<>> >> ELSE WithToken(f[i - 1], s[i])]

\* There is such a function for every string, and Names is its last value.
LEMMA NamesDefined ==
  ASSUME NEW A, NEW s \in Seq(A)
  PROVE  \E f : Names(s) = f[Len(s)] /\ NamesUpto(f, s, Len(s))
<1> DEFINE T == {n \in 0 .. Len(s) : \E f : NamesUpto(f, s, n)}
           all == CHOOSE f : NamesUpto(f, s, Len(s))
<1>1. Len(s) \in Nat
  OBVIOUS
<1>2. 0 \in T
  <2>1. NamesUpto([i \in 0 .. 0 |-> << <<>> >>], s, 0)
    BY DEF NamesUpto
  <2> QED BY <1>1, <2>1
<1>3. ASSUME NEW n \in 1 .. Len(s), n - 1 \in T PROVE n \in T
  <2>1. PICK g : NamesUpto(g, s, n - 1)
    BY <1>3
  <2> DEFINE h == [i \in 0 .. n |-> IF i = n THEN WithToken(g[n - 1], s[n]) ELSE g[i]]
  <2>2. \A i \in 0 .. n - 1 : h[i] = g[i]
    BY <1>1
  <2>3. h[n] = WithToken(h[n - 1], s[n]) /\ n # 0
    BY <1>1, <2>2
  <2>4. \A i \in 0 .. n - 1 : g[i] = IF i = 0 THEN << <<>> >> ELSE WithToken(g[i - 1], s[i])
    BY <2>1 DEF NamesUpto
  <2>5. \A i \in 0 .. n - 1 : h[i] = IF i = 0 THEN << <<>> >> ELSE WithToken(h[i - 1], s[i])
    <3> HIDE DEF h
    <3> QED BY <1>1, <2>2, <2>4
  <2>6. \A i \in 0 .. n : h[i] = IF i = 0 THEN << <<>> >> ELSE WithToken(h[i - 1], s[i])
    <3>1. \A i \in 0 .. n : i = n \/ i \in 0 .. n - 1
      BY <1>1
    <3> HIDE DEF h
    <3> QED BY <2>3, <2>5, <3>1
  <2>7. NamesUpto(h, s, n)
    BY <2>6 DEF NamesUpto
  <2> QED BY <2>7
<1>4. Len(s) \in T
  <2> HIDE DEF T
  <2> QED BY <1>1, <1>2, <1>3, UpTo
<1>5. NamesUpto(all, s, Len(s))
  BY <1>4
<1>6. Names(s) = all[Len(s)]
  BY DEF Names, NamesUpto
<1> HIDE DEF all
<1> QED BY <1>5, <1>6

\* The names of the empty string, and of one with one more token.
LEMMA NamesEmpty == Names(<<>>) = << <<>> >>
<1>1. <<>> \in Seq({}) /\ Len(<<>>) = 0
  OBVIOUS
<1>2. PICK f : Names(<<>>) = f[Len(<<>>)] /\ NamesUpto(f, <<>>, Len(<<>>))
  BY <1>1, NamesDefined
<1>3. f[0] = << <<>> >>
  BY <1>1, <1>2 DEF NamesUpto
<1> QED BY <1>1, <1>2, <1>3

\* One more token.
LEMMA NamesAppend ==
  ASSUME NEW A, NEW s \in Seq(A), NEW t \in A
  PROVE  Names(Append(s, t)) = WithToken(Names(s), t)
<1> DEFINE r == Append(s, t)
           n == Len(s)
<1>1. /\ r \in Seq(A) /\ n \in Nat /\ Len(r) = n + 1 /\ r[n + 1] = t
      /\ \A i \in 1 .. n : r[i] = s[i]
  OBVIOUS
<1>2. PICK f : Names(s) = f[n] /\ NamesUpto(f, s, n)
  BY NamesDefined
<1>3. PICK g : Names(r) = g[Len(r)] /\ NamesUpto(g, r, Len(r))
  <2> HIDE DEF r
  <2> QED BY <1>1, NamesDefined
<1> HIDE DEF r, n
<1>4. f[0] = << <<>> >> /\ g[0] = << <<>> >>
  BY <1>1, <1>2, <1>3 DEF NamesUpto
<1>5. \A i \in 1 .. n : f[i] = WithToken(f[i - 1], s[i]) /\ g[i] = WithToken(g[i - 1], s[i])
  <2>1. ASSUME NEW i \in 1 .. n PROVE f[i] = WithToken(f[i - 1], s[i])
    <3>1. i \in 0 .. n /\ i # 0
      BY ONLY <1>1, i \in 1 .. n
    <3> QED BY <1>2, <3>1 DEF NamesUpto
  <2>2. ASSUME NEW i \in 1 .. n PROVE g[i] = WithToken(g[i - 1], s[i])
    <3>1. i \in 0 .. Len(r) /\ i # 0 /\ r[i] = s[i]
      BY ONLY <1>1, i \in 1 .. n
    <3> QED BY <1>3, <3>1 DEF NamesUpto
  <2> QED BY <2>1, <2>2
<1>6. g[n + 1] = WithToken(g[n], t)
  BY <1>1, <1>3 DEF NamesUpto
<1>7. f[n] = g[n]
  <2> DEFINE T == {i \in 0 .. n : f[i] = g[i]}
  <2>1. 0 \in T
    BY <1>1, <1>4
  <2>2. \A i \in 1 .. n : i - 1 \in T => i \in T
    BY <1>1, <1>5
  <2>3. n \in T
    <3> HIDE DEF T
    <3> QED BY <1>1, <2>1, <2>2, UpTo
  <2> QED BY <2>3
<1> QED BY <1>1, <1>2, <1>3, <1>6, <1>7 DEF r

\* What is put behind a sequence, and one more behind that.
LEMMA Behind ==
  ASSUME NEW A, NEW p \in Seq(A), NEW q \in Seq(A), NEW e \in A
  PROVE  /\ p \o q \in Seq(A) /\ Append(q, e) \in Seq(A) /\ Append(q, e) # <<>>
         /\ p \o Append(q, e) = Append(p \o q, e)
         /\ Append(p, e) = p \o <<e>> /\ <<e>> \in Seq(A)
<1>1. <<e>> \in Seq(A) /\ p \o q \in Seq(A) /\ Append(q, e) \in Seq(A) /\ Append(q, e) # <<>>
  OBVIOUS
<1>2. Append(q, e) = q \o <<e>> /\ Append(p, e) = p \o <<e>> /\ Append(p \o q, e) = (p \o q) \o <<e>>
  BY <1>1, AppendIsConcat
<1>3. (p \o q) \o <<e>> = p \o (q \o <<e>>)
  BY <1>1, ConcatAssociative
<1> QED BY <1>1, <1>2, <1>3

Slashes == {"/", "\\"}

\* Both slashes are tokens.
LEMMA SlashTokens == Slashes \subseteq Token
BY DEF Slashes, Token

\* The names between the slashes have none.
LEMMA NamesTyped ==
  ASSUME NEW A, NEW s \in Seq(A)
  PROVE  Names(s) \in Seq(Seq(A \ Slashes)) /\ Names(s) # <<>>
<1> DEFINE B == Seq(A \ Slashes)
           T == {r \in Seq(A) : Names(r) \in Seq(B) /\ Names(r) # <<>>}
<1>1. <<>> \in T
  <2>1. <<>> \in B /\ <<>> \in Seq(A)
    OBVIOUS
  <2> HIDE DEF B
  <2>2. << <<>> >> \in Seq(B) /\ << <<>> >> # <<>>
    BY <2>1
  <2> QED BY <2>1, <2>2, NamesEmpty
<1>2. ASSUME NEW r \in Seq(A), NEW t \in A, r \in T PROVE Append(r, t) \in T
  <2>1. Append(r, t) \in Seq(A) /\ Names(Append(r, t)) = WithToken(Names(r), t)
    BY NamesAppend
  <2>2. PICK names \in Seq(B) : names = Names(r) /\ names # <<>>
    BY <1>2
  <2>3. WithToken(names, t) \in Seq(B) /\ WithToken(names, t) # <<>>
    <3>1. Front(names) \in Seq(B) /\ Last(names) \in B /\ <<>> \in B
      <4> HIDE DEF B
      <4>1. Front(names) \in Seq(B) /\ Last(names) \in B
        BY <2>2, Ends
      <4>2. <<>> \in B
        BY DEF B
      <4> QED BY <4>1, <4>2
    <3>2. CASE t \in Slashes
      <4>1. WithToken(names, t) = Append(names, <<>>)
        BY <3>2 DEF WithToken, Slashes
      <4> HIDE DEF B
      <4> QED BY <2>2, <3>1, <4>1
    <3>3. CASE t \notin Slashes
      <4>1. t \in A \ Slashes
        BY <3>3
      <4>2. Append(Last(names), t) \in B
        BY <3>1, <4>1
      <4>3. WithToken(names, t) = Append(Front(names), Append(Last(names), t))
        BY <3>3 DEF WithToken, Slashes
      <4> DEFINE l == Append(Last(names), t)
                 f == Front(names)
      <4>4. l \in B /\ f \in Seq(B) /\ WithToken(names, t) = Append(f, l)
        BY <3>1, <4>2, <4>3
      <4> HIDE DEF B, f, l
      <4> QED BY <4>4
    <3> QED BY <3>2, <3>3
  <2> QED BY <2>1, <2>2, <2>3
<1>3. Seq(A) \subseteq T
  <2> HIDE DEF T
  <2> QED BY <1>1, <1>2, SeqInduct
<1> QED BY <1>3

\* A token behind two lists of names goes to the second.
LEMMA WithTokenBehind ==
  ASSUME NEW A, NEW p \in Seq(Seq(A)), NEW q \in Seq(Seq(A)), q # <<>>, NEW t \in A
  PROVE  WithToken(p \o q, t) = p \o WithToken(q, t)
<1> DEFINE B == Seq(A)
<1>1. <<>> \in B
  OBVIOUS
<1>2. CASE t \in {"/", "\\"}
  <2>1. p \o Append(q, <<>>) = Append(p \o q, <<>>)
    <3> HIDE DEF B
    <3>1. p \in Seq(B) /\ q \in Seq(B)
      BY DEF B
    <3> QED BY <1>1, <3>1, Behind
  <2> QED BY <1>2, <2>1 DEF WithToken
<1>3. CASE t \notin {"/", "\\"}
  <2>1. PICK f \in Seq(B), l \in B : q = Append(f, l)
    BY SequenceEmptyOrAppend
  <2>2. Append(l, t) \in B
    OBVIOUS
  <2> HIDE DEF B
  <2>3. p \in Seq(B)
    BY DEF B
  <2>4. p \o q = Append(p \o f, l) /\ p \o f \in Seq(B)
    BY <2>1, <2>3, Behind
  <2>5. Front(q) = f /\ Last(q) = l /\ Front(p \o q) = p \o f /\ Last(p \o q) = l
    <3>1. Front(Append(f, l)) = f /\ Last(Append(f, l)) = l
      <4>1. f \in Seq(B) /\ l \in B
        BY <2>1
      <4> QED BY <4>1, Ended
    <3>2. Front(Append(p \o f, l)) = p \o f /\ Last(Append(p \o f, l)) = l
      <4>1. p \o f \in Seq(B) /\ l \in B
        BY <2>1, <2>4
      <4> QED BY <4>1, Ended
    <3> QED BY <2>1, <2>4, <3>1, <3>2
  <2>6. p \o Append(f, Append(l, t)) = Append(p \o f, Append(l, t))
    BY <2>2, <2>3, Behind
  <2> QED BY <1>3, <2>5, <2>6 DEF WithToken
<1> QED BY <1>2, <1>3

\* The names on both sides of a slash.
LEMMA NamesJoin ==
  ASSUME NEW A, NEW p \in Seq(A), NEW q \in Seq(A), NEW sep \in A, sep \in Slashes
  PROVE  Names(Append(p, sep) \o q) = Names(p) \o Names(q)
<1> DEFINE B == Seq(A)
           head == Append(p, sep)
           T == {r \in Seq(A) : Names(head \o r) = Names(p) \o Names(r)}
<1>1. head \in Seq(A)
  OBVIOUS
<1>2. \A r \in Seq(A) : Names(r) \in Seq(B) /\ Names(r) # <<>>
  <2>1. A \ Slashes \subseteq A
    OBVIOUS
  <2>2. Seq(Seq(A \ Slashes)) \subseteq Seq(B)
    <3>1. Seq(A \ Slashes) \subseteq Seq(A)
      BY <2>1, SeqMonotonic
    <3> QED BY <3>1, SeqMonotonic
  <2> QED BY <2>2, NamesTyped
<1>3. <<>> \in T
  <2>1. Names(head) = Append(Names(p), <<>>)
    BY NamesAppend DEF WithToken, Slashes
  <2>2. head \o <<>> = head
    <3> HIDE DEF head
    <3> QED BY <1>1, ConcatEmptySeq
  <2>3. Append(Names(p), <<>>) = Names(p) \o << <<>> >>
    <3>1. <<>> \in B
      OBVIOUS
    <3> HIDE DEF B
    <3> QED BY <1>2, <3>1, AppendIsConcat
  <2>4. <<>> \in Seq(A)
    OBVIOUS
  <2> HIDE DEF head
  <2> QED BY <2>1, <2>2, <2>3, <2>4, NamesEmpty
<1>4. ASSUME NEW r \in Seq(A), NEW t \in A, r \in T PROVE Append(r, t) \in T
  <2>1. Names(Append(r, t)) = WithToken(Names(r), t)
    BY NamesAppend
  <2> HIDE DEF head
  <2>2. head \o Append(r, t) = Append(head \o r, t) /\ head \o r \in Seq(A) /\ Append(r, t) \in Seq(A)
    BY <1>1, Behind
  <2>3. Names(head \o Append(r, t)) = WithToken(Names(head \o r), t)
    BY <2>2, NamesAppend
  <2>4. Names(head \o r) = Names(p) \o Names(r)
    BY <1>4
  <2>5. WithToken(Names(p) \o Names(r), t) = Names(p) \o WithToken(Names(r), t)
    <3>1. Names(p) \in Seq(B) /\ Names(r) \in Seq(B) /\ Names(r) # <<>>
      BY <1>2
    <3> QED BY <3>1, WithTokenBehind
  <2> QED BY <2>1, <2>2, <2>3, <2>4, <2>5
<1>5. Seq(A) \subseteq T
  <2> HIDE DEF T
  <2> QED BY <1>3, <1>4, SeqInduct
<1> QED BY <1>5

\* A string without slashes is one name.
LEMMA NamesPlain ==
  ASSUME NEW A, A \cap Slashes = {}, NEW s \in Seq(A)
  PROVE  Names(s) = <<s>>
<1> DEFINE B == Seq(A)
           T == {r \in Seq(A) : Names(r) = <<r>>}
<1>1. <<>> \in T
  BY NamesEmpty
<1>2. ASSUME NEW r \in Seq(A), NEW t \in A, r \in T PROVE Append(r, t) \in T
  <2>1. Names(Append(r, t)) = WithToken(<<r>>, t) /\ Append(r, t) \in Seq(A)
    BY <1>2, NamesAppend
  <2>2. Front(<<r>>) = <<>> /\ Last(<<r>>) = r
    <3>1. r \in B
      OBVIOUS
    <3> HIDE DEF B
    <3>2. <<>> \in Seq(B) /\ Append(<<>>, r) = <<r>>
      BY <3>1
    <3>3. Front(Append(<<>>, r)) = <<>> /\ Last(Append(<<>>, r)) = r
      BY <3>1, <3>2, Ended
    <3> QED BY <3>2, <3>3
  <2>3. WithToken(<<r>>, t) = Append(<<>>, Append(r, t))
    BY <2>2 DEF WithToken, Slashes
  <2>4. Append(<<>>, Append(r, t)) = <<Append(r, t)>>
    OBVIOUS
  <2> QED BY <2>1, <2>3, <2>4
<1>3. Seq(A) \subseteq T
  <2> HIDE DEF T
  <2> QED BY <1>1, <1>2, SeqInduct
<1> QED BY <1>3

\* Changing slashes changes each token by itself.
LEMMA SlashesEach ==
  ASSUME NEW A, Slashes \subseteq A, NEW s \in Seq(A)
  PROVE  /\ WinSlashes(s) \in Seq(A) /\ Len(WinSlashes(s)) = Len(s)
         /\ \A i \in 1 .. Len(s) : WinSlashes(s)[i] = IF s[i] = "/" THEN "\\" ELSE s[i]
         /\ FixSlashes(s) \in Seq(A \ {"\\"}) /\ FixSlashes(s) \in Seq(A) /\ Len(FixSlashes(s)) = Len(s)
         /\ \A i \in 1 .. Len(s) : FixSlashes(s)[i] = IF s[i] = "\\" THEN "/" ELSE s[i]
<1>1. DOMAIN s = 1 .. Len(s) /\ Len(s) \in Nat /\ \A i \in 1 .. Len(s) : s[i] \in A
  OBVIOUS
<1>2. "/" \in A /\ "\\" \in A /\ "/" # "\\"
  BY DEF Slashes
<1>3. ASSUME NEW D, NEW f, f \in [1 .. Len(s) -> D] PROVE f \in Seq(D) /\ Len(f) = Len(s)
  BY <1>1, <1>3
<1>4. WinSlashes(s) \in [1 .. Len(s) -> A]
  BY <1>1, <1>2 DEF WinSlashes
<1>5. FixSlashes(s) \in [1 .. Len(s) -> A \ {"\\"}] /\ FixSlashes(s) \in [1 .. Len(s) -> A]
  BY <1>1, <1>2 DEF FixSlashes
<1>6. /\ \A i \in 1 .. Len(s) : WinSlashes(s)[i] = IF s[i] = "/" THEN "\\" ELSE s[i]
      /\ \A i \in 1 .. Len(s) : FixSlashes(s)[i] = IF s[i] = "\\" THEN "/" ELSE s[i]
  BY <1>1 DEF WinSlashes, FixSlashes
<1> QED BY <1>3, <1>4, <1>5, <1>6

\* Changing slashes, one token at a time.
LEMMA SlashesAppend ==
  ASSUME NEW A, Slashes \subseteq A, NEW s \in Seq(A), NEW t \in A
  PROVE  /\ WinSlashes(Append(s, t)) = Append(WinSlashes(s), IF t = "/" THEN "\\" ELSE t)
         /\ FixSlashes(Append(s, t)) = Append(FixSlashes(s), IF t = "\\" THEN "/" ELSE t)
<1> DEFINE r == Append(s, t)
           w == IF t = "/" THEN "\\" ELSE t
           x == IF t = "\\" THEN "/" ELSE t
<1>1. r \in Seq(A) /\ Len(r) = Len(s) + 1 /\ Len(s) \in Nat
  OBVIOUS
<1>2. \A i \in 1 .. Len(s) + 1 : r[i] = IF i = Len(s) + 1 THEN t ELSE s[i]
  OBVIOUS
<1>3. w \in A /\ x \in A
  BY DEF Slashes
<1>4. ASSUME NEW u \in Seq(A), NEW v \in Seq(A), NEW e \in A, Len(u) = Len(s) + 1, Len(v) = Len(s),
             u[Len(s) + 1] = e, \A i \in 1 .. Len(s) : u[i] = v[i]
      PROVE  u = Append(v, e)
  <2>1. Append(v, e) \in Seq(A) /\ Len(Append(v, e)) = Len(s) + 1
    BY <1>4
  <2>2. \A i \in 1 .. Len(s) + 1 : Append(v, e)[i] = IF i = Len(s) + 1 THEN e ELSE v[i]
    BY <1>4
  <2>3. \A i \in 1 .. Len(s) + 1 : u[i] = Append(v, e)[i]
    BY <1>1, <1>4, <2>2
  <2> QED BY <1>4, <2>1, <2>3, SeqEqual
<1> HIDE DEF r
<1>5. /\ WinSlashes(r) \in Seq(A) /\ Len(WinSlashes(r)) = Len(s) + 1
      /\ \A i \in 1 .. Len(r) : WinSlashes(r)[i] = IF r[i] = "/" THEN "\\" ELSE r[i]
      /\ FixSlashes(r) \in Seq(A) /\ Len(FixSlashes(r)) = Len(s) + 1
      /\ \A i \in 1 .. Len(r) : FixSlashes(r)[i] = IF r[i] = "\\" THEN "/" ELSE r[i]
  BY <1>1, SlashesEach
<1>6. /\ WinSlashes(s) \in Seq(A) /\ Len(WinSlashes(s)) = Len(s)
      /\ \A i \in 1 .. Len(s) : WinSlashes(s)[i] = IF s[i] = "/" THEN "\\" ELSE s[i]
      /\ FixSlashes(s) \in Seq(A) /\ Len(FixSlashes(s)) = Len(s)
      /\ \A i \in 1 .. Len(s) : FixSlashes(s)[i] = IF s[i] = "\\" THEN "/" ELSE s[i]
  BY SlashesEach
<1>7. WinSlashes(r)[Len(s) + 1] = w /\ FixSlashes(r)[Len(s) + 1] = x
  <2>1. Len(s) + 1 \in 1 .. Len(r) /\ r[Len(s) + 1] = t
    BY <1>1, <1>2
  <2> QED BY <1>5, <2>1
<1>8. \A i \in 1 .. Len(s) : WinSlashes(r)[i] = WinSlashes(s)[i] /\ FixSlashes(r)[i] = FixSlashes(s)[i]
  <2>1. \A i \in 1 .. Len(s) : i \in 1 .. Len(r) /\ r[i] = s[i]
    BY <1>1, <1>2
  <2> QED BY <1>5, <1>6, <2>1
<1> HIDE DEF w, x
<1>9. WinSlashes(r) = Append(WinSlashes(s), w)
  BY <1>3, <1>4, <1>5, <1>6, <1>7, <1>8
<1>10. FixSlashes(r) = Append(FixSlashes(s), x)
  BY <1>3, <1>4, <1>5, <1>6, <1>7, <1>8
<1> QED BY <1>9, <1>10 DEF r, w, x

\* Either slash separates names.
LEMMA NamesSlashes ==
  ASSUME NEW A, Slashes \subseteq A, NEW s \in Seq(A)
  PROVE  Names(WinSlashes(s)) = Names(s) /\ Names(FixSlashes(s)) = Names(s)
<1> DEFINE T == {r \in Seq(A) : Names(WinSlashes(r)) = Names(r) /\ Names(FixSlashes(r)) = Names(r)}
<1>1. <<>> \in T
  <2>1. WinSlashes(<<>>) = <<>> /\ FixSlashes(<<>>) = <<>>
    BY DEF WinSlashes, FixSlashes
  <2>2. <<>> \in Seq(A)
    OBVIOUS
  <2> QED BY <2>1, <2>2
<1>2. ASSUME NEW r \in Seq(A), NEW t \in A, r \in T PROVE Append(r, t) \in T
  <2> DEFINE w == IF t = "/" THEN "\\" ELSE t
             x == IF t = "\\" THEN "/" ELSE t
  <2>1. w \in A /\ x \in A
    BY DEF Slashes
  <2>2. WinSlashes(Append(r, t)) = Append(WinSlashes(r), w) /\ FixSlashes(Append(r, t)) = Append(FixSlashes(r), x)
    BY SlashesAppend
  <2>3. \A names : WithToken(names, w) = WithToken(names, t) /\ WithToken(names, x) = WithToken(names, t)
    BY DEF WithToken
  <2> HIDE DEF w, x
  <2>4. WinSlashes(r) \in Seq(A) /\ FixSlashes(r) \in Seq(A)
    BY SlashesEach
  <2>5. /\ Names(Append(WinSlashes(r), w)) = WithToken(Names(WinSlashes(r)), w)
        /\ Names(Append(FixSlashes(r), x)) = WithToken(Names(FixSlashes(r)), x)
        /\ Names(Append(r, t)) = WithToken(Names(r), t)
    BY <2>1, <2>4, NamesAppend
  <2>6. Names(WinSlashes(r)) = Names(r) /\ Names(FixSlashes(r)) = Names(r) /\ Append(r, t) \in Seq(A)
    BY <1>2
  <2> QED BY <2>2, <2>3, <2>5, <2>6
<1>3. Seq(A) \subseteq T
  <2> HIDE DEF T
  <2> QED BY <1>1, <1>2, SeqInduct
<1> QED BY <1>3
-----------------------------------------------------------------------------
\* A recursive function over a list of names: where they lead, one by one.
WalkUpto(f, from, names, floor, n) ==
  f = [i \in 0 .. n |-> IF i = 0 THEN from ELSE Enter(f[i - 1], names[i], floor)]

\* There is such a function for every list of names, and Walk is its last value.
LEMMA WalkDefined ==
  ASSUME NEW N, NEW names \in Seq(N), NEW from, NEW floor
  PROVE  \E f : Walk(from, names, floor) = f[Len(names)] /\ WalkUpto(f, from, names, floor, Len(names))
<1> DEFINE T == {n \in 0 .. Len(names) : \E f : WalkUpto(f, from, names, floor, n)}
           all == CHOOSE f : WalkUpto(f, from, names, floor, Len(names))
<1>1. Len(names) \in Nat
  OBVIOUS
<1>2. 0 \in T
  <2>1. WalkUpto([i \in 0 .. 0 |-> from], from, names, floor, 0)
    BY DEF WalkUpto
  <2> QED BY <1>1, <2>1
<1>3. ASSUME NEW n \in 1 .. Len(names), n - 1 \in T PROVE n \in T
  <2>1. PICK g : WalkUpto(g, from, names, floor, n - 1)
    BY <1>3
  <2> DEFINE h == [i \in 0 .. n |-> IF i = n THEN Enter(g[n - 1], names[n], floor) ELSE g[i]]
  <2>2. \A i \in 0 .. n - 1 : h[i] = g[i]
    BY <1>1
  <2>3. h[n] = Enter(h[n - 1], names[n], floor) /\ n # 0
    BY <1>1, <2>2
  <2>4. \A i \in 0 .. n - 1 : g[i] = IF i = 0 THEN from ELSE Enter(g[i - 1], names[i], floor)
    BY <2>1 DEF WalkUpto
  <2>5. \A i \in 0 .. n - 1 : h[i] = IF i = 0 THEN from ELSE Enter(h[i - 1], names[i], floor)
    <3> HIDE DEF h
    <3> QED BY <1>1, <2>2, <2>4
  <2>6. \A i \in 0 .. n : h[i] = IF i = 0 THEN from ELSE Enter(h[i - 1], names[i], floor)
    <3>1. \A i \in 0 .. n : i = n \/ i \in 0 .. n - 1
      BY <1>1
    <3> HIDE DEF h
    <3> QED BY <2>3, <2>5, <3>1
  <2>7. WalkUpto(h, from, names, floor, n)
    BY <2>6 DEF WalkUpto
  <2> QED BY <2>7
<1>4. Len(names) \in T
  <2> HIDE DEF T
  <2> QED BY <1>1, <1>2, <1>3, UpTo
<1>5. WalkUpto(all, from, names, floor, Len(names))
  BY <1>4
<1>6. Walk(from, names, floor) = all[Len(names)]
  BY DEF Walk, WalkUpto
<1> HIDE DEF all
<1> QED BY <1>5, <1>6

\* No names lead nowhere else; one more name is entered last.
LEMMA WalkEmpty ==
  ASSUME NEW from, NEW floor
  PROVE  Walk(from, <<>>, floor) = from
<1>1. <<>> \in Seq({}) /\ Len(<<>>) = 0
  OBVIOUS
<1>2. PICK f : Walk(from, <<>>, floor) = f[Len(<<>>)] /\ WalkUpto(f, from, <<>>, floor, Len(<<>>))
  BY <1>1, WalkDefined
<1>3. f[0] = from
  BY <1>1, <1>2 DEF WalkUpto
<1> QED BY <1>1, <1>2, <1>3

\* One more name.
LEMMA WalkAppend ==
  ASSUME NEW N, NEW names \in Seq(N), NEW name \in N, NEW from, NEW floor
  PROVE  Walk(from, Append(names, name), floor) = Enter(Walk(from, names, floor), name, floor)
<1> DEFINE r == Append(names, name)
           n == Len(names)
<1>1. /\ r \in Seq(N) /\ n \in Nat /\ Len(r) = n + 1 /\ r[n + 1] = name
      /\ \A i \in 1 .. n : r[i] = names[i]
  OBVIOUS
<1>2. PICK f : Walk(from, names, floor) = f[n] /\ WalkUpto(f, from, names, floor, n)
  BY WalkDefined
<1>3. PICK g : Walk(from, r, floor) = g[Len(r)] /\ WalkUpto(g, from, r, floor, Len(r))
  <2> HIDE DEF r
  <2> QED BY <1>1, WalkDefined
<1> HIDE DEF r, n
<1>4. f[0] = from /\ g[0] = from
  BY <1>1, <1>2, <1>3 DEF WalkUpto
<1>5. \A i \in 1 .. n : f[i] = Enter(f[i - 1], names[i], floor) /\ g[i] = Enter(g[i - 1], names[i], floor)
  BY <1>1, <1>2, <1>3 DEF WalkUpto
<1>6. g[n + 1] = Enter(g[n], name, floor)
  BY <1>1, <1>3 DEF WalkUpto
<1>7. f[n] = g[n]
  <2> DEFINE T == {i \in 0 .. n : f[i] = g[i]}
  <2>1. 0 \in T
    BY <1>1, <1>4
  <2>2. \A i \in 1 .. n : i - 1 \in T => i \in T
    BY <1>1, <1>5
  <2>3. n \in T
    <3> HIDE DEF T
    <3> QED BY <1>1, <2>1, <2>2, UpTo
  <2> QED BY <2>3
<1> QED BY <1>1, <1>2, <1>3, <1>6, <1>7 DEF r

\* One list of names after another.
LEMMA WalkJoin ==
  ASSUME NEW N, NEW p \in Seq(N), NEW q \in Seq(N), NEW from, NEW floor
  PROVE  Walk(from, p \o q, floor) = Walk(Walk(from, p, floor), q, floor)
<1> DEFINE T == {r \in Seq(N) : Walk(from, p \o r, floor) = Walk(Walk(from, p, floor), r, floor)}
<1>1. <<>> \in T
  <2>1. p \o <<>> = p /\ <<>> \in Seq(N)
    OBVIOUS
  <2> QED BY <2>1, WalkEmpty
<1>2. ASSUME NEW r \in Seq(N), NEW n \in N, r \in T PROVE Append(r, n) \in T
  <2>1. p \o Append(r, n) = Append(p \o r, n) /\ p \o r \in Seq(N) /\ Append(r, n) \in Seq(N)
    BY Behind
  <2>2. Walk(from, Append(p \o r, n), floor) = Enter(Walk(from, p \o r, floor), n, floor)
    <3>1. \A x \in Seq(N) : Walk(from, Append(x, n), floor) = Enter(Walk(from, x, floor), n, floor)
      BY WalkAppend
    <3> QED BY <2>1, <3>1, Zenon
  <2>3. Walk(Walk(from, p, floor), Append(r, n), floor) = Enter(Walk(Walk(from, p, floor), r, floor), n, floor)
    BY WalkAppend
  <2>4. Walk(from, p \o r, floor) = Walk(Walk(from, p, floor), r, floor)
    BY <1>2
  <2> QED BY <2>1, <2>2, <2>3, <2>4
<1>3. Seq(N) \subseteq T
  <2> HIDE DEF T
  <2> QED BY <1>1, <1>2, SeqInduct
<1> QED BY <1>3

\* One name alone.
LEMMA WalkOne ==
  ASSUME NEW name, NEW from, NEW floor
  PROVE  Walk(from, <<name>>, floor) = Enter(from, name, floor)
<1>1. <<>> \in Seq({name}) /\ Append(<<>>, name) = <<name>> /\ name \in {name}
  OBVIOUS
<1>2. Walk(from, Append(<<>>, name), floor) = Enter(Walk(from, <<>>, floor), name, floor)
  <2> DEFINE N == {name}
  <2>1. <<>> \in Seq(N) /\ name \in N
    BY <1>1
  <2> HIDE DEF N
  <2>2. \A x \in Seq(N) : Walk(from, Append(x, name), floor) = Enter(Walk(from, x, floor), name, floor)
    BY <2>1, WalkAppend
  <2> QED BY <2>1, <2>2, Zenon
<1> QED BY <1>1, <1>2, WalkEmpty

\* What is between slashes, and what can be the name of a directory or a file.
Between == Seq(Token \ Slashes)
Proper == Between \ {<<>>, <<".">>, Up}

\* A directory stays a sequence of proper names, and is never left for what is above the floor.
LEMMA EnterTyped ==
  ASSUME NEW d \in Seq(Proper), NEW n \in Between, NEW floor \in Nat, Len(d) >= floor
  PROVE  Enter(d, n, floor) \in Seq(Proper) /\ Len(Enter(d, n, floor)) >= floor
<1>1. CASE n \in {<<>>, <<".">>}
  BY <1>1 DEF Enter
<1>2. CASE n \notin {<<>>, <<".">>} /\ n = Up /\ Len(d) > floor
  <2>1. d # <<>> /\ Len(d) \in Nat
    BY <1>2
  <2>2. PICK e \in Seq(Proper), x \in Proper : d = Append(e, x)
    BY <2>1, SequenceEmptyOrAppend
  <2>3. Front(d) = e /\ Len(d) = Len(e) + 1 /\ Len(e) \in Nat
    <3>1. Front(Append(e, x)) = e
      BY <2>2, Ended
    <3>2. Len(Append(e, x)) = Len(e) + 1 /\ Len(e) \in Nat
      BY <2>2
    <3> QED BY <2>2, <3>1, <3>2
  <2>4. Enter(d, n, floor) = Front(d)
    BY <1>2 DEF Enter
  <2> QED BY <1>2, <2>3, <2>4
<1>3. CASE n \notin {<<>>, <<".">>} /\ n = Up /\ ~(Len(d) > floor)
  BY <1>3 DEF Enter
<1>4. CASE n \notin {<<>>, <<".">>, Up}
  <2>1. n \in Proper /\ Enter(d, n, floor) = Append(d, n)
    BY <1>4 DEF Enter, Proper
  <2>2. Append(d, n) \in Seq(Proper) /\ Len(Append(d, n)) = Len(d) + 1 /\ Len(d) \in Nat
    BY <2>1
  <2> QED BY <2>1, <2>2
<1> QED BY <1>1, <1>2, <1>3, <1>4

\* So do all directories on the way.
LEMMA WalkTyped ==
  ASSUME NEW d \in Seq(Proper), NEW names \in Seq(Between), NEW floor \in Nat, Len(d) >= floor
  PROVE  Walk(d, names, floor) \in Seq(Proper) /\ Len(Walk(d, names, floor)) >= floor
<1> DEFINE T == {r \in Seq(Between) : Walk(d, r, floor) \in Seq(Proper) /\ Len(Walk(d, r, floor)) >= floor}
<1>1. <<>> \in T
  <2>1. <<>> \in Seq(Between)
    OBVIOUS
  <2> QED BY <2>1, WalkEmpty
<1>2. ASSUME NEW r \in Seq(Between), NEW n \in Between, r \in T PROVE Append(r, n) \in T
  <2>1. Walk(d, Append(r, n), floor) = Enter(Walk(d, r, floor), n, floor) /\ Append(r, n) \in Seq(Between)
    BY WalkAppend
  <2>2. Walk(d, r, floor) \in Seq(Proper) /\ Len(Walk(d, r, floor)) >= floor
    BY <1>2
  <2> QED BY <2>1, <2>2, EnterTyped
<1>3. Seq(Between) \subseteq T
  <2> HIDE DEF T
  <2> QED BY <1>1, <1>2, SeqInduct
<1> QED BY <1>3

\* The names of a string of tokens.
LEMMA NamesBetween ==
  ASSUME NEW s \in Seq(Token)
  PROVE  Names(s) \in Seq(Between) /\ Names(s) # <<>>
BY NamesTyped DEF Between

\* A name that is one is entered, and .. leaves it again.
LEMMA EnterProper ==
  ASSUME NEW d \in Seq(Proper), NEW n \in Proper, NEW floor \in Nat, Len(d) >= floor
  PROVE  /\ Enter(d, n, floor) = Append(d, n) /\ Enter(d, <<>>, floor) = d
         /\ Enter(Append(d, n), Up, floor) = d
<1>1. Enter(d, n, floor) = Append(d, n) /\ Enter(d, <<>>, floor) = d
  BY DEF Enter, Proper
<1>2. Len(Append(d, n)) > floor /\ Front(Append(d, n)) = d
  <2>1. Len(Append(d, n)) = Len(d) + 1 /\ Len(d) \in Nat
    OBVIOUS
  <2>2. Front(Append(d, n)) = d
    BY Ended
  <2> QED BY <2>1, <2>2
<1>3. Up # <<>> /\ Up # <<".">>
  BY DEF Up
<1>4. Enter(Append(d, n), Up, floor) = d
  BY <1>2, <1>3 DEF Enter
<1> QED BY <1>1, <1>4
-----------------------------------------------------------------------------
\* Tokens between slashes are tokens, and plain ones are.
LEMMA Subsets ==
  /\ \A s \in Seq(Plain) : s \in Seq(Token)
  /\ \A n \in Between : n \in Seq(Token) /\ n \in Seq(Plain)
  /\ \A n \in Proper : n \in Between /\ n \in Seq(Token) /\ n \in Seq(Plain)
  /\ "/" \in Plain /\ "/" \in Slashes /\ "\\" \in Slashes /\ "/" \in Token /\ "\\" \in Token
<1>1. Plain \subseteq Token /\ Token \ Slashes \subseteq Token /\ Token \ Slashes \subseteq Plain
  BY DEF Plain, Slashes
<1>2. \A s \in Seq(Plain) : s \in Seq(Token)
  BY <1>1, SeqMonotonic
<1>3. \A n \in Between : n \in Seq(Token) /\ n \in Seq(Plain)
  BY <1>1, SeqMonotonic DEF Between
<1> QED BY <1>2, <1>3 DEF Proper, Token, Plain, Slashes

\* Where the names on both sides of a slash lead.
LEMMA WalkNames ==
  ASSUME NEW p \in Seq(Token), NEW sep \in Slashes, NEW q \in Seq(Token), NEW from, NEW floor
  PROVE  /\ Append(p, sep) \o q \in Seq(Token)
         /\ Walk(from, Names(Append(p, sep) \o q), floor) =
              Walk(Walk(from, Names(p), floor), Names(q), floor)
<1>1. sep \in Token
  BY SlashTokens
<1>2. Names(Append(p, sep) \o q) = Names(p) \o Names(q)
  BY <1>1, NamesJoin
<1>3. Names(p) \in Seq(Between) /\ Names(q) \in Seq(Between)
  BY NamesBetween
<1>4. Walk(from, Names(p) \o Names(q), floor) = Walk(Walk(from, Names(p), floor), Names(q), floor)
  BY <1>3, WalkJoin
<1>5. Append(p, sep) \o q \in Seq(Token)
  BY <1>1
<1> QED BY <1>2, <1>4, <1>5

\* Nothing between slashes leads nowhere else.
LEMMA WalkNothing ==
  ASSUME NEW from, NEW floor
  PROVE  Walk(from, Names(<<>>), floor) = from
<1>1. Enter(from, <<>>, floor) = from
  BY DEF Enter
<1> QED BY <1>1, NamesEmpty, WalkOne

\* A last slash leads nowhere else.
LEMMA WalkSlash ==
  ASSUME NEW p \in Seq(Token), NEW sep \in Slashes, NEW from, NEW floor
  PROVE  Walk(from, Names(Append(p, sep)), floor) = Walk(from, Names(p), floor)
<1>1. <<>> \in Seq(Token) /\ Append(p, sep) \o <<>> = Append(p, sep)
  <2>1. sep \in Token
    BY SlashTokens
  <2> QED BY <2>1
<1>2. Walk(from, Names(Append(p, sep) \o <<>>), floor) = Walk(Walk(from, Names(p), floor), Names(<<>>), floor)
  <2>1. \A q \in Seq(Token) :
           Walk(from, Names(Append(p, sep) \o q), floor) = Walk(Walk(from, Names(p), floor), Names(q), floor)
    BY WalkNames
  <2> QED BY <1>1, <2>1
<1> QED BY <1>1, <1>2, WalkNothing

\* One name.
LEMMA WalkName ==
  ASSUME NEW n \in Between, NEW from, NEW floor
  PROVE  Walk(from, Names(n), floor) = Enter(from, n, floor)
<1>1. Names(n) = <<n>>
  <2> DEFINE A == Token \ Slashes
  <2>1. A \cap Slashes = {} /\ n \in Seq(A)
    BY DEF Between
  <2> HIDE DEF A
  <2> QED BY <2>1, NamesPlain
<1> QED BY <1>1, WalkOne

\* The root has no names above it, and a virtual directory is a list of names.
LEMMA VirtualRoot == Virtual(Root) = <<>> /\ Virtual(<<>>) = <<>>
<1>1. <<>> \in Seq(Token) /\ Append(<<>>, "/") = Root
  BY DEF Root
<1>2. Virtual(Append(<<>>, "/")) = Virtual(<<>>)
  <2>1. \A p \in Seq(Token) : Virtual(Append(p, "/")) = Virtual(p)
    BY WalkSlash, Subsets DEF Virtual
  <2> QED BY <1>1, <2>1
<1>3. Virtual(<<>>) = <<>>
  BY WalkNothing DEF Virtual
<1> QED BY <1>1, <1>2, <1>3

\* What a client reads of a path is a sequence of proper names.
LEMMA VirtualTyped ==
  ASSUME NEW p \in Seq(Token)
  PROVE  Virtual(p) \in Seq(Proper)
<1>1. <<>> \in Seq(Proper) /\ Len(<<>>) >= 0 /\ 0 \in Nat
  OBVIOUS
<1>2. Names(p) \in Seq(Between)
  BY NamesBetween
<1>3. Walk(<<>>, Names(p), 0) \in Seq(Proper)
  BY <1>1, <1>2, WalkTyped
<1> QED BY <1>3 DEF Virtual

\* Taking the slash off the end does not change what a path names.
LEMMA VirtualStrip ==
  ASSUME NEW p \in Seq(Token)
  PROVE  Virtual(StripSlash(p)) = Virtual(p)
<1>1. CASE p # Root /\ p # <<>> /\ Last(p) = "/"
  <2>1. Front(p) \in Seq(Token) /\ p = Append(Front(p), "/")
    BY <1>1, Ends, Subsets
  <2>2. StripSlash(p) = Front(p)
    BY <1>1 DEF StripSlash
  <2>3. Virtual(Append(Front(p), "/")) = Virtual(Front(p))
    BY <2>1, WalkSlash, Subsets DEF Virtual
  <2> QED BY <2>1, <2>2, <2>3
<1>2. CASE ~(p # Root /\ p # <<>> /\ Last(p) = "/")
  BY <1>2 DEF StripSlash
<1> QED BY <1>1, <1>2

\* A name behind a directory names what the name leads to from there.
LEMMA VirtualJoin ==
  ASSUME NEW p \in Seq(Token), NEW q \in Seq(Token)
  PROVE  Virtual(Append(p, "/") \o q) = Walk(Virtual(p), Names(q), 0)
BY WalkNames, Subsets DEF Virtual

-----------------------------------------------------------------------------
\* The last slash of a string that has one is one of its places.
LEMMA LastSlashInside ==
  ASSUME NEW wd \in Seq(Plain), Absolute(wd)
  PROVE  /\ LastSlash(wd) \in 1 .. Len(wd) /\ wd[LastSlash(wd)] = "/" /\ Len(wd) \in Nat
         /\ \A i \in 1 .. Len(wd) : i > LastSlash(wd) => wd[i] # "/"
<1> DEFINE S == {i \in DOMAIN wd : wd[i] = "/"}
           FromEnd == {Len(wd) - i : i \in S}
<1>1. 1 \in DOMAIN wd /\ Len(wd) \in Nat /\ DOMAIN wd = 1 .. Len(wd)
  BY DEF Absolute
<1>2. 1 \in S
  BY <1>1 DEF Absolute
<1>3. FromEnd \subseteq Nat /\ FromEnd # {}
  BY <1>1, <1>2
<1>4. PICK n \in FromEnd : \A k \in FromEnd : n <= k
  <2> HIDE DEF FromEnd
  <2> QED BY <1>3, LeastOf
<1>5. PICK m \in S : n = Len(wd) - m
  OBVIOUS
<1>6. ASSUME NEW i \in S PROVE m >= i
  <2>1. n <= Len(wd) - i
    BY <1>4
  <2> QED BY <1>1, <1>5, <2>1
<1>7. Max(S) \in S /\ \A i \in S : Max(S) >= i
  <2> HIDE DEF S
  <2> QED BY <1>6 DEF Max
<1>8. LastSlash(wd) = Max(S)
  BY DEF LastSlash
<1>9. ASSUME NEW i \in 1 .. Len(wd), i > LastSlash(wd) PROVE wd[i] # "/"
  <2>1. LastSlash(wd) \in 1 .. Len(wd)
    BY <1>1, <1>7, <1>8
  <2>2. i \notin S
    <3>1. ~(LastSlash(wd) >= i)
      BY <1>9, <2>1
    <3> HIDE DEF S
    <3> QED BY <1>7, <1>8, <3>1
  <2> QED BY <1>1, <2>2
<1> QED BY <1>1, <1>7, <1>8, <1>9

\* The last slash cuts an absolute path into the directory and the last name.
LEMMA LastSlashCuts ==
  ASSUME NEW wd \in Seq(Plain), Absolute(wd)
  PROVE  \E up \in Seq(Plain), n \in Between :
           /\ wd = Append(up, "/") \o n /\ LastSlash(wd) = Len(up) + 1
           /\ up = SubSeq(wd, 1, LastSlash(wd) - 1) /\ n = SubSeq(wd, LastSlash(wd) + 1, Len(wd))
<1> DEFINE k == LastSlash(wd)
           up == SubSeq(wd, 1, k - 1)
           n == SubSeq(wd, k + 1, Len(wd))
<1>1. /\ k \in 1 .. Len(wd) /\ wd[k] = "/" /\ Len(wd) \in Nat
      /\ \A i \in 1 .. Len(wd) : i > k => wd[i] # "/"
  BY LastSlashInside
<1>2. /\ up \in Seq(Plain) /\ Len(up) = k - 1
      /\ \A i \in 1 .. k - 1 : up[i] = wd[i]
  <2>1. \A i \in 1 .. k - 1 : wd[i] \in Plain
    BY <1>1
  <2> HIDE DEF k
  <2> QED BY <1>1, <2>1, SubSeqProperties
<1>3. /\ n \in Between /\ n \in Seq(Plain) /\ Len(n) = Len(wd) - k
      /\ \A i \in 1 .. Len(wd) - k : n[i] = wd[k + i]
  <2>1. \A i \in k + 1 .. Len(wd) : wd[i] \in Plain \ Slashes
    <3>1. \A i \in k + 1 .. Len(wd) : wd[i] \in Plain /\ wd[i] # "/"
      BY <1>1
    <3> QED BY <3>1 DEF Plain, Slashes
  <2>2. n \in Seq(Plain \ Slashes)
    <3> HIDE DEF k
    <3> QED BY <1>1, <2>1, SubSeqProperties
  <2>3. n \in Seq(Token \ Slashes) /\ n \in Seq(Plain)
    <3>1. Plain \ Slashes \subseteq Token \ Slashes /\ Plain \ Slashes \subseteq Plain
      BY DEF Plain
    <3> HIDE DEF n
    <3> QED BY <2>2, <3>1, SeqMonotonic
  <2>4. /\ Len(n) = Len(wd) - k
        /\ \A i \in 1 .. Len(wd) - k : n[i] = wd[k + i]
    <3>1. \A i \in k + 1 .. Len(wd) : wd[i] \in Plain
      BY <1>1
    <3> HIDE DEF k
    <3>2. /\ Len(SubSeq(wd, k + 1, Len(wd))) = IF k + 1 <= Len(wd) THEN Len(wd) - (k + 1) + 1 ELSE 0
          /\ \A i \in 1 .. Len(wd) - (k + 1) + 1 : SubSeq(wd, k + 1, Len(wd))[i] = wd[(k + 1) + i - 1]
      BY <1>1, <3>1, SubSeqProperties
    <3> QED BY <1>1, <3>2
  <2> QED BY <2>3, <2>4 DEF Between
<1> HIDE DEF up, n
<1>4. wd = Append(up, "/") \o n
  <2> DEFINE head == Append(up, "/")
  <2>1. /\ head \in Seq(Plain) /\ Len(head) = k /\ head[k] = "/"
        /\ \A i \in 1 .. k - 1 : head[i] = wd[i]
    <3>1. "/" \in Plain
      BY Subsets
    <3> HIDE DEF k
    <3> QED BY <1>1, <1>2, <3>1
  <2> HIDE DEF head, k
  <2>2. /\ head \o n \in Seq(Plain) /\ Len(head \o n) = Len(wd)
        /\ \A i \in 1 .. Len(wd) : (head \o n)[i] = IF i <= k THEN head[i] ELSE n[i - k]
    <3>1. /\ head \o n \in Seq(Plain) /\ Len(head \o n) = Len(head) + Len(n)
          /\ \A i \in 1 .. Len(head) + Len(n) : (head \o n)[i] = IF i <= Len(head) THEN head[i] ELSE n[i - Len(head)]
      BY <1>3, <2>1, ConcatProperties
    <3>2. Len(head) + Len(n) = Len(wd)
      BY <1>1, <1>3, <2>1
    <3> QED BY <2>1, <3>1, <3>2
  <2>3. \A i \in 1 .. Len(wd) : (head \o n)[i] = wd[i]
    <3>1. ASSUME NEW i \in 1 .. Len(wd) PROVE (head \o n)[i] = wd[i]
      <4>1. CASE i < k
        BY <1>1, <2>1, <2>2, <4>1
      <4>2. CASE i = k
        BY <1>1, <2>1, <2>2, <4>2
      <4>3. CASE i > k
        <5>1. i - k \in 1 .. Len(wd) - k /\ k + (i - k) = i
          BY <1>1, <4>3
        <5>2. n[i - k] = wd[i]
          BY <1>3, <5>1
        <5> QED BY <1>1, <2>2, <4>3, <5>2
      <4>4. i \in Int /\ k \in Int
        BY <1>1
      <4>5. i < k \/ i = k \/ i > k
        BY <4>4
      <4> QED BY <4>1, <4>2, <4>3, <4>5
    <3> QED BY <3>1
  <2>4. head \o n = wd
    BY <2>2, <2>3, SeqEqual
  <2> QED BY <2>4 DEF head
<1>5. LastSlash(wd) = Len(up) + 1
  BY <1>1, <1>2
<1>6. up = SubSeq(wd, 1, LastSlash(wd) - 1) /\ n = SubSeq(wd, LastSlash(wd) + 1, Len(wd))
  BY DEF up, n
<1> QED BY <1>2, <1>3, <1>4, <1>5, <1>6

\* What follows the two dots.
LEMMA UpCuts ==
  ASSUME NEW a \in Seq(Token), IsPrefix(Up, a)
  PROVE  \/ a = Up /\ Len(a) = 2 /\ SubSeq(a, 3, Len(a)) = <<>>
         \/ /\ Len(a) > 2
            /\ a[3] = "/" => \E r \in Seq(Token) : /\ a = Append(Up, "/") \o r /\ Len(a) = Len(r) + 3
                                                   /\ SubSeq(a, 3, Len(a)) = <<"/">> \o r
<1>1. Len(Up) = 2 /\ Up[1] = "." /\ Up[2] = "." /\ "." \in Token /\ Up \in Seq(Token)
  BY DEF Up, Token
<1>2. Len(a) \in Nat /\ Len(a) >= 2
  BY <1>1 DEF IsPrefix
<1>3. a[1] = "." /\ a[2] = "."
  <2>1. SubSeq(Up, 1, 2) = SubSeq(a, 1, 2)
    BY <1>1 DEF IsPrefix
  <2>2. SubSeq(a, 1, 2)[1] = a[1] /\ SubSeq(a, 1, 2)[2] = a[2]
    BY <1>2, SubSeqProperties
  <2>3. SubSeq(Up, 1, 2)[1] = Up[1] /\ SubSeq(Up, 1, 2)[2] = Up[2]
    BY <1>1, SubSeqProperties
  <2> QED BY <1>1, <2>1, <2>2, <2>3
<1>4. CASE Len(a) = 2
  <2>1. a = Up
    BY <1>1, <1>3, <1>4, SeqEqual
  <2>2. SubSeq(a, 3, Len(a)) = <<>>
    BY <1>4, SubSeqEmpty
  <2> QED BY <1>4, <2>1, <2>2
<1>5. CASE Len(a) > 2
  <2> SUFFICES ASSUME a[3] = "/"
               PROVE  \E r \in Seq(Token) : /\ a = Append(Up, "/") \o r /\ Len(a) = Len(r) + 3
                                            /\ SubSeq(a, 3, Len(a)) = <<"/">> \o r
    BY <1>5
  <2> DEFINE r == SubSeq(a, 4, Len(a))
  <2>1. r \in Seq(Token) /\ Len(r) = Len(a) - 3
    <3>1. \A i \in 4 .. Len(a) : a[i] \in Token
      BY <1>2
    <3>2. 4 \in Int /\ Len(a) \in Int
      BY <1>2
    <3>3. r \in Seq(Token) /\ Len(r) = IF 4 <= Len(a) THEN Len(a) - 4 + 1 ELSE 0
      BY <3>1, <3>2, SubSeqProperties
    <3>4. \A n \in Nat : n > 2 => (IF 4 <= n THEN n - 4 + 1 ELSE 0) = n - 3
      OBVIOUS
    <3>5. Len(a) > 2 /\ Len(a) \in Nat
      BY <1>2, <1>5
    <3> HIDE DEF r
    <3> QED BY ONLY <3>3, <3>4, <3>5
  <2>2. SubSeq(a, 3, Len(a)) = <<"/">> \o r
    <3>1. 3 \in 1 .. Len(a) /\ Len(a) \in 3 .. Len(a)
      BY <1>2, <1>5
    <3>2. SubSeq(a, 3, Len(a)) = <<a[3]>> \o SubSeq(a, 3 + 1, Len(a))
      BY <3>1, SubSeqRecursiveFirst
    <3> QED BY <3>2
  <2>3. a = SubSeq(a, 1, 3) \o r
    <3>1. SubSeq(a, 1, 3) \o SubSeq(a, 4, Len(a)) = SubSeq(a, 1, Len(a))
      <4>1. 1 \in 1 .. Len(a) + 1 /\ 3 \in 1 - 1 .. Len(a) /\ Len(a) \in 3 .. Len(a)
        BY <1>2, <1>5
      <4>2. SubSeq(a, 1, 3) \o SubSeq(a, 3 + 1, Len(a)) = SubSeq(a, 1, Len(a))
        BY <4>1, ConcatAdjacentSubSeq
      <4> QED BY <4>2
    <3> QED BY <3>1, SubSeqFull
  <2>4. SubSeq(a, 1, 3) = Append(Up, "/")
    <3> DEFINE x == SubSeq(a, 1, 3)
               y == Append(Up, "/")
    <3>1. x \in Seq(Token) /\ Len(x) = 3 /\ x[1] = a[1] /\ x[2] = a[2] /\ x[3] = a[3]
      <4>1. \A i \in 1 .. 3 : a[i] \in Token
        BY <1>2, <1>5
      <4> QED BY <4>1, SubSeqProperties
    <3>2. y \in Seq(Token) /\ Len(y) = 3 /\ y[1] = "." /\ y[2] = "." /\ y[3] = "/"
      <4>1. "/" \in Token
        BY Subsets
      <4> QED BY <1>1, <4>1 DEF Up
    <3> HIDE DEF x, y
    <3>3. x = y
      <4>1. \A i \in 1 .. 3 : x[i] = y[i]
        BY <1>3, <3>1, <3>2
      <4> QED BY <3>1, <3>2, <4>1, SeqEqual
    <3> QED BY <3>3 DEF x, y
  <2> HIDE DEF r
  <2>5. Len(a) = Len(r) + 3 /\ a = Append(Up, "/") \o r
    <3>1. \A n \in Nat : n = (n - 3) + 3
      OBVIOUS
    <3>2. Len(a) = Len(r) + 3
      BY ONLY <1>2, <2>1, <3>1
    <3> QED BY <2>3, <2>4, <3>2
  <2> QED BY <2>1, <2>2, <2>5
<1>6. Len(a) = 2 \/ Len(a) > 2
  <2>1. \A n \in Nat : n >= 2 => n = 2 \/ n > 2
    OBVIOUS
  <2> QED BY ONLY <1>2, <2>1
<1> QED BY <1>4, <1>5, <1>6

\* The root is an absolute path.
LEMMA RootAbsolute == Root \in Seq(Plain) /\ Absolute(Root)
<1>1. "/" \in Plain
  BY DEF Token, Plain
<1>2. ASSUME NEW c \in Plain PROVE <<c>> \in Seq(Plain) /\ <<c>> # <<>> /\ <<c>>[1] = c
  OBVIOUS
<1>3. <<"/">> \in Seq(Plain) /\ <<"/">> # <<>> /\ <<"/">>[1] = "/"
  BY <1>1, <1>2
<1> QED BY <1>3 DEF Root, Absolute

\* Taking the slash off the end leaves an absolute path absolute.
LEMMA StripAbsolute ==
  ASSUME NEW path \in Seq(Plain), Absolute(path)
  PROVE  StripSlash(path) \in Seq(Plain) /\ Absolute(StripSlash(path))
<1>1. CASE path # Root /\ path # <<>> /\ Last(path) = "/"
  <2>1. Len(path) > 1
    <3>1. Len(path) = 1 => path = <<path[1]>>
      OBVIOUS
    <3>2. Len(path) # 1
      <4>1. path[1] = "/" /\ path # <<"/">>
        BY <1>1 DEF Absolute, Root
      <4> QED BY <3>1, <4>1
    <3>3. Len(path) \in Nat /\ Len(path) # 0
      BY <1>1, EmptySeq
    <3>4. \A n \in Nat : n # 0 /\ n # 1 => n > 1
      OBVIOUS
    <3> QED BY ONLY <3>2, <3>3, <3>4
  <2>2. /\ Front(path) \in Seq(Plain) /\ Len(Front(path)) = Len(path) - 1
        /\ Front(path)[1] = path[1]
    BY <2>1, SubSeqProperties DEF Front
  <2> QED BY <1>1, <2>1, <2>2 DEF StripSlash, Absolute
<1>2. CASE ~(path # Root /\ path # <<>> /\ Last(path) = "/")
  BY <1>2 DEF StripSlash
<1> QED BY <1>1, <1>2

\* What comes behind an absolute path leaves it one.
LEMMA LongerAbsolute ==
  ASSUME NEW p \in Seq(Plain), NEW q \in Seq(Plain), Absolute(p)
  PROVE  p \o q \in Seq(Plain) /\ Absolute(p \o q)
BY DEF Absolute

\* The parent of an absolute path is absolute, with what follows the two dots.
LEMMA ParentAbsolute ==
  ASSUME NEW wd \in Seq(Plain), Absolute(wd), NEW a \in Seq(Plain)
  PROVE  Parent(wd, a) \in Seq(Plain) /\ Absolute(Parent(wd, a))
<1> DEFINE up == SubSeq(wd, 1, LastSlash(wd) - 1)
           more == SubSeq(a, 3, Len(a))
<1>1. CASE LastSlash(wd) = 1
  BY <1>1, RootAbsolute DEF Parent
<1>2. CASE LastSlash(wd) # 1
  <2>1. LastSlash(wd) \in 1 .. Len(wd)
    BY LastSlashInside
  <2>2. up \in Seq(Plain) /\ up # <<>> /\ up[1] = wd[1]
    BY <1>2, <2>1, SubSeqProperties
  <2>3. Absolute(up)
    BY <2>2 DEF Absolute
  <2>4. more \in Seq(Plain)
    BY SubSeqProperties
  <2>5. Parent(wd, a) = StripSlash(up \o more)
    BY <1>2 DEF Parent
  <2> HIDE DEF up, more
  <2> QED BY <2>2, <2>3, <2>4, <2>5, LongerAbsolute, StripAbsolute
<1> QED BY <1>1, <1>2

\* vfs_changepath makes absolute paths only.
LEMMA NewPathAbsolute ==
  ASSUME NEW wd \in Seq(Plain), Absolute(wd), NEW arg \in Seq(Token)
  PROVE  NewPath(wd, arg) \in Seq(Plain) /\ Absolute(NewPath(wd, arg))
<1> DEFINE a == FixSlashes(arg)
           slash == IF wd = Root THEN <<>> ELSE <<"/">>
<1>1. a \in Seq(Plain)
  BY SlashTokens, SlashesEach DEF Plain
<1>2. slash \in Seq(Plain)
  BY RootAbsolute DEF Root
<1>3. NewPath(wd, arg) = IF GoesUp(wd, a) THEN Parent(wd, a)
                         ELSE StripSlash(IF Absolute(a) THEN a ELSE wd \o slash \o a)
  BY DEF NewPath
<1> HIDE DEF a, slash
<1>4. wd \o slash \o a \in Seq(Plain) /\ Absolute(wd \o slash \o a)
  <2>1. wd \o slash \in Seq(Plain) /\ Absolute(wd \o slash)
    BY <1>2, LongerAbsolute
  <2> QED BY <1>1, <2>1, LongerAbsolute
<1>5. CASE GoesUp(wd, a)
  BY <1>1, <1>3, <1>5, ParentAbsolute
<1>6. CASE ~GoesUp(wd, a) /\ Absolute(a)
  BY <1>1, <1>3, <1>6, StripAbsolute
<1>7. CASE ~GoesUp(wd, a) /\ ~Absolute(a)
  BY <1>3, <1>4, <1>7, StripAbsolute
<1> QED BY <1>5, <1>6, <1>7

\* Going up from a directory whose last part is a name, with or without more.
LEMMA ParentMeant ==
  ASSUME NEW wd \in Seq(Plain), Absolute(wd), NEW a \in Seq(Token), GoesUp(wd, a), ~CutsElsewhere(wd, a)
  PROVE  Virtual(Parent(wd, a)) = Walk(Virtual(wd), Names(a), 0)
<1> DEFINE more == SubSeq(a, 3, Len(a))
<1>1. PICK up \in Seq(Plain), n \in Between :
        /\ wd = Append(up, "/") \o n /\ LastSlash(wd) = Len(up) + 1
        /\ up = SubSeq(wd, 1, LastSlash(wd) - 1)
  BY LastSlashCuts
<1>2. up \in Seq(Token) /\ n \in Seq(Token) /\ a \in Seq(Token) /\ Len(up) \in Nat
  <2>1. up \in Seq(Token) /\ n \in Seq(Token)
    BY ONLY up \in Seq(Plain), n \in Between, Subsets
  <2>2. Len(up) \in Nat
    OBVIOUS
  <2> QED BY <2>1, <2>2
<1>3. Virtual(wd) = Append(Virtual(up), n) /\ Virtual(up) \in Seq(Proper) /\ n \in Proper
  <2>1. Virtual(wd) = Walk(Virtual(up), Names(n), 0)
    BY <1>1, <1>2, VirtualJoin
  <2>2. Names(wd) = Names(up) \o <<n>>
    <3>1. Names(wd) = Names(up) \o Names(n)
      BY <1>1, <1>2, Subsets, NamesJoin
    <3>2. Names(n) = <<n>>
      <4> DEFINE A == Token \ Slashes
      <4>1. A \cap Slashes = {} /\ n \in Seq(A)
        BY <1>1 DEF Between
      <4> HIDE DEF A
      <4> QED BY <4>1, NamesPlain
    <3> QED BY <3>1, <3>2
  <2>3. Last(Names(wd)) = n
    <3>1. Names(up) \in Seq(Between)
      BY <1>2, NamesBetween
    <3>2. Append(Names(up), n) = Names(up) \o <<n>>
      <4>1. \A s \in Seq(Between), e \in Between : Append(s, e) = s \o <<e>>
        BY AppendIsConcat
      <4> QED BY <1>1, <3>1, <4>1
    <3>3. Last(Append(Names(up), n)) = n
      <4>1. \A s \in Seq(Between), e \in Between : Last(Append(s, e)) = e
        BY Ended
      <4> QED BY <1>1, <3>1, <4>1
    <3> QED BY <2>2, <3>2, <3>3
  <2>4. n \in Proper
    BY <1>1, <2>3 DEF CutsElsewhere, Proper
  <2>5. Virtual(up) \in Seq(Proper) /\ Len(Virtual(up)) >= 0
    BY <1>2, VirtualTyped
  <2>6. Walk(Virtual(up), Names(n), 0) = Enter(Virtual(up), n, 0)
    BY <1>1, WalkName
  <2>7. Enter(Virtual(up), n, 0) = Append(Virtual(up), n)
    BY <2>4, <2>5, EnterProper
  <2> QED BY <2>1, <2>4, <2>5, <2>6, <2>7
<1>4. Walk(Virtual(wd), Names(Up), 0) = Virtual(up)
  <2>1. Up \in Between
    <3>1. "." \in Token \ Slashes
      BY DEF Token, Slashes
    <3> QED BY <3>1 DEF Up, Between
  <2>2. Walk(Virtual(wd), Names(Up), 0) = Enter(Virtual(wd), Up, 0)
    BY <2>1, WalkName
  <2>3. Len(Virtual(up)) >= 0
    BY <1>3
  <2>4. Enter(Append(Virtual(up), n), Up, 0) = Virtual(up)
    BY <1>3, <2>3, EnterProper
  <2> QED BY <1>3, <2>2, <2>4
<1>5. Parent(wd, a) = IF LastSlash(wd) = 1 THEN Root ELSE StripSlash(up \o more)
  BY <1>1 DEF Parent
<1>6. LastSlash(wd) = 1 => Virtual(up) = Virtual(Root)
  <2>1. ASSUME Len(up) = 0 PROVE up = <<>>
    BY <1>1, <2>1, EmptySeq
  <2>2. ASSUME LastSlash(wd) = 1 PROVE Len(up) = 0
    <3>1. Len(up) + 1 = 1
      BY <1>1, <2>2
    <3> QED BY ONLY <1>2, <3>1
  <2> QED BY <2>1, <2>2, VirtualRoot
<1>7. IsPrefix(Up, a) /\ ~(Len(a) > 2 /\ a[3] # "/") /\ ~(LastSlash(wd) = 1 /\ Len(a) > 3)
  BY DEF GoesUp, CutsElsewhere
<1> HIDE DEF more
<1>8. CASE a = Up /\ more = <<>>
  <2>1. up \o more = up
    BY <1>8, <1>2
  <2>2. Virtual(StripSlash(up)) = Virtual(up)
    BY <1>2, VirtualStrip
  <2> QED BY <1>4, <1>5, <1>6, <1>8, <2>1, <2>2
<1>9. ASSUME NEW r \in Seq(Token), a = Append(Up, "/") \o r, Len(a) = Len(r) + 3, more = <<"/">> \o r
      PROVE  Virtual(Parent(wd, a)) = Walk(Virtual(wd), Names(a), 0)
  <2>1. Walk(Virtual(wd), Names(a), 0) = Walk(Virtual(up), Names(r), 0)
    <3>1. Up \in Seq(Token)
      BY DEF Up, Token
    <3>2. Walk(Virtual(wd), Names(Append(Up, "/") \o r), 0) = Walk(Walk(Virtual(wd), Names(Up), 0), Names(r), 0)
      BY <3>1, Subsets, WalkNames
    <3> QED BY <1>4, <1>9, <3>2
  <2>2. Virtual(up \o more) = Walk(Virtual(up), Names(r), 0) /\ up \o more \in Seq(Token)
    <3>1. <<"/">> \in Seq(Token) /\ "/" \in Token
      BY Subsets
    <3>2. up \o (<<"/">> \o r) = (up \o <<"/">>) \o r /\ up \o <<"/">> = Append(up, "/")
      <4>1. \A y, z \in Seq(Token) : (up \o y) \o z = up \o (y \o z)
        BY ONLY <1>2, Associates, Zenon
      <4>2. up \o <<"/">> = Append(up, "/")
        BY <1>2, <3>1, AppendIsConcat
      <4> QED BY <3>1, <4>1, <4>2
    <3>3. Virtual(Append(up, "/") \o r) = Walk(Virtual(up), Names(r), 0)
      BY <1>2, VirtualJoin
    <3>4. Append(up, "/") \o r \in Seq(Token)
      <4>1. Append(up, "/") \in Seq(Token)
        BY <1>2, <3>1, AppendProperties
      <4> QED BY <4>1, ConcatProperties
    <3> QED BY <1>9, <3>2, <3>3, <3>4
  <2>3. CASE LastSlash(wd) = 1
    <3>1. r = <<>>
      <4>1. Len(r) \in Nat /\ ~(Len(r) + 3 > 3)
        BY <1>7, <1>9, <2>3
      <4>2. Len(r) = 0
        BY ONLY <4>1
      <4> QED BY <4>2, EmptySeq
    <3>2. Walk(Virtual(up), Names(r), 0) = Virtual(up)
      BY <3>1, WalkNothing
    <3> QED BY <1>5, <1>6, <2>1, <2>3, <3>2
  <2>4. CASE LastSlash(wd) # 1
    <3>1. Virtual(StripSlash(up \o more)) = Virtual(up \o more)
      BY <2>2, VirtualStrip
    <3> QED BY <1>5, <2>1, <2>2, <2>4, <3>1
  <2> QED BY <2>3, <2>4
<1>10. \/ a = Up /\ more = <<>>
       \/ \E r \in Seq(Token) : a = Append(Up, "/") \o r /\ Len(a) = Len(r) + 3 /\ more = <<"/">> \o r
  BY <1>7, UpCuts DEF more
<1> QED BY <1>8, <1>9, <1>10

\* vfs_changepath goes where the argument says.
LEMMA NewPathMeant ==
  ASSUME NEW wd \in Seq(Plain), Absolute(wd), NEW arg \in Seq(Token),
         ~CutsElsewhere(wd, FixSlashes(arg))
  PROVE  Virtual(NewPath(wd, arg)) = Meant(wd, arg)
<1> DEFINE a == FixSlashes(arg)
           slash == IF wd = Root THEN <<>> ELSE <<"/">>
<1>1. a \in Seq(Plain) /\ a \in Seq(Token) /\ wd \in Seq(Token)
  BY SlashTokens, SlashesEach, Subsets DEF Plain
<1>2. NewPath(wd, arg) = IF GoesUp(wd, a) THEN Parent(wd, a)
                         ELSE StripSlash(IF Absolute(a) THEN a ELSE wd \o slash \o a)
  BY DEF NewPath
<1>3. Meant(wd, arg) = Walk(IF Absolute(a) THEN <<>> ELSE Virtual(wd), Names(a), 0)
  BY DEF Meant
<1>4. ~CutsElsewhere(wd, a)
  OBVIOUS
<1> HIDE DEF a
<1>5. CASE GoesUp(wd, a)
  <2>1. Virtual(Parent(wd, a)) = Walk(Virtual(wd), Names(a), 0)
    BY <1>1, <1>4, <1>5, ParentMeant
  <2>2. ~Absolute(a)
    <3>1. a[1] = "."
      <4>1. SubSeq(Up, 1, 2) = SubSeq(a, 1, 2) /\ Len(a) >= 2
        BY <1>5 DEF GoesUp, IsPrefix, Up
      <4>2. SubSeq(a, 1, 2)[1] = a[1] /\ SubSeq(Up, 1, 2)[1] = Up[1]
        BY <1>1, <4>1, SubSeqProperties DEF Up
      <4> QED BY <4>1, <4>2 DEF Up
    <3> QED BY <3>1 DEF Absolute
  <2> QED BY <1>2, <1>3, <1>5, <2>1, <2>2
<1>6. CASE ~GoesUp(wd, a) /\ Absolute(a)
  <2>1. Virtual(StripSlash(a)) = Virtual(a)
    BY <1>1, VirtualStrip
  <2> QED BY <1>2, <1>3, <1>6, <2>1 DEF Virtual
<1>7. CASE ~GoesUp(wd, a) /\ ~Absolute(a)
  <2>1. wd \o slash \o a \in Seq(Token) /\ Virtual(wd \o slash \o a) = Walk(Virtual(wd), Names(a), 0)
    <3>1. "/" \in Token
      BY Subsets
    <3>2. CASE wd = Root
      <4>1. wd \o slash = Append(<<>>, "/")
        BY <3>2 DEF Root
      <4>2. Virtual(Append(<<>>, "/") \o a) = Walk(Virtual(<<>>), Names(a), 0) /\ Append(<<>>, "/") \o a \in Seq(Token)
        <5>1. \A p \in Seq(Token) : /\ Virtual(Append(p, "/") \o a) = Walk(Virtual(p), Names(a), 0)
                                    /\ Append(p, "/") \o a \in Seq(Token)
          BY <1>1, <3>1, VirtualJoin, Behind
        <5>2. <<>> \in Seq(Token)
          OBVIOUS
        <5> QED BY <5>1, <5>2
      <4> QED BY <3>2, <4>1, <4>2, VirtualRoot
    <3>3. CASE wd # Root
      <4>1. wd \o slash = Append(wd, "/")
        BY <1>1, <3>1, <3>3, Behind
      <4>2. Virtual(Append(wd, "/") \o a) = Walk(Virtual(wd), Names(a), 0) /\ Append(wd, "/") \o a \in Seq(Token)
        BY <1>1, <3>1, VirtualJoin, Behind
      <4> QED BY <4>1, <4>2
    <3> QED BY <3>2, <3>3
  <2> HIDE DEF slash
  <2>2. Virtual(StripSlash(wd \o slash \o a)) = Virtual(wd \o slash \o a)
    BY <2>1, VirtualStrip
  <2> QED BY <1>2, <1>3, <1>7, <2>1, <2>2
<1> QED BY <1>5, <1>6, <1>7

\* The root is served.
LEMMA RootServed == GetMod(Root) # "none"
<1> DEFINE I == {i \in 1 .. Len(ModuleList) : Check(ModuleList[i], Root)}
<1>1. /\ Len(ModuleList) = 4 /\ ModuleList[1] = "root"
      /\ \A i \in 1 .. 4 : ModuleList[i] # "none"
  BY DEF ModuleList, AddMod
<1>2. Check("root", Root)
  BY DEF Check
<1>3. 1 \in I
  BY <1>1, <1>2
<1>4. \A i \in I : 1 <= i
  BY <1>1
<1>5. Min(I) \in I
  <2> HIDE DEF I
  <2> QED BY <1>3, <1>4 DEF Min
<1>6. SelectInSeq(ModuleList, LAMBDA mod : Check(mod, Root)) = Min(I)
  BY <1>3 DEF SelectInSeq
<1>7. GetMod(Root) = ModuleList[Min(I)]
  BY <1>1, <1>5, <1>6 DEF GetMod
<1> QED BY <1>1, <1>5, <1>7

\* CWD into a path keeps what is to be shown: vfs_cwd has looked for its module.
IInv == wdir \in Seq(Plain) /\ WdirServed

\* CWD keeps it.
LEMMA CwdServed ==
  ASSUME IInv, NEW a \in Args, Cwd(a)
  PROVE  IInv'
<1>1. wdir \in Seq(Plain) /\ Absolute(wdir) /\ a \in Seq(Token)
  BY ArgTokens DEF IInv, WdirServed
<1>2. wdir' = NewPath(wdir, a) /\ wdir' \in Seq(Plain) /\ Absolute(wdir')
  BY <1>1, NewPathAbsolute DEF Cwd
<1>3. Dispatch(wdir, NewPath(wdir, a)) # "none"
  BY DEF Cwd, Accepts
<1>4. ~Absolute(<<>>)
  BY DEF Absolute
<1>5. Dispatch(wdir', <<>>) # "none"
  BY <1>2, <1>3, <1>4 DEF Dispatch
<1> QED BY <1>2, <1>5 DEF IInv, WdirServed

\* In every state the working directory is absolute and has a module, for any
\* arguments and any disk (vfs_changepath, vfs_cwd).
THEOREM WdirAlwaysServed == Spec => []WdirServed
<1>1. Init => IInv
  <2>1. ~Absolute(<<>>)
    BY DEF Absolute
  <2> QED BY <2>1, RootAbsolute, RootServed DEF Init, IInv, WdirServed, Dispatch
<1>2. IInv /\ [Next]_vars => IInv'
  <2> SUFFICES ASSUME IInv, [Next]_vars
               PROVE  IInv'
    OBVIOUS
  <2>1. ASSUME NEW a \in Args, Cwd(a) PROVE IInv'
    BY <2>1, CwdServed
  <2>2. CASE UNCHANGED wdir
    BY <2>2 DEF IInv, WdirServed
  <2>3. ASSUME NEW a \in Args, Mkd(a) \/ Stor(a) \/ Dele(a) PROVE UNCHANGED wdir
    BY <2>3 DEF Mkd, Stor, Dele
  <2>4. ASSUME NEW p \in dirs \cup files, Removed(p) PROVE UNCHANGED wdir
    BY <2>4 DEF Removed
  <2>5. UNCHANGED vars => UNCHANGED wdir
    BY DEF vars
  <2> QED BY <2>1, <2>2, <2>3, <2>4, <2>5 DEF Next
<1>3. IInv => WdirServed
  BY DEF IInv
<1> QED BY <1>1, <1>2, <1>3, PTL DEF Spec

-----------------------------------------------------------------------------
\* The paths of Windows.

\* A path is below a mount point by its first two tokens.
LEMMA Prefixed ==
  ASSUME NEW path \in Seq(Token), NEW m
  PROVE  IsPrefix(<<"/", m>>, path) <=> Len(path) >= 2 /\ path[1] = "/" /\ path[2] = m
<1> DEFINE s == <<"/", m>>
<1>1. Len(s) = 2 /\ s[1] = "/" /\ s[2] = m /\ s \in Seq({"/", m})
  OBVIOUS
<1>2. SubSeq(s, 1, 2) = s
  BY <1>1, SubSeqFull
<1>3. ASSUME Len(path) >= 2
      PROVE  s = SubSeq(path, 1, 2) <=> path[1] = "/" /\ path[2] = m
  <2> DEFINE t == SubSeq(path, 1, 2)
  <2>1. t \in Seq(Token) /\ Len(t) = 2 /\ t[1] = path[1] /\ t[2] = path[2]
    <3>1. \A i \in 1 .. 2 : path[i] \in Token
      BY <1>3
    <3> QED BY <3>1, SubSeqProperties
  <2>2. t = <<t[1], t[2]>>
    <3> HIDE DEF t
    <3> QED BY <2>1
  <2> HIDE DEF t
  <2>3. s = t <=> t[1] = "/" /\ t[2] = m
    BY <1>1, <2>2
  <2> QED BY <2>1, <2>3 DEF t
<1>4. IsPrefix(s, path) <=> Len(path) >= 2 /\ s = SubSeq(path, 1, 2)
  <2> HIDE DEF s
  <2>1. 2 <= Len(path) <=> Len(path) >= 2
    OBVIOUS
  <2> QED BY <1>1, <1>2, <2>1 DEF IsPrefix
<1> QED BY <1>3, <1>4

\* The paths below the three mount points.
LEMMA MountPoints ==
  ASSUME NEW path \in Seq(Token)
  PROVE  /\ IsPrefix(Mnt, path) <=> Len(path) >= 2 /\ path[1] = "/" /\ path[2] = "mnt"
         /\ IsPrefix(Home, path) <=> Len(path) >= 2 /\ path[1] = "/" /\ path[2] = "home"
         /\ IsPrefix(Tmp, path) <=> Len(path) >= 2 /\ path[1] = "/" /\ path[2] = "tmp"
         /\ path = Root => Len(path) = 1
BY Prefixed DEF Mnt, Home, Tmp, Root

\* vfs_get_mod, module by module.
LEMMA ModOf ==
  ASSUME NEW path \in Seq(Token)
  PROVE  /\ path = Root => GetMod(path) = "root"
         /\ IsPrefix(Mnt, path) => GetMod(path) = "mnt"
         /\ IsPrefix(Home, path) => GetMod(path) = "home"
         /\ IsPrefix(Tmp, path) => GetMod(path) = "tmp"
         /\ \/ path = Root \/ IsPrefix(Mnt, path) \/ IsPrefix(Home, path) \/ IsPrefix(Tmp, path)
            \/ GetMod(path) = "none"
<1> DEFINE I == {i \in 1 .. Len(ModuleList) : Check(ModuleList[i], path)}
<1>1. /\ Len(ModuleList) = 4
      /\ ModuleList[1] = "root" /\ ModuleList[2] = "mnt" /\ ModuleList[3] = "home" /\ ModuleList[4] = "tmp"
  BY DEF ModuleList, AddMod
<1>2. I = {i \in 1 .. 4 : \/ i = 1 /\ path = Root
                          \/ i = 2 /\ IsPrefix(Mnt, path)
                          \/ i = 3 /\ IsPrefix(Home, path)
                          \/ i = 4 /\ IsPrefix(Tmp, path)}
  <2>1. /\ Check("root", path) <=> path = Root
        /\ Check("mnt", path) <=> IsPrefix(Mnt, path)
        /\ Check("home", path) <=> IsPrefix(Home, path)
        /\ Check("tmp", path) <=> IsPrefix(Tmp, path)
    BY DEF Check
  <2>2. ASSUME NEW i \in 1 .. 4
        PROVE  Check(ModuleList[i], path) <=>
                 \/ i = 1 /\ path = Root
                 \/ i = 2 /\ IsPrefix(Mnt, path)
                 \/ i = 3 /\ IsPrefix(Home, path)
                 \/ i = 4 /\ IsPrefix(Tmp, path)
    <3>1. i = 1 \/ i = 2 \/ i = 3 \/ i = 4
      OBVIOUS
    <3> QED BY <1>1, <2>1, <3>1
  <2> QED BY <1>1, <2>2
<1>3. SelectInSeq(ModuleList, LAMBDA mod : Check(mod, path)) = IF I # {} THEN Min(I) ELSE 0
  BY DEF SelectInSeq
<1>4. GetMod(path) = LET i == IF I # {} THEN Min(I) ELSE 0 IN IF i = 0 THEN "none" ELSE ModuleList[i]
  BY <1>3 DEF GetMod
<1> HIDE DEF I
<1>5. ASSUME NEW k \in 1 .. 4, I = {k} PROVE GetMod(path) = ModuleList[k]
  <2>1. Min(I) = k
    BY <1>5 DEF Min
  <2> QED BY <1>4, <1>5, <2>1
<1>6. I = {} => GetMod(path) = "none"
  BY <1>4
<1>7. CASE path = Root
  <2>1. ~IsPrefix(Mnt, path) /\ ~IsPrefix(Home, path) /\ ~IsPrefix(Tmp, path)
    <3>1. Len(path) = 1
      BY <1>7 DEF Root
    <3>2. ~(Len(path) >= 2)
      BY ONLY <3>1
    <3> QED BY <3>2, MountPoints
  <2>2. I = {1}
    BY <1>2, <1>7, <2>1
  <2>3. GetMod(path) = "root"
    BY <1>1, <1>5, <2>2
  <2> QED BY <1>7, <2>1, <2>3
<1>8. CASE IsPrefix(Mnt, path)
  <2>1. ~IsPrefix(Home, path) /\ ~IsPrefix(Tmp, path) /\ path # Root
    <3>1. path[2] = "mnt" /\ Len(path) >= 2
      BY <1>8, MountPoints
    <3>2. Len(Root) = 1 /\ ~(1 >= 2)
      BY DEF Root
    <3> QED BY <3>1, <3>2, MountPoints
  <2>2. I = {2}
    BY <1>2, <1>8, <2>1
  <2>3. GetMod(path) = "mnt"
    BY <1>1, <1>5, <2>2
  <2> QED BY <1>8, <2>1, <2>3
<1>9. CASE IsPrefix(Home, path)
  <2>1. ~IsPrefix(Mnt, path) /\ ~IsPrefix(Tmp, path) /\ path # Root
    <3>1. path[2] = "home" /\ Len(path) >= 2
      BY <1>9, MountPoints
    <3>2. Len(Root) = 1 /\ ~(1 >= 2)
      BY DEF Root
    <3> QED BY <3>1, <3>2, MountPoints
  <2>2. I = {3}
    BY <1>2, <1>9, <2>1
  <2>3. GetMod(path) = "home"
    BY <1>1, <1>5, <2>2
  <2> QED BY <1>9, <2>1, <2>3
<1>10. CASE IsPrefix(Tmp, path)
  <2>1. ~IsPrefix(Mnt, path) /\ ~IsPrefix(Home, path) /\ path # Root
    <3>1. path[2] = "tmp" /\ Len(path) >= 2
      BY <1>10, MountPoints
    <3>2. Len(Root) = 1 /\ ~(1 >= 2)
      BY DEF Root
    <3> QED BY <3>1, <3>2, MountPoints
  <2>2. I = {4}
    BY <1>2, <1>10, <2>1
  <2>3. GetMod(path) = "tmp"
    BY <1>1, <1>5, <2>2
  <2> QED BY <1>10, <2>1, <2>3
<1>11. CASE ~(path = Root \/ IsPrefix(Mnt, path) \/ IsPrefix(Home, path) \/ IsPrefix(Tmp, path))
  <2>1. I = {}
    BY <1>2, <1>11
  <2> QED BY <1>6, <1>11, <2>1
<1> QED BY <1>7, <1>8, <1>9, <1>10, <1>11

\* Windows' slashes, put in piece by piece and only once.
LEMMA WinSlashesJoin ==
  ASSUME NEW p \in Seq(Token), NEW q \in Seq(Token)
  PROVE  WinSlashes(p \o q) = WinSlashes(p) \o WinSlashes(q)
<1> DEFINE T == {r \in Seq(Token) : WinSlashes(p \o r) = WinSlashes(p) \o WinSlashes(r)}
<1>1. WinSlashes(p) \in Seq(Token)
  BY SlashTokens, SlashesEach
<1>2. <<>> \in T
  <2>1. p \o <<>> = p /\ WinSlashes(p) \o <<>> = WinSlashes(p) /\ <<>> \in Seq(Token)
    BY <1>1
  <2>2. WinSlashes(<<>>) = <<>>
    BY DEF WinSlashes
  <2> QED BY <2>1, <2>2
<1>3. ASSUME NEW r \in Seq(Token), NEW t \in Token, r \in T PROVE Append(r, t) \in T
  <2> DEFINE w == IF t = "/" THEN "\\" ELSE t
  <2>1. w \in Token
    BY Subsets
  <2>2. p \o Append(r, t) = Append(p \o r, t) /\ p \o r \in Seq(Token) /\ Append(r, t) \in Seq(Token)
    BY Behind
  <2>3. \A s \in Seq(Token) : WinSlashes(Append(s, t)) = Append(WinSlashes(s), w)
    BY SlashTokens, SlashesAppend
  <2> HIDE DEF w
  <2>4. WinSlashes(p \o Append(r, t)) = Append(WinSlashes(p \o r), w)
    BY <2>2, <2>3
  <2>5. WinSlashes(p) \o WinSlashes(Append(r, t)) = WinSlashes(p) \o Append(WinSlashes(r), w)
    BY <2>3
  <2>6. WinSlashes(r) \in Seq(Token)
    BY SlashTokens, SlashesEach
  <2>7. WinSlashes(p) \o Append(WinSlashes(r), w) = Append(WinSlashes(p) \o WinSlashes(r), w)
    BY <1>1, <2>1, <2>6, Behind
  <2>8. WinSlashes(p \o r) = WinSlashes(p) \o WinSlashes(r)
    BY <1>3
  <2> QED BY <2>2, <2>4, <2>5, <2>7, <2>8
<1>4. Seq(Token) \subseteq T
  <2> HIDE DEF T
  <2> QED BY <1>2, <1>3, SeqInduct
<1> QED BY <1>4

\* A name has no slash to change, and what is changed once stays.
LEMMA WinSlashesSame ==
  /\ \A n \in Between : WinSlashes(n) = n /\ FixSlashes(n) = n
  /\ \A s \in Seq(Token) : WinSlashes(WinSlashes(s)) = WinSlashes(s)
<1>1. ASSUME NEW s \in Seq(Token), \A i \in 1 .. Len(s) : s[i] # "/" PROVE WinSlashes(s) = s
  <2>1. /\ WinSlashes(s) \in Seq(Token) /\ Len(WinSlashes(s)) = Len(s)
        /\ \A i \in 1 .. Len(s) : WinSlashes(s)[i] = IF s[i] = "/" THEN "\\" ELSE s[i]
    BY SlashTokens, SlashesEach
  <2>2. \A i \in 1 .. Len(s) : WinSlashes(s)[i] = s[i]
    BY <1>1, <2>1
  <2> QED BY <2>1, <2>2, SeqEqual
<1>2. ASSUME NEW s \in Seq(Token), \A i \in 1 .. Len(s) : s[i] # "\\" PROVE FixSlashes(s) = s
  <2>1. /\ FixSlashes(s) \in Seq(Token) /\ Len(FixSlashes(s)) = Len(s)
        /\ \A i \in 1 .. Len(s) : FixSlashes(s)[i] = IF s[i] = "\\" THEN "/" ELSE s[i]
    BY SlashTokens, SlashesEach
  <2>2. \A i \in 1 .. Len(s) : FixSlashes(s)[i] = s[i]
    BY <1>2, <2>1
  <2> QED BY <2>1, <2>2, SeqEqual
<1>3. ASSUME NEW n \in Between PROVE WinSlashes(n) = n /\ FixSlashes(n) = n
  <2>1. n \in Seq(Token)
    BY Subsets
  <2>2. \A i \in 1 .. Len(n) : n[i] # "/" /\ n[i] # "\\"
    <3>1. \A i \in 1 .. Len(n) : n[i] \in Token \ Slashes
      BY DEF Between
    <3> QED BY <3>1 DEF Slashes
  <2> QED BY <1>1, <1>2, <2>1, <2>2
<1>4. ASSUME NEW s \in Seq(Token) PROVE WinSlashes(WinSlashes(s)) = WinSlashes(s)
  <2>1. /\ WinSlashes(s) \in Seq(Token) /\ Len(WinSlashes(s)) = Len(s)
        /\ \A i \in 1 .. Len(s) : WinSlashes(s)[i] = IF s[i] = "/" THEN "\\" ELSE s[i]
    BY SlashTokens, SlashesEach
  <2>2. \A i \in 1 .. Len(s) : WinSlashes(s)[i] # "/"
    BY <2>1
  <2> QED BY <1>1, <2>1, <2>2
<1> QED BY <1>3, <1>4

\* The names of the disk: drives have one letter and stay, and what Windows'
\* own directories are called is known.
LEMMA ProperNames ==
  ASSUME NEW n, ProperName(n)
  PROVE  n \in Proper
<1>1. /\ n \in Seq(STRING) /\ n \notin {<<>>, <<".">>, Up}
      /\ \A i \in DOMAIN n : n[i] \notin {"/", "\\"}
  BY DEF ProperName
<1>2. DOMAIN n = 1 .. Len(n) /\ Len(n) \in Nat /\ \A i \in 1 .. Len(n) : n[i] \in STRING
  BY <1>1
<1>3. \A i \in 1 .. Len(n) : n[i] \in Token \ Slashes
  BY <1>1, <1>2 DEF Token, Slashes
<1>4. n \in [1 .. Len(n) -> Token \ Slashes]
  BY <1>1, <1>2, <1>3
<1>5. n \in Seq(Token \ Slashes)
  BY <1>2, <1>4
<1> QED BY <1>1, <1>5 DEF Proper, Between

\* The directories that exist at first have proper names.
LEMMA PathsOfDisk ==
  ASSUME NEW p \in Dirs0
  PROVE  p \in Seq(Proper) /\ p # <<>>
<1>1. p \in Seq(Seq(STRING)) /\ p # <<>> /\ \A i \in DOMAIN p : ProperName(p[i])
  BY DirsAssumption
<1>2. DOMAIN p = 1 .. Len(p) /\ Len(p) \in Nat
  BY <1>1
<1>3. \A i \in 1 .. Len(p) : p[i] \in Proper
  BY <1>1, <1>2, ProperNames
<1>4. p \in [1 .. Len(p) -> Proper]
  BY <1>1, <1>2, <1>3
<1> QED BY <1>1, <1>2, <1>4

\* A drive is a letter, and its root stays.
LEMMA DriveKept ==
  ASSUME NEW d \in Drives
  PROVE  d \in Proper /\ Len(d) = 1 /\ <<d>> \in Kept
<1>1. PICK p \in Dirs0 : Len(p) = 1 /\ d = p[1]
  BY DEF Drives
<1>2. p \in Seq(Proper)
  BY PathsOfDisk
<1>3. p = <<d>> /\ d \in Proper
  BY <1>1, <1>2
<1>4. Len(p[1]) = 1 /\ p \in Kept
  BY <1>1, DirsAssumption
<1> QED BY <1>1, <1>3, <1>4

\* The drive of Windows is a drive, and the directories of Windows stay.
LEMMA WindowsOwn ==
  /\ <<WinDrive>> \in Drives
  /\ << <<WinDrive>>, <<"Users">> >> \in Kept /\ << <<WinDrive>>, <<"Temp">> >> \in Kept
<1> DEFINE p == << <<WinDrive>>, <<"Temp">> >>
           c == <<WinDrive>>
<1>1. p \in Kept /\ p \in Dirs0 /\ << <<WinDrive>>, <<"Users">> >> \in Kept
  BY DirsAssumption
<1>2. Len(p) = 2 /\ p[1] = c
  OBVIOUS
<1>3. Front(p) \in Dirs0
  <2>1. Len(p) # 1
    BY <1>2
  <2> HIDE DEF p
  <2> QED BY <1>1, <2>1, DirsAssumption
<1>4. Front(p) = <<c>>
  <2>1. SubSeq(p, 1, 1) = <<p[1]>>
    <3>1. p \in Seq(Proper)
      BY <1>1, PathsOfDisk
    <3> HIDE DEF p
    <3>2. SubSeq(p, 1, 1) \in Seq(Proper) /\ Len(SubSeq(p, 1, 1)) = 1 /\ SubSeq(p, 1, 1)[1] = p[1]
      <4>1. \A i \in 1 .. 1 : p[i] \in Proper
        BY <1>2, <3>1
      <4> QED BY <4>1, SubSeqProperties
    <3>3. \A x \in Seq(Proper) : Len(x) = 1 => x = <<x[1]>>
      OBVIOUS
    <3> QED BY <3>2, <3>3
  <2> HIDE DEF p
  <2> QED BY <1>2, <2>1 DEF Front
<1> HIDE DEF p, c
<1>5. Len(<<c>>) = 1 /\ <<c>>[1] = c
  OBVIOUS
<1>6. c \in Drives
  BY <1>3, <1>4, <1>5 DEF Drives
<1> QED BY <1>1, <1>6 DEF c, p

\* A path of Windows is a drive and names.
LEMMA WinPathTyped ==
  ASSUME NEW text \in Seq(Token)
  PROVE  WinPath(text) = Nowhere \/ (WinPath(text) \in Seq(Proper) /\ Len(WinPath(text)) >= 1)
<1>1. ASSUME NEW d \in Drives, NEW t \in Seq(Token)
      PROVE  Walk(<<d>>, Names(t), 1) \in Seq(Proper) /\ Len(Walk(<<d>>, Names(t), 1)) >= 1
  <2>1. d \in Proper
    BY DriveKept
  <2>2. <<d>> \in Seq(Proper) /\ Len(<<d>>) >= 1
    BY <2>1
  <2>3. Names(t) \in Seq(Between) /\ 1 \in Nat
    BY NamesBetween
  <2> QED BY <2>2, <2>3, WalkTyped
<1>2. CASE Len(text) > 1 /\ text[2] = ":"
  <2> DEFINE t == SubSeq(text, 3, Len(text))
  <2>1. t \in Seq(Token)
    <3>1. \A i \in 3 .. Len(text) : text[i] \in Token
      OBVIOUS
    <3> QED BY <3>1, SubSeqProperties
  <2>2. CASE <<text[1]>> \in Drives
    <3>1. WinPath(text) = Walk(<< <<text[1]>> >>, Names(t), 1)
      BY <1>2, <2>2 DEF WinPath
    <3> HIDE DEF t
    <3> QED BY <1>1, <2>1, <2>2, <3>1
  <2>3. CASE <<text[1]>> \notin Drives
    BY <1>2, <2>3 DEF WinPath
  <2> QED BY <2>2, <2>3
<1>3. CASE ~(Len(text) > 1 /\ text[2] = ":") /\ Len(text) > 0 /\ text[1] = "\\"
  <2>1. WinPath(text) = Walk(<< <<WinDrive>> >>, Names(text), 1)
    BY <1>3 DEF WinPath
  <2> QED BY <1>1, <2>1, WindowsOwn
<1>4. CASE ~(Len(text) > 1 /\ text[2] = ":") /\ ~(Len(text) > 0 /\ text[1] = "\\")
  BY <1>4 DEF WinPath
<1> QED BY <1>2, <1>3, <1>4

\* A drive letter, a colon, a slash and more.
LEMMA WinPathOfDrive ==
  ASSUME NEW c \in Token, NEW t \in Seq(Token)
  PROVE  /\ <<c, ":", "\\">> \o t \in Seq(Token)
         /\ WinPath(<<c, ":", "\\">> \o t) =
              IF <<c>> \in Drives THEN Walk(<< <<c>> >>, Names(t), 1) ELSE Nowhere
<1> DEFINE h == <<c, ":", "\\">>
           text == h \o t
           tail == Append(<<>>, "\\") \o t
<1>1. h \in Seq(Token) /\ Len(h) = 3 /\ h[1] = c /\ h[2] = ":" /\ h[3] = "\\"
  BY DEF Token
<1>2. Len(t) \in Nat
  OBVIOUS
<1>3. tail \in Seq(Token) /\ Len(tail) = Len(t) + 1 /\ tail[1] = "\\" /\ \A i \in 1 .. Len(t) : tail[i + 1] = t[i]
  <2>1. Append(<<>>, "\\") = <<"\\">> /\ <<"\\">> \in Seq(Token) /\ Len(<<"\\">>) = 1 /\ <<"\\">>[1] = "\\"
    BY DEF Token
  <2>2. /\ <<"\\">> \o t \in Seq(Token) /\ Len(<<"\\">> \o t) = Len(<<"\\">>) + Len(t)
        /\ \A i \in 1 .. Len(<<"\\">>) + Len(t) :
             (<<"\\">> \o t)[i] = IF i <= Len(<<"\\">>) THEN <<"\\">>[i] ELSE t[i - Len(<<"\\">>)]
    BY <2>1, ConcatProperties
  <2>3. \A i \in 1 .. Len(t) : i + 1 \in 1 .. 1 + Len(t) /\ ~(i + 1 <= 1) /\ (i + 1) - 1 = i
    BY <1>2
  <2>4. 1 \in 1 .. 1 + Len(t)
    BY <1>2
  <2> DEFINE z == <<"\\">> \o t
  <2> HIDE DEF z
  <2>5. z[1] = "\\" /\ \A i \in 1 .. Len(t) : z[i + 1] = t[i]
    BY <2>1, <2>2, <2>3, <2>4 DEF z
  <2> QED BY <1>2, <2>1, <2>2, <2>5 DEF z
<1>4. /\ text \in Seq(Token) /\ Len(text) = 3 + Len(t)
      /\ \A i \in 1 .. 3 + Len(t) : text[i] = IF i <= 3 THEN h[i] ELSE t[i - 3]
  <2> HIDE DEF h
  <2>1. /\ h \o t \in Seq(Token) /\ Len(h \o t) = Len(h) + Len(t)
        /\ \A i \in 1 .. Len(h) + Len(t) : (h \o t)[i] = IF i <= Len(h) THEN h[i] ELSE t[i - Len(h)]
    BY <1>1, ConcatProperties
  <2> QED BY <1>1, <2>1
<1> HIDE DEF text
<1>5. Len(text) > 1 /\ text[1] = c /\ text[2] = ":"
  BY <1>1, <1>2, <1>4
<1>6. SubSeq(text, 3, Len(text)) = tail
  <2> DEFINE u == SubSeq(text, 3, Len(text))
  <2> HIDE DEF tail
  <2>1. u \in Seq(Token) /\ Len(u) = Len(t) + 1 /\ \A i \in 1 .. Len(t) + 1 : u[i] = text[i + 2]
    <3>1. \A i \in 3 .. Len(text) : text[i] \in Token
      BY <1>4
    <3>2. 3 \in Int /\ Len(text) \in Int
      BY <1>2, <1>4
    <3>3. /\ u \in Seq(Token) /\ Len(u) = IF 3 <= Len(text) THEN Len(text) - 3 + 1 ELSE 0
          /\ \A i \in 1 .. Len(text) - 3 + 1 : u[i] = text[3 + i - 1]
      BY <3>1, <3>2, SubSeqProperties
    <3>4. Len(text) - 3 + 1 = Len(t) + 1 /\ 3 <= Len(text)
      BY <1>2, <1>4
    <3>5. \A i \in 1 .. Len(t) + 1 : 3 + i - 1 = i + 2
      BY <1>2
    <3> HIDE DEF u
    <3> QED BY <3>3, <3>4, <3>5
  <2> HIDE DEF u
  <2>2. u[1] = "\\"
    BY <1>1, <1>2, <1>4, <2>1
  <2>3. ASSUME NEW i \in 1 .. Len(t) PROVE u[i + 1] = t[i]
    <3>1. i + 1 \in 1 .. Len(t) + 1 /\ (i + 1) + 2 = i + 3 /\ i + 3 \in 1 .. 3 + Len(t) /\ ~(i + 3 <= 3) /\ (i + 3) - 3 = i
      BY <1>2
    <3> QED BY <1>4, <2>1, <3>1
  <2>4. ASSUME NEW i \in 1 .. Len(t) + 1 PROVE u[i] = tail[i]
    <3>1. CASE i = 1
      BY <1>3, <2>2, <3>1
    <3>2. CASE i # 1
      <4>1. i - 1 \in 1 .. Len(t) /\ (i - 1) + 1 = i
        BY <1>2, <3>2
      <4> QED BY <1>3, <2>3, <4>1
    <3> QED BY <3>1, <3>2
  <2> QED BY <1>3, <2>1, <2>4, SeqEqual DEF u
<1>7. Walk(<< <<c>> >>, Names(tail), 1) = Walk(<< <<c>> >>, Names(t), 1)
  <2>1. \A p \in Seq(Token) :
          Walk(<< <<c>> >>, Names(Append(p, "\\") \o t), 1) =
            Walk(Walk(<< <<c>> >>, Names(p), 1), Names(t), 1)
    BY Subsets, WalkNames
  <2>2. <<>> \in Seq(Token)
    OBVIOUS
  <2> QED BY <2>1, <2>2, WalkNothing
<1> HIDE DEF tail
<1>8. WinPath(text) = IF <<c>> \in Drives THEN Walk(<< <<c>> >>, Names(t), 1) ELSE Nowhere
  BY <1>5, <1>6, <1>7 DEF WinPath
<1> QED BY <1>4, <1>8 DEF text

\* What lies behind the prefix of a path below a mount point.
LEMMA Skipped ==
  ASSUME NEW path \in Seq(Token)
  PROVE  /\ IsPrefix(Mnt, path) \/ IsPrefix(Tmp, path) => Skip5(path) = SubSeq(path, 4, Len(path))
         /\ IsPrefix(Home, path) => Skip5(path) = SubSeq(path, 3, Len(path))
         /\ Skip5(path) \in Seq(Token)
<1>1. IsPrefix(Mnt, path) \/ IsPrefix(Tmp, path) => ~IsPrefix(Home, path)
  BY MountPoints
<1>2. ASSUME NEW k \in 1 .. 4 PROVE SubSeq(path, k, Len(path)) \in Seq(Token)
  <2>1. \A i \in k .. Len(path) : path[i] \in Token
    OBVIOUS
  <2>2. k \in Int /\ Len(path) \in Int
    OBVIOUS
  <2> QED BY <2>1, <2>2, SubSeqProperties
<1>3. Skip5(path) = IF IsPrefix(Home, path) THEN SubSeq(path, 3, Len(path)) ELSE SubSeq(path, 4, Len(path))
  BY DEF Skip5
<1>4. SubSeq(path, 3, Len(path)) \in Seq(Token) /\ SubSeq(path, 4, Len(path)) \in Seq(Token)
  BY <1>2
<1> QED BY <1>1, <1>3, <1>4

\* The translation of a path below /mnt: its fourth token is the drive.
LEMMA Translated ==
  ASSUME NEW path \in Seq(Token), IsPrefix(Mnt, path), Len(path) >= 4
  PROVE  /\ SubSeq(path, 6, Len(path)) \in Seq(Token) /\ path[4] \in Token
         /\ Translate(path) = WinSlashes(<<path[4], ":", "/">>) \o WinSlashes(SubSeq(path, 6, Len(path)))
<1> DEFINE rest == Skip5(path)
           more == SubSeq(path, 6, Len(path))
<1>1. Len(path) \in Nat /\ path[4] \in Token
  OBVIOUS
<1>2. rest = SubSeq(path, 4, Len(path)) /\ rest \in Seq(Token)
  BY Skipped
<1>3. Len(rest) = Len(path) - 3 /\ rest[1] = path[4] /\ \A i \in 1 .. Len(path) - 3 : rest[i] = path[i + 3]
  <2>1. \A i \in 4 .. Len(path) : path[i] \in Token
    BY <1>1
  <2>2. 4 \in Int /\ Len(path) \in Int
    BY <1>1
  <2>3. /\ Len(SubSeq(path, 4, Len(path))) = IF 4 <= Len(path) THEN Len(path) - 4 + 1 ELSE 0
        /\ \A i \in 1 .. Len(path) - 4 + 1 : SubSeq(path, 4, Len(path))[i] = path[4 + i - 1]
    BY <2>1, <2>2, SubSeqProperties
  <2> HIDE DEF rest
  <2>4. Len(path) - 4 + 1 = Len(path) - 3 /\ \A i \in 1 .. Len(path) - 3 : 4 + i - 1 = i + 3
    BY <1>1
  <2>5. 1 \in 1 .. Len(path) - 3
    BY <1>1
  <2>6. Len(rest) = Len(path) - 3 /\ \A i \in 1 .. Len(path) - 3 : rest[i] = path[i + 3]
    BY <1>1, <1>2, <2>3, <2>4
  <2> QED BY <2>5, <2>6
<1>4. more \in Seq(Token)
  <2>1. \A i \in 6 .. Len(path) : path[i] \in Token
    BY <1>1
  <2>2. 6 \in Int /\ Len(path) \in Int
    BY <1>1
  <2> QED BY <2>1, <2>2, SubSeqProperties
<1>5. SubSeq(rest, 3, Len(rest)) = more
  <2> HIDE DEF rest
  <2>1. CASE Len(path) < 6
    <3>1. SubSeq(path, 6, Len(path)) = <<>>
      BY <1>1, <2>1, SubSeqEmpty
    <3>2. Len(rest) < 3 /\ Len(rest) \in Int
      BY <1>1, <1>3, <2>1
    <3>3. SubSeq(rest, 3, Len(rest)) = <<>>
      BY <3>2, SubSeqEmpty
    <3> QED BY <3>1, <3>3
  <2>2. CASE ~(Len(path) < 6)
    <3> DEFINE n == Len(path)
    <3>1. /\ 4 \in 1 .. n /\ n \in 1 .. n /\ 3 \in 1 .. n - 4 + 1 /\ n - 3 \in 1 .. n - 4 + 1
          /\ 4 + 3 - 1 = 6 /\ 4 + (n - 3) - 1 = n
      BY <1>1, <2>2
    <3>2. SubSeq(SubSeq(path, 4, n), 3, n - 3) = SubSeq(path, 4 + 3 - 1, 4 + (n - 3) - 1)
      BY <3>1, SubSeqOfSubSeq
    <3> QED BY <1>2, <1>3, <3>1, <3>2
  <2> QED BY <2>1, <2>2
<1>6. rest # <<>>
  <2>1. Len(rest) >= 1
    BY <1>1, <1>3
  <2>2. Len(<<>>) = 0
    OBVIOUS
  <2> HIDE DEF rest
  <2> QED BY <2>1, <2>2
<1>7. Translate(path) = WinSlashes(<<rest[1], ":", "/">> \o SubSeq(rest, 3, Len(rest)))
  BY <1>6 DEF Translate
<1> HIDE DEF rest, more
<1>8. <<path[4], ":", "/">> \in Seq(Token)
  <2>1. ":" \in Token /\ "/" \in Token
    BY DEF Token
  <2> QED BY <1>1, <2>1
<1>9. WinSlashes(<<path[4], ":", "/">> \o more) = WinSlashes(<<path[4], ":", "/">>) \o WinSlashes(more)
  BY <1>4, <1>8, WinSlashesJoin
<1> QED BY <1>1, <1>3, <1>4, <1>5, <1>7, <1>9 DEF more

\* A path below /mnt with no drive has no translation.
LEMMA NotTranslated ==
  ASSUME NEW path \in Seq(Token), IsPrefix(Mnt, path), ~(Len(path) >= 4)
  PROVE  Translate(path) = <<>>
<1>1. Skip5(path) = SubSeq(path, 4, Len(path)) /\ Len(path) \in Nat
  BY Skipped
<1>2. SubSeq(path, 4, Len(path)) = <<>>
  <2>1. Len(path) < 4 /\ Len(path) \in Int /\ 4 \in Int
    BY <1>1
  <2> QED BY <2>1, SubSeqEmpty
<1> QED BY <1>1, <1>2 DEF Translate

\* The first token of a translated path.
LEMMA DriveSlashes ==
  ASSUME NEW c \in Token
  PROVE  /\ WinSlashes(<<c, ":", "/">>) = <<IF c = "/" THEN "\\" ELSE c, ":", "\\">>
         /\ <<c>> \in Drives => c # "/" /\ c # "\\"
         /\ <<"\\">> \notin Drives
<1>1. WinSlashes(<<c, ":", "/">>) = <<IF c = "/" THEN "\\" ELSE c, ":", "\\">>
  BY DEF WinSlashes
<1>2. ASSUME NEW d \in Token, <<d>> \in Drives PROVE d # "/" /\ d # "\\"
  <2>1. <<d>> \in Seq(Token \ Slashes)
    BY <1>2, DriveKept DEF Proper, Between
  <2>2. Len(<<d>>) = 1 /\ <<d>>[1] = d
    OBVIOUS
  <2>3. \A s \in Seq(Token \ Slashes) : Len(s) = 1 => s[1] \in Token \ Slashes
    OBVIOUS
  <2>4. d \in Token \ Slashes
    BY <2>1, <2>2, <2>3
  <2> QED BY <2>4 DEF Slashes
<1>3. "\\" \in Token
  BY Subsets
<1> QED BY <1>1, <1>2, <1>3

\* The path of Windows that a path below /mnt stands for.
LEMMA MntPath ==
  ASSUME NEW path \in Seq(Token), IsPrefix(Mnt, path), Len(path) >= 4, <<path[4]>> \in Drives
  PROVE  /\ Translate(path) = <<path[4], ":", "\\">> \o WinSlashes(SubSeq(path, 6, Len(path)))
         /\ WinPath(Translate(path)) = Walk(<< <<path[4]>> >>, Names(SubSeq(path, 6, Len(path))), 1)
<1> DEFINE more == SubSeq(path, 6, Len(path))
<1>1. more \in Seq(Token) /\ path[4] \in Token
  BY Translated
<1>2. Translate(path) = <<path[4], ":", "\\">> \o WinSlashes(more)
  <2>1. Translate(path) = WinSlashes(<<path[4], ":", "/">>) \o WinSlashes(more)
    BY Translated
  <2>2. WinSlashes(<<path[4], ":", "/">>) = <<path[4], ":", "\\">>
    BY <1>1, DriveSlashes
  <2> QED BY <2>1, <2>2
<1> HIDE DEF more
<1>3. WinSlashes(more) \in Seq(Token) /\ Names(WinSlashes(more)) = Names(more)
  BY <1>1, SlashTokens, SlashesEach, NamesSlashes
<1>4. WinPath(<<path[4], ":", "\\">> \o WinSlashes(more)) = Walk(<< <<path[4]>> >>, Names(WinSlashes(more)), 1)
  BY <1>1, <1>3, WinPathOfDrive
<1> QED BY <1>2, <1>3, <1>4 DEF more

\* A path below /mnt that stands for a path of Windows begins with a drive.
LEMMA MntPathDrive ==
  ASSUME NEW path \in Seq(Plain), IsPrefix(Mnt, path), WinPath(Translate(path)) # Nowhere
  PROVE  Len(path) >= 4 /\ <<path[4]>> \in Drives
<1>1. path \in Seq(Token)
  BY Subsets
<1>2. ASSUME ~(Len(path) >= 4) PROVE FALSE
  <2>1. Translate(path) = <<>>
    BY <1>1, <1>2, NotTranslated
  <2>2. WinPath(<<>>) = Nowhere
    BY DEF WinPath
  <2> QED BY <2>1, <2>2
<1>3. ASSUME Len(path) >= 4 PROVE <<path[4]>> \in Drives
  <2> DEFINE c == IF path[4] = "/" THEN "\\" ELSE path[4]
             more == SubSeq(path, 6, Len(path))
  <2>1. more \in Seq(Token) /\ path[4] \in Token
    BY <1>1, <1>3, Translated
  <2>2. Translate(path) = WinSlashes(<<path[4], ":", "/">>) \o WinSlashes(more)
    BY <1>1, <1>3, Translated
  <2>3. WinSlashes(<<path[4], ":", "/">>) = <<c, ":", "\\">>
    BY <2>1, DriveSlashes
  <2>4. c \in Token
    BY <2>1, Subsets
  <2> HIDE DEF c, more
  <2>5. WinSlashes(more) \in Seq(Token)
    BY <2>1, SlashTokens, SlashesEach
  <2>6. WinPath(<<c, ":", "\\">> \o WinSlashes(more)) =
          IF <<c>> \in Drives THEN Walk(<< <<c>> >>, Names(WinSlashes(more)), 1) ELSE Nowhere
    BY <2>4, <2>5, WinPathOfDrive
  <2>7. <<c>> \in Drives
    BY <2>2, <2>3, <2>6
  <2>8. c = path[4]
    BY <2>1, <2>7, DriveSlashes DEF c
  <2> QED BY <2>7, <2>8
<1> QED BY <1>2, <1>3

\* The end of what is put behind something.
LEMMA TailJoin ==
  ASSUME NEW A, NEW s \in Seq(A), NEW t \in Seq(A), NEW k \in 1 .. Len(s) + 1
  PROVE  SubSeq(s \o t, k, Len(s \o t)) = SubSeq(s, k, Len(s)) \o t
<1> DEFINE u == s \o t
           x == SubSeq(u, k, Len(u))
           f == SubSeq(s, k, Len(s))
<1>1. /\ u \in Seq(A) /\ Len(u) = Len(s) + Len(t) /\ Len(s) \in Nat /\ Len(t) \in Nat
      /\ \A i \in 1 .. Len(s) + Len(t) : u[i] = IF i <= Len(s) THEN s[i] ELSE t[i - Len(s)]
  BY ConcatProperties
<1> HIDE DEF u
<1>2. k \in Int /\ Len(u) \in Int /\ Len(s) \in Int /\ 1 <= k /\ k <= Len(s) + 1
  BY <1>1
<1>3. /\ x \in Seq(A) /\ Len(x) = Len(s) + Len(t) - k + 1
      /\ \A i \in 1 .. Len(s) + Len(t) - k + 1 : x[i] = u[k + i - 1]
  <2>1. \A i \in k .. Len(u) : u[i] \in A
    BY <1>1, <1>2
  <2>2. /\ x \in Seq(A) /\ Len(x) = IF k <= Len(u) THEN Len(u) - k + 1 ELSE 0
        /\ \A i \in 1 .. Len(u) - k + 1 : x[i] = u[k + i - 1]
    BY <1>2, <2>1, SubSeqProperties
  <2> HIDE DEF x
  <2> QED BY <1>1, <1>2, <2>2
<1>4. f \in Seq(A) /\ Len(f) = Len(s) - k + 1 /\ \A i \in 1 .. Len(s) - k + 1 : f[i] = s[k + i - 1]
  <2>1. \A i \in k .. Len(s) : s[i] \in A
    BY <1>1, <1>2
  <2>2. /\ f \in Seq(A) /\ Len(f) = IF k <= Len(s) THEN Len(s) - k + 1 ELSE 0
        /\ \A i \in 1 .. Len(s) - k + 1 : f[i] = s[k + i - 1]
    BY <1>2, <2>1, SubSeqProperties
  <2> HIDE DEF f
  <2> QED BY <1>1, <1>2, <2>2
<1> HIDE DEF x, f
<1>5. /\ f \o t \in Seq(A) /\ Len(f \o t) = Len(s) + Len(t) - k + 1
      /\ \A i \in 1 .. Len(s) + Len(t) - k + 1 :
           (f \o t)[i] = IF i <= Len(s) - k + 1 THEN f[i] ELSE t[i - (Len(s) - k + 1)]
  <2>1. /\ f \o t \in Seq(A) /\ Len(f \o t) = Len(f) + Len(t)
        /\ \A i \in 1 .. Len(f) + Len(t) : (f \o t)[i] = IF i <= Len(f) THEN f[i] ELSE t[i - Len(f)]
    BY <1>4, ConcatProperties
  <2>2. Len(f) + Len(t) = Len(s) + Len(t) - k + 1
    BY <1>1, <1>2, <1>4
  <2> QED BY <1>4, <2>1, <2>2
<1>6. ASSUME NEW i \in 1 .. Len(s) + Len(t) - k + 1 PROVE x[i] = (f \o t)[i]
  <2>1. k + i - 1 \in 1 .. Len(s) + Len(t) /\ x[i] = u[k + i - 1]
    BY <1>1, <1>2, <1>3
  <2>2. CASE i <= Len(s) - k + 1
    <3>1. k + i - 1 <= Len(s) /\ i \in 1 .. Len(s) - k + 1
      BY <1>1, <1>2, <2>2
    <3> QED BY <1>1, <1>4, <1>5, <2>1, <2>2, <3>1
  <2>3. CASE ~(i <= Len(s) - k + 1)
    <3>1. ~(k + i - 1 <= Len(s)) /\ (k + i - 1) - Len(s) = i - (Len(s) - k + 1)
      BY <1>1, <1>2, <2>3
    <3> QED BY <1>1, <1>5, <2>1, <2>3, <3>1
  <2> QED BY <2>2, <2>3
<1>7. x = f \o t
  <2> DEFINE g == f \o t
  <2>1. g \in Seq(A) /\ Len(g) = Len(x) /\ \A i \in 1 .. Len(x) : x[i] = g[i]
    BY <1>3, <1>5, <1>6
  <2> HIDE DEF g
  <2>2. x = g
    BY <1>3, <2>1, SeqEqual
  <2> QED BY <2>2 DEF g
<1> QED BY <1>7 DEF x, f, u

\* A name behind a path, with the slash between them.
LEMMA Joined ==
  ASSUME NEW wd \in Seq(Token), NEW a \in Seq(Token), Len(wd) >= 2
  PROVE  /\ wd \o <<"/">> \o a = Append(wd, "/") \o a
         /\ wd \o <<"/">> \o a \in Seq(Token) /\ Len(wd \o <<"/">> \o a) = Len(wd) + 1 + Len(a)
         /\ \A i \in 1 .. Len(wd) : (wd \o <<"/">> \o a)[i] = wd[i]
         /\ Len(wd) \in Nat /\ Len(a) \in Nat
         /\ \A k \in 1 .. Len(wd) + 1 :
              SubSeq(wd \o <<"/">> \o a, k, Len(wd \o <<"/">> \o a)) =
                Append(SubSeq(wd, k, Len(wd)), "/") \o a /\ SubSeq(wd, k, Len(wd)) \in Seq(Token)
         /\ SubSeq(wd \o <<"/">> \o a, Len(wd) + 2, Len(wd \o <<"/">> \o a)) = a
<1> DEFINE s == Append(wd, "/")
           p == s \o a
<1>1. "/" \in Token /\ <<"/">> \in Seq(Token)
  BY Subsets
<1>2. wd \o <<"/">> = s
  BY <1>1, Behind
<1>3. /\ s \in Seq(Token) /\ Len(s) = Len(wd) + 1 /\ Len(wd) \in Nat /\ Len(a) \in Nat
      /\ \A i \in 1 .. Len(wd) : s[i] = wd[i]
  BY <1>1
<1> HIDE DEF s
<1>4. /\ p \in Seq(Token) /\ Len(p) = Len(wd) + 1 + Len(a)
      /\ \A i \in 1 .. Len(wd) : p[i] = wd[i]
  <2>1. /\ s \o a \in Seq(Token) /\ Len(s \o a) = Len(s) + Len(a)
        /\ \A i \in 1 .. Len(s) + Len(a) : (s \o a)[i] = IF i <= Len(s) THEN s[i] ELSE a[i - Len(s)]
    BY <1>3, ConcatProperties
  <2>2. \A i \in 1 .. Len(wd) : i \in 1 .. Len(s) + Len(a) /\ i <= Len(s)
    BY <1>3
  <2> QED BY <1>3, <2>1, <2>2
<1>5. \A k \in 1 .. Len(wd) + 2 : SubSeq(p, k, Len(p)) = SubSeq(s, k, Len(s)) \o a
  <2>1. Len(s) + 1 = Len(wd) + 2
    BY <1>3
  <2> QED BY <1>3, <2>1, TailJoin
<1>6. ASSUME NEW k \in 1 .. Len(wd) + 1
      PROVE  SubSeq(s, k, Len(s)) = Append(SubSeq(wd, k, Len(wd)), "/") /\ SubSeq(wd, k, Len(wd)) \in Seq(Token)
  <2>1. SubSeq(wd \o <<"/">>, k, Len(wd \o <<"/">>)) = SubSeq(wd, k, Len(wd)) \o <<"/">>
    BY <1>1, TailJoin
  <2>2. SubSeq(wd, k, Len(wd)) \in Seq(Token)
    <3>1. \A i \in k .. Len(wd) : wd[i] \in Token
      BY <1>3
    <3>2. k \in Int /\ Len(wd) \in Int
      BY <1>3
    <3> QED BY <3>1, <3>2, SubSeqProperties
  <2>3. SubSeq(wd, k, Len(wd)) \o <<"/">> = Append(SubSeq(wd, k, Len(wd)), "/")
    BY <1>1, <2>2, AppendIsConcat
  <2> QED BY <1>2, <2>1, <2>2, <2>3
<1>7. SubSeq(s, Len(wd) + 2, Len(s)) \o a = a
  <2>1. Len(wd) + 2 \in Int /\ Len(s) \in Int /\ Len(s) < Len(wd) + 2
    BY <1>3
  <2>2. SubSeq(s, Len(wd) + 2, Len(s)) = <<>>
    BY <2>1, SubSeqEmpty
  <2>3. <<>> \o a = a
    BY ConcatEmptySeq
  <2> QED BY <2>2, <2>3
<1>8. \A k \in 1 .. Len(wd) + 1 : k \in 1 .. Len(wd) + 2
  BY <1>3
<1>9. Len(wd) + 2 \in 1 .. Len(wd) + 2
  BY <1>3
<1>10. \A k \in 1 .. Len(wd) + 1 :
         SubSeq(p, k, Len(p)) = Append(SubSeq(wd, k, Len(wd)), "/") \o a /\ SubSeq(wd, k, Len(wd)) \in Seq(Token)
  BY <1>5, <1>6, <1>8
<1>11. SubSeq(p, Len(wd) + 2, Len(p)) = a
  BY <1>5, <1>7, <1>9
<1>12. wd \o <<"/">> \o a = p
  BY <1>2
<1> HIDE DEF p
<1>13. p = Append(wd, "/") \o a
  BY DEF p, s
<1> QED BY <1>3, <1>4, <1>10, <1>11, <1>12, <1>13

\* Both ways to name a below directory wd lead from there: mod_get_path's, with
\* the translated directory, and the translation of the whole path.
LEMMA MntJoined ==
  ASSUME NEW wd \in Seq(Token), IsPrefix(Mnt, wd), Len(wd) >= 4, <<wd[4]>> \in Drives, NEW a \in Seq(Token)
  PROVE  /\ WinPath(WinSlashes(Translate(wd) \o <<"/">> \o a)) = Walk(WinPath(Translate(wd)), Names(a), 1)
         /\ IsPrefix(Mnt, wd \o <<"/">> \o a) /\ wd \o <<"/">> \o a # Mnt
         /\ WinPath(Translate(wd \o <<"/">> \o a)) = Walk(WinPath(Translate(wd)), Names(a), 1)
<1> DEFINE D == << <<wd[4]>> >>
           X == SubSeq(wd, 6, Len(wd))
           h == <<wd[4], ":", "\\">>
           p == wd \o <<"/">> \o a
<1>1. /\ X \in Seq(Token) /\ wd[4] \in Token
      /\ Translate(wd) = h \o WinSlashes(X) /\ WinPath(Translate(wd)) = Walk(D, Names(X), 1)
  BY Translated, MntPath
<1>2. h \in Seq(Token) /\ WinSlashes(h) = h
  <2>1. wd[4] # "/"
    BY <1>1, DriveSlashes
  <2>2. h \in Seq(Token)
    BY <1>1 DEF Token
  <2>3. WinSlashes(h) = h
    BY <2>1 DEF WinSlashes
  <2> QED BY <2>2, <2>3
<1> HIDE DEF D, X, h
<1>3. /\ WinSlashes(X) \in Seq(Token) /\ WinSlashes(WinSlashes(X)) = WinSlashes(X)
      /\ WinSlashes(a) \in Seq(Token) /\ Names(WinSlashes(a)) = Names(a) /\ Names(WinSlashes(X)) = Names(X)
  BY <1>1, SlashTokens, SlashesEach, WinSlashesSame, NamesSlashes
<1>4. WinPath(WinSlashes(Translate(wd) \o <<"/">> \o a)) = Walk(WinPath(Translate(wd)), Names(a), 1)
  <2> DEFINE wx == WinSlashes(X)
             wa == WinSlashes(a)
  <2>1. Translate(wd) \in Seq(Token) /\ WinSlashes(Translate(wd)) = h \o wx
    <3>1. WinSlashes(h \o wx) = WinSlashes(h) \o WinSlashes(wx)
      BY <1>2, <1>3, WinSlashesJoin
    <3> QED BY <1>1, <1>2, <1>3, <3>1
  <2>2. <<"/">> \in Seq(Token) /\ <<"\\">> \in Seq(Token) /\ WinSlashes(<<"/">>) = <<"\\">>
    BY Subsets DEF WinSlashes
  <2>3. WinSlashes(Translate(wd) \o <<"/">> \o a) = ((h \o wx) \o <<"\\">>) \o wa
    <3>1. WinSlashes(Translate(wd) \o <<"/">>) = WinSlashes(Translate(wd)) \o WinSlashes(<<"/">>)
      BY <2>1, <2>2, WinSlashesJoin
    <3>2. Translate(wd) \o <<"/">> \in Seq(Token)
      BY <2>1, <2>2
    <3>3. WinSlashes((Translate(wd) \o <<"/">>) \o a) = WinSlashes(Translate(wd) \o <<"/">>) \o WinSlashes(a)
      BY <3>2, WinSlashesJoin
    <3> QED BY <2>1, <2>2, <3>1, <3>3
  <2> HIDE DEF wx, wa
  <2>4. wx \in Seq(Token) /\ wa \in Seq(Token)
    BY <1>3 DEF wx, wa
  <2>5. ((h \o wx) \o <<"\\">>) \o wa = h \o (Append(wx, "\\") \o wa)
    <3>1. \A z \in Seq(Token) : (h \o wx) \o z = h \o (wx \o z)
      BY <1>2, <2>4, Associates, Zenon
    <3>2. (h \o wx) \o <<"\\">> = h \o (wx \o <<"\\">>)
      BY <2>2, <3>1, Zenon
    <3>3. wx \o <<"\\">> = Append(wx, "\\") /\ wx \o <<"\\">> \in Seq(Token)
      BY <2>2, <2>4, Subsets, AppendIsConcat
    <3>4. \A y \in Seq(Token) : (h \o y) \o wa = h \o (y \o wa)
      BY <1>2, <2>4, Associates, Zenon
    <3>5. (h \o (wx \o <<"\\">>)) \o wa = h \o ((wx \o <<"\\">>) \o wa)
      BY <3>3, <3>4, Zenon
    <3> QED BY <3>2, <3>3, <3>5
  <2>6. /\ Append(wx, "\\") \o wa \in Seq(Token)
        /\ Walk(D, Names(Append(wx, "\\") \o wa), 1) = Walk(Walk(D, Names(wx), 1), Names(wa), 1)
    <3>1. "\\" \in Slashes
      BY Subsets
    <3> QED BY <2>4, <3>1, WalkNames
  <2>7. WinPath(h \o (Append(wx, "\\") \o wa)) = Walk(D, Names(Append(wx, "\\") \o wa), 1)
    BY <1>1, <2>6, WinPathOfDrive DEF h, D
  <2> QED BY <1>1, <1>3, <2>3, <2>5, <2>6, <2>7 DEF wx, wa
<1>5. /\ p \in Seq(Token) /\ Len(p) = Len(wd) + 1 + Len(a) /\ Len(wd) \in Nat /\ Len(a) \in Nat
      /\ p[1] = wd[1] /\ p[2] = wd[2] /\ p[4] = wd[4]
  <2>1. Len(wd) \in Nat
    OBVIOUS
  <2>2. Len(wd) >= 2 /\ 1 \in 1 .. Len(wd) /\ 2 \in 1 .. Len(wd) /\ 4 \in 1 .. Len(wd)
    BY <2>1
  <2> QED BY <2>2, Joined
<1>6. Len(p) >= 4 /\ Len(p) >= 2 /\ Len(p) # 2 /\ Len(wd) >= 2
  BY <1>5
<1>7. IsPrefix(Mnt, p) /\ p # Mnt
  <2>1. wd[1] = "/" /\ wd[2] = "mnt"
    BY MountPoints
  <2>2. IsPrefix(Mnt, p)
    BY <1>5, <1>6, <2>1, MountPoints
  <2>3. Len(Mnt) = 2
    BY DEF Mnt
  <2> QED BY <1>6, <2>2, <2>3
<1>8. WinPath(Translate(p)) = Walk(D, Names(SubSeq(p, 6, Len(p))), 1)
  <2>1. p \in Seq(Token) /\ Len(p) >= 4 /\ <<p[4]>> \in Drives /\ D = << <<p[4]>> >>
    BY <1>5, <1>6 DEF D
  <2> HIDE DEF p
  <2> QED BY <1>7, <2>1, MntPath
<1>9. Walk(D, Names(SubSeq(p, 6, Len(p))), 1) = Walk(Walk(D, Names(X), 1), Names(a), 1)
  <2>1. CASE Len(wd) = 4
    <3>1. SubSeq(p, 6, Len(p)) = a
      <4>1. SubSeq(p, Len(wd) + 2, Len(p)) = a
        BY <1>6, Joined
      <4>2. Len(wd) + 2 = 6
        BY ONLY <2>1
      <4> QED BY <4>1, <4>2
    <3>2. X = <<>>
      BY <2>1, SubSeqEmpty DEF X
    <3>3. Walk(D, Names(<<>>), 1) = D
      BY WalkNothing
    <3> HIDE DEF p
    <3> QED BY <3>1, <3>2, <3>3
  <2>2. CASE Len(wd) # 4
    <3>1. 6 \in 1 .. Len(wd) + 1
      <4>1. Len(wd) \in Nat /\ Len(wd) >= 4
        BY <1>5
      <4>2. \A n \in Nat : n >= 4 /\ n # 4 => 6 \in 1 .. n + 1
        OBVIOUS
      <4> QED BY <2>2, <4>1, <4>2, Zenon
    <3>2. SubSeq(p, 6, Len(p)) = Append(X, "/") \o a
      BY <1>6, <3>1, Joined DEF X
    <3>3. Walk(D, Names(Append(X, "/") \o a), 1) = Walk(Walk(D, Names(X), 1), Names(a), 1)
      BY <1>1, Subsets, WalkNames
    <3> QED BY <3>2, <3>3
  <2> QED BY <2>1, <2>2
<1> HIDE DEF p
<1>10. WinPath(Translate(p)) = Walk(WinPath(Translate(wd)), Names(a), 1)
  BY <1>1, <1>8, <1>9
<1> QED BY <1>4, <1>7, <1>10 DEF p

-----------------------------------------------------------------------------
\* The disk: directories and files have proper names, what a directory is in is
\* a directory, Windows keeps its own, and no name is both.
DiskInv ==
  /\ \A p \in dirs \cup files : p \in Seq(Proper) /\ p # <<>>
  /\ \A p \in dirs : Len(p) > 1 => Front(p) \in dirs
  /\ Kept \subseteq dirs
  /\ dirs \cap files = {}

\* A working directory below /mnt names a drive.
Named(wd) == IsPrefix(Mnt, wd) /\ wd # Mnt => Len(wd) >= 4 /\ <<wd[4]>> \in Drives

PathInv == IInv /\ Named(wdir) /\ DiskInv

\* The root of a drive is there.
LEMMA DriveThere ==
  ASSUME DiskInv, NEW path \in Seq(Token), IsPrefix(Mnt, path), Len(path) >= 4, Len(path) < 6,
         <<path[4]>> \in Drives
  PROVE  WinPath(Translate(path)) = << <<path[4]>> >> /\ WinPath(Translate(path)) \in dirs
<1>1. SubSeq(path, 6, Len(path)) = <<>>
  <2>1. 6 \in Int /\ Len(path) \in Int /\ Len(path) < 6
    OBVIOUS
  <2> QED BY <2>1, SubSeqEmpty
<1>2. WinPath(Translate(path)) = Walk(<< <<path[4]>> >>, Names(SubSeq(path, 6, Len(path))), 1)
  BY MntPath
<1>3. WinPath(Translate(path)) = << <<path[4]>> >>
  BY <1>1, <1>2, WalkNothing
<1>4. << <<path[4]>> >> \in dirs
  BY DriveKept DEF DiskInv
<1> QED BY <1>3, <1>4

\* Where ".." leaves something behind the string, it goes to the root of a drive.
LEMMA ResidueAtDrive ==
  ASSUME NEW wd \in Seq(Plain), Absolute(wd), Named(wd), NEW arg \in Seq(Token),
         IsPrefix(Mnt, NewPath(wd, arg)), NewPath(wd, arg) # Mnt, Residue(wd, arg) # <<>>
  PROVE  /\ arg = Up /\ NewPath(wd, arg) \in Seq(Plain) /\ Len(NewPath(wd, arg)) = 4
         /\ <<NewPath(wd, arg)[4]>> \in Drives
<1> DEFINE q == SubSeq(wd, 1, 4)
<1>1. arg = Up /\ wd # Root /\ LastSlash(wd) = 5
  BY DEF Residue
<1>2. LastSlash(wd) \in 1 .. Len(wd) /\ Len(wd) \in Nat /\ Len(wd) >= 5 /\ wd \in Seq(Token)
  BY <1>1, LastSlashInside, Subsets
<1>3. q \in Seq(Plain) /\ Len(q) = 4 /\ q[1] = wd[1] /\ q[2] = wd[2] /\ q[4] = wd[4]
  <2>1. \A i \in 1 .. 4 : wd[i] \in Plain
    BY <1>2
  <2> QED BY <2>1, SubSeqProperties
<1>4. NewPath(wd, arg) = StripSlash(q)
  <2>1. Up \in Between /\ Up \in Seq(Token) /\ Len(Up) = 2
    <3>1. "." \in Token \ Slashes
      BY DEF Token, Slashes
    <3> QED BY <3>1, Subsets DEF Up, Between
  <2>2. FixSlashes(Up) = Up
    BY <2>1, WinSlashesSame
  <2>3. GoesUp(wd, Up)
    <3>1. Len(Up) <= Len(Up)
      BY <2>1
    <3> QED BY <1>1, <3>1 DEF GoesUp, IsPrefix
  <2>4. SubSeq(Up, 3, Len(Up)) = <<>>
    BY <2>1, SubSeqEmpty
  <2>5. Parent(wd, Up) = StripSlash(q \o SubSeq(Up, 3, Len(Up)))
    <3>1. LastSlash(wd) # 1 /\ LastSlash(wd) - 1 = 4
      BY <1>1
    <3> QED BY <3>1 DEF Parent
  <2>6. q \o <<>> = q
    <3> HIDE DEF q
    <3> QED BY <1>3
  <2>7. NewPath(wd, Up) = Parent(wd, Up)
    BY <2>2, <2>3 DEF NewPath
  <2> QED BY <1>1, <2>4, <2>5, <2>6, <2>7
<1> HIDE DEF q
<1>5. /\ StripSlash(q) = q \/ (StripSlash(q) = Front(q) /\ Last(q) = "/")
      /\ Front(q) \in Seq(Plain) /\ Front(q)[1] = q[1] /\ Front(q)[2] = q[2] /\ Last(q) = q[4]
  <2>1. /\ SubSeq(q, 1, 3) \in Seq(Plain)
        /\ SubSeq(q, 1, 3)[1] = q[1] /\ SubSeq(q, 1, 3)[2] = q[2]
    <3>1. ASSUME NEW i \in 1 .. 3 PROVE q[i] \in Plain
      <4>1. i \in 1 .. Len(q)
        BY <1>3
      <4> QED BY <1>3, <4>1, ElementOfSeq
    <3> QED BY <3>1, SubSeqProperties
  <2>2. Front(q) = SubSeq(q, 1, 3) /\ Last(q) = q[4]
    BY <1>3 DEF Front, Last
  <2>3. StripSlash(q) = q \/ (StripSlash(q) = Front(q) /\ Last(q) = "/")
    BY DEF StripSlash
  <2> QED BY <2>1, <2>2, <2>3
<1>6. wd[1] = "/" /\ wd[2] = "mnt"
  <2>1. StripSlash(q) \in Seq(Token) /\ StripSlash(q)[1] = wd[1] /\ StripSlash(q)[2] = wd[2]
    BY <1>3, <1>5, Subsets
  <2> QED BY <1>4, <2>1, MountPoints
<1>7. IsPrefix(Mnt, wd) /\ wd # Mnt
  <2>1. Len(wd) >= 2 /\ Len(wd) # 2
    <3>1. \A n \in Nat : n >= 5 => n >= 2 /\ n # 2
      OBVIOUS
    <3> QED BY <1>2, <3>1
  <2>2. Len(Mnt) = 2
    BY DEF Mnt
  <2> QED BY <1>2, <1>6, <2>1, <2>2, MountPoints
<1>8. <<wd[4]>> \in Drives
  BY <1>7 DEF Named
<1>9. wd[4] # "/"
  <2>1. wd[4] \in Token
    BY <1>2
  <2> QED BY <1>8, <2>1, DriveSlashes
<1> QED BY <1>1, <1>3, <1>4, <1>5, <1>8, <1>9

\* mod_cwd of /mnt lets a session into what is there, and only into that.
LEMMA MntEntered ==
  ASSUME DiskInv, NEW wd \in Seq(Plain), Absolute(wd), Named(wd), NEW arg \in Seq(Token),
         IsPrefix(Mnt, NewPath(wd, arg)), NewPath(wd, arg) # Mnt
  PROVE  /\ Accepts(wd, arg) => WinPath(Translate(NewPath(wd, arg))) \in dirs
         /\ WinPath(Translate(NewPath(wd, arg))) \in dirs => Accepts(wd, arg) \/ arg = Up
         /\ Accepts(wd, arg) => Named(NewPath(wd, arg))
<1> DEFINE path == NewPath(wd, arg)
<1>1. path \in Seq(Plain) /\ Absolute(path) /\ path \in Seq(Token)
  BY NewPathAbsolute, Subsets
<1> HIDE DEF path
<1>2. IsPrefix(Mnt, path) /\ path # Mnt
  BY DEF path
<1>3. Dispatch(wd, path) = "mnt"
  BY <1>1, <1>2, ModOf DEF Dispatch
<1>4. Accepts(wd, arg) <=> WinPath(Translate(path) \o Residue(wd, arg)) \in dirs
  BY <1>2, <1>3 DEF Accepts, MntAccepts, path
<1>5. ASSUME Residue(wd, arg) = <<>>
      PROVE  /\ Accepts(wd, arg) => WinPath(Translate(path)) \in dirs
             /\ WinPath(Translate(path)) \in dirs => Accepts(wd, arg) \/ arg = Up
  <2>1. Translate(path) \in Seq(Token)
    <3>1. CASE Len(path) >= 4
      <4>1. Translate(path) = WinSlashes(<<path[4], ":", "/">>) \o WinSlashes(SubSeq(path, 6, Len(path)))
            /\ SubSeq(path, 6, Len(path)) \in Seq(Token) /\ path[4] \in Token
        BY <1>1, <1>2, <3>1, Translated
      <4>2. <<path[4], ":", "/">> \in Seq(Token)
        BY <4>1 DEF Token
      <4>3. WinSlashes(<<path[4], ":", "/">>) \in Seq(Token) /\ WinSlashes(SubSeq(path, 6, Len(path))) \in Seq(Token)
        BY <4>1, <4>2, SlashTokens, SlashesEach
      <4> QED BY <4>1, <4>3
    <3>2. CASE ~(Len(path) >= 4)
      <4>1. Translate(path) = <<>>
        BY <1>1, <1>2, <3>2, NotTranslated
      <4> QED BY <4>1
    <3> QED BY <3>1, <3>2
  <2>2. Translate(path) \o <<>> = Translate(path)
    BY <2>1
  <2>3. Accepts(wd, arg) <=> WinPath(Translate(path)) \in dirs
    BY <1>4, <1>5, <2>2
  <2> QED BY <2>3
<1>6. ASSUME Residue(wd, arg) # <<>>
      PROVE  /\ Accepts(wd, arg) => WinPath(Translate(path)) \in dirs
             /\ WinPath(Translate(path)) \in dirs => Accepts(wd, arg) \/ arg = Up
  <2>1. arg = Up /\ Len(path) = 4 /\ <<path[4]>> \in Drives
    BY <1>6, ResidueAtDrive DEF path
  <2>2. WinPath(Translate(path)) \in dirs
    <3>1. Len(path) >= 4 /\ Len(path) < 6
      BY ONLY <2>1
    <3> QED BY <1>1, <1>2, <2>1, <3>1, DriveThere
  <2> QED BY <2>1, <2>2
<1>7. WinPath(Translate(path)) \in dirs => Named(path)
  <2>1. Nowhere \notin dirs
    BY DEF DiskInv, Nowhere
  <2> QED BY <1>1, <1>2, <2>1, MntPathDrive DEF Named
<1>8. /\ Accepts(wd, arg) => WinPath(Translate(path)) \in dirs
      /\ WinPath(Translate(path)) \in dirs => Accepts(wd, arg) \/ arg = Up
  BY <1>5, <1>6
<1> QED BY <1>7, <1>8 DEF path

\* The text of a path is made of tokens, whatever the argument.
LEMMA TranslateTyped ==
  ASSUME NEW path \in Seq(Token)
  PROVE  Translate(path) \in Seq(Token) /\ WinSlashes(Translate(path)) = Translate(path)
<1> DEFINE rest == Skip5(path)
           more == SubSeq(rest, 3, Len(rest))
<1>1. rest \in Seq(Token)
  BY Skipped
<1> HIDE DEF rest
<1>2. CASE rest = <<>>
  <2>1. Translate(path) = <<>>
    BY <1>2 DEF Translate, rest
  <2>2. WinSlashes(<<>>) = <<>> /\ <<>> \in Seq(Token)
    BY DEF WinSlashes
  <2> QED BY <2>1, <2>2
<1>3. CASE rest # <<>>
  <2>1. more \in Seq(Token)
    <3>1. \A i \in 3 .. Len(rest) : rest[i] \in Token
      BY <1>1
    <3>2. 3 \in Int /\ Len(rest) \in Int
      BY <1>1
    <3> QED BY <3>1, <3>2, SubSeqProperties
  <2>2. rest[1] \in Token
    <3>1. Len(rest) \in Nat /\ Len(rest) # 0
      BY <1>1, <1>3, EmptySeq
    <3>2. 1 \in 1 .. Len(rest)
      BY ONLY <3>1
    <3> QED BY <1>1, <3>2, ElementOfSeq
  <2>3. <<rest[1], ":", "/">> \in Seq(Token)
    BY <2>2 DEF Token
  <2> HIDE DEF more
  <2>4. /\ WinSlashes(<<rest[1], ":", "/">> \o more) \in Seq(Token)
        /\ WinSlashes(WinSlashes(<<rest[1], ":", "/">> \o more)) = WinSlashes(<<rest[1], ":", "/">> \o more)
    <3>1. <<rest[1], ":", "/">> \o more \in Seq(Token)
      BY <2>1, <2>3
    <3> QED BY <3>1, SlashTokens, SlashesEach, WinSlashesSame
  <2>5. Translate(path) = WinSlashes(<<rest[1], ":", "/">> \o more)
    BY <1>3 DEF Translate, rest, more
  <2> QED BY <2>4, <2>5
<1> QED BY <1>2, <1>3

\* The directories below /mnt that stand for /home and /tmp are made of tokens.
LEMMA DirsTyped ==
  ASSUME NEW wd \in Seq(Token)
  PROVE  HomeDir(wd) \in Seq(Token) /\ TmpDir(wd) \in Seq(Token)
<1>1. Skip5(wd) \in Seq(Token)
  BY Skipped
<1>2. Mnt \o <<"/", WinDrive, "/", "Users">> \in Seq(Token) /\ TempDir \in Seq(Token)
  <2>1. Mnt \in Seq(Token) /\ <<"/", WinDrive, "/", "Users">> \in Seq(Token) /\ <<"/", WinDrive, "/", "Temp">> \in Seq(Token)
    BY DEF Mnt, Token
  <2> QED BY <2>1 DEF TempDir
<1>3. \A p, q \in Seq(Token) : p \o q \in Seq(Token)
  OBVIOUS
<1> QED BY <1>1, <1>2, <1>3 DEF HomeDir, TmpDir

\* So is the text of a Windows path.
LEMMA MntFileTyped ==
  ASSUME NEW wd \in Seq(Token), NEW a \in Seq(Token)
  PROVE  MntFile(wd, a) \in Seq(Token)
<1>1. Translate(wd) \in Seq(Token) /\ Translate(a) \in Seq(Token) /\ <<"/">> \in Seq(Token)
  BY TranslateTyped, Subsets
<1>2. Translate(wd) \o <<"/">> \o a \in Seq(Token)
  <2>1. \A p, q \in Seq(Token) : p \o q \in Seq(Token)
    OBVIOUS
  <2> QED BY <1>1, <2>1
<1>3. (IF Absolute(a) THEN Translate(a) ELSE Translate(wd) \o <<"/">> \o a) \in Seq(Token)
  BY <1>1, <1>2
<1> QED BY <1>3, SlashTokens, SlashesEach DEF MntFile

\* A command is refused, or works on a path of Windows.
LEMMA FileNameTyped ==
  ASSUME NEW wd \in Seq(Token), NEW cmd, NEW a \in Seq(Token)
  PROVE  FileName(wd, cmd, a) = Nowhere \/ FileName(wd, cmd, a) \in Seq(Proper)
<1> DEFINE text == IF Dispatch(wd, a) = "home" THEN HomeFile(wd, a)
                   ELSE IF Dispatch(wd, a) = "tmp" THEN TmpFile(wd, a) ELSE MntFile(wd, a)
<1>1. text \in Seq(Token)
  BY DirsTyped, MntFileTyped DEF HomeFile, TmpFile
<1>2. FileName(wd, cmd, a) = Nowhere \/ FileName(wd, cmd, a) = WinPath(text)
  BY DEF FileName
<1> HIDE DEF text
<1> QED BY <1>1, <1>2, WinPathTyped

\* Every step keeps the disk as it must be.
LEMMA DiskNext ==
  ASSUME wdir \in Seq(Plain), DiskInv, [Next]_vars
  PROVE  DiskInv'
<1> USE DEF DiskInv
<1>1. wdir \in Seq(Token)
  BY Subsets
<1>2. ASSUME UNCHANGED <<dirs, files>> PROVE DiskInv'
  BY <1>2
<1>3. ASSUME NEW p \in (dirs \ Kept) \cup files, p \in dirs => Inside(p) = {},
             dirs' = dirs \ {p}, files' = files \ {p}
      PROVE  DiskInv'
  <2>1. p \notin Kept
    BY <1>3
  <2>2. ASSUME NEW q \in dirs', Len(q) > 1 PROVE Front(q) \in dirs'
    <3>1. q \in dirs /\ q # p /\ Front(q) \in dirs
      BY <1>3, <2>2
    <3>2. Front(q) # p
      BY <1>3, <2>2, <3>1 DEF Inside
    <3> QED BY <1>3, <3>1, <3>2
  <2> QED BY <1>3, <2>1, <2>2
<1>4. ASSUME NEW a \in Args, Mkd(a) PROVE DiskInv'
  <2> DEFINE p == FileName(wdir, "MKD", a)
  <2>1. /\ Len(p) > 1 /\ Front(p) \in dirs /\ p \notin dirs \cup files
        /\ dirs' = dirs \cup {p} /\ files' = files
    BY <1>4 DEF Mkd
  <2>2. p \in Seq(Proper) /\ p # <<>>
    <3>1. a \in Seq(Token)
      BY ArgTokens
    <3>2. Len(Nowhere) = 0 /\ Nowhere = <<>>
      BY DEF Nowhere
    <3>3. p = Nowhere \/ p \in Seq(Proper)
      BY <1>1, <3>1, FileNameTyped
    <3> HIDE DEF p
    <3>4. p # Nowhere
      BY <2>1, <3>2
    <3> QED BY <3>2, <3>3, <3>4
  <2> HIDE DEF p
  <2> QED BY <2>1, <2>2
<1>5. ASSUME NEW a \in Args, Stor(a) PROVE DiskInv'
  <2> DEFINE p == FileName(wdir, "STOR", a)
  <2>1. Len(p) > 1 /\ p \notin dirs /\ files' = files \cup {p} /\ dirs' = dirs
    BY <1>5 DEF Stor
  <2>2. p \in Seq(Proper) /\ p # <<>>
    <3>1. a \in Seq(Token)
      BY ArgTokens
    <3>2. Len(Nowhere) = 0 /\ Nowhere = <<>>
      BY DEF Nowhere
    <3>3. p = Nowhere \/ p \in Seq(Proper)
      BY <1>1, <3>1, FileNameTyped
    <3> HIDE DEF p
    <3>4. p # Nowhere
      BY <2>1, <3>2
    <3> QED BY <3>2, <3>3, <3>4
  <2> HIDE DEF p
  <2> QED BY <2>1, <2>2
<1>6. ASSUME NEW a \in Args, Dele(a) PROVE DiskInv'
  <2> DEFINE p == FileName(wdir, "DELE", a)
  <2>1. /\ p \in (dirs \ Kept) \cup files
        /\ p \in dirs => Inside(p) = {}
        /\ dirs' = dirs \ {p} /\ files' = files \ {p}
    BY <1>6 DEF Dele
  <2> HIDE DEF p
  <2> QED BY <1>3, <2>1
<1>7. ASSUME NEW p, Removed(p) PROVE DiskInv'
  BY <1>3, <1>7 DEF Removed
<1>8. ASSUME NEW a \in Args, Cwd(a) PROVE DiskInv'
  BY <1>2, <1>8 DEF Cwd
<1>9. CASE UNCHANGED vars
  BY <1>2, <1>9 DEF vars
<1> QED BY <1>4, <1>5, <1>6, <1>7, <1>8, <1>9 DEF Next

\* The inductive invariant of everything about paths.
LEMMA PathInvariant == Spec => []PathInv
<1>1. Init => PathInv
  <2> SUFFICES ASSUME Init PROVE PathInv
    OBVIOUS
  <2>1. IInv
    <3>1. ~Absolute(<<>>)
      BY DEF Absolute
    <3> QED BY <3>1, RootAbsolute, RootServed DEF Init, IInv, WdirServed, Dispatch
  <2>2. Named(wdir)
    <3>1. Len(Root) = 1 /\ Root \in Seq(Token) /\ ~(1 >= 2)
      BY RootAbsolute, Subsets DEF Root
    <3> QED BY <3>1, MountPoints DEF Init, Named
  <2>3. DiskInv
    <3>1. dirs = Dirs0 /\ files = {}
      BY DEF Init
    <3>2. ASSUME NEW p \in Dirs0, Len(p) > 1 PROVE Front(p) \in Dirs0
      <4>1. Len(p) # 1
        <5>1. Len(p) \in Nat
          BY PathsOfDisk
        <5>2. \A n \in Nat : n > 1 => n # 1
          OBVIOUS
        <5> QED BY <3>2, <5>1, <5>2
      <4> QED BY <4>1, DirsAssumption
    <3>3. Kept \subseteq Dirs0
      BY DirsAssumption
    <3> QED BY <3>1, <3>2, <3>3, PathsOfDisk DEF DiskInv
  <2> QED BY <2>1, <2>2, <2>3 DEF PathInv
<1>2. PathInv /\ [Next]_vars => PathInv'
  <2> SUFFICES ASSUME PathInv, [Next]_vars
               PROVE  PathInv'
    OBVIOUS
  <2>1. DiskInv'
    BY DiskNext DEF PathInv, IInv
  <2>2. ASSUME NEW a \in Args, Cwd(a) PROVE IInv' /\ Named(wdir)'
    <3>1. IInv'
      BY <2>2, CwdServed DEF PathInv
    <3>2. wdir \in Seq(Plain) /\ Absolute(wdir) /\ Named(wdir) /\ DiskInv /\ a \in Seq(Token)
      BY ArgTokens DEF PathInv, IInv, WdirServed
    <3>3. Accepts(wdir, a) /\ wdir' = NewPath(wdir, a)
      BY <2>2 DEF Cwd
    <3>4. Named(NewPath(wdir, a))
      <4>1. ASSUME IsPrefix(Mnt, NewPath(wdir, a)), NewPath(wdir, a) # Mnt
            PROVE  Named(NewPath(wdir, a))
        BY <3>2, <3>3, <4>1, MntEntered
      <4> QED BY <4>1 DEF Named
    <3>5. Named(wdir)' <=> Named(wdir')
      BY DEF Named
    <3> QED BY <3>1, <3>3, <3>4, <3>5
  <2>3. ASSUME UNCHANGED wdir PROVE IInv' /\ Named(wdir)'
    BY <2>3 DEF PathInv, IInv, WdirServed, Named
  <2>4. ASSUME NEW a \in Args, Mkd(a) \/ Stor(a) \/ Dele(a) PROVE UNCHANGED wdir
    BY <2>4 DEF Mkd, Stor, Dele
  <2>5. ASSUME NEW p \in dirs \cup files, Removed(p) PROVE UNCHANGED wdir
    BY <2>5 DEF Removed
  <2>6. UNCHANGED vars => UNCHANGED wdir
    BY DEF vars
  <2> QED BY <2>1, <2>2, <2>3, <2>4, <2>5, <2>6 DEF Next, PathInv
<1> QED BY <1>1, <1>2, PTL DEF Spec

\* A CWD or CDUP that is accepted leads where its argument says, for any
\* arguments, the cases of CutsElsewhere apart (vfs_changepath).
THEOREM ChangesMeant == Spec => []ChangeMeant
<1>1. PathInv => ChangeMeant
  <2> SUFFICES ASSUME PathInv, NEW a \in Args, Accepts(wdir, a), ~CutsElsewhere(wdir, FixSlashes(a))
               PROVE  Virtual(NewPath(wdir, a)) = Meant(wdir, a)
    BY DEF ChangeMeant
  <2>1. wdir \in Seq(Plain) /\ Absolute(wdir) /\ a \in Seq(Token)
    BY ArgTokens DEF PathInv, IInv, WdirServed
  <2> QED BY <2>1, NewPathMeant
<1> QED BY <1>1, PathInvariant, PTL

\* CWD into a directory of /mnt is accepted for what is there at that time and
\* for nothing else, whatever the disk is and whoever changes it (mod_cwd).
THEOREM EntersOnlyReal == Spec => []EntersReal
<1>1. PathInv => EntersReal
  <2> SUFFICES ASSUME PathInv, NEW a \in Args,
                      IsPrefix(Mnt, NewPath(wdir, a)), NewPath(wdir, a) # Mnt
               PROVE  /\ Accepts(wdir, a) => WinPath(Translate(NewPath(wdir, a))) \in dirs
                      /\ WinPath(Translate(NewPath(wdir, a))) \in dirs => Accepts(wdir, a) \/ a = Up
    BY DEF EntersReal
  <2>1. wdir \in Seq(Plain) /\ Absolute(wdir) /\ Named(wdir) /\ DiskInv /\ a \in Seq(Token)
    BY ArgTokens DEF PathInv, IInv, WdirServed
  <2> QED BY <2>1, MntEntered
<1> QED BY <1>1, PathInvariant, PTL

\* A file below /mnt is the same by its relative and its absolute name, for any
\* argument (mod_get_path).
THEOREM NamesAgree == Spec => []AbsoluteAgrees
<1>1. PathInv => AbsoluteAgrees
  <2> SUFFICES ASSUME PathInv, NEW a \in Args, NEW cmd \in {"RETR", "DELE"},
                      IsPrefix(Mnt, wdir), wdir # Mnt, a # <<>>, ~Absolute(a)
               PROVE  FileName(wdir, cmd, a) = FileName(wdir, cmd, wdir \o <<"/">> \o a)
    BY DEF AbsoluteAgrees
  <2> DEFINE whole == wdir \o <<"/">> \o a
  <2>1. /\ wdir \in Seq(Token) /\ Absolute(wdir) /\ a \in Seq(Token)
        /\ Len(wdir) >= 4 /\ <<wdir[4]>> \in Drives
    BY ArgTokens, Subsets DEF PathInv, IInv, WdirServed, Named
  <2>2. /\ whole \in Seq(Token) /\ whole[1] = wdir[1] /\ whole # <<>>
    <3>1. Len(wdir) \in Nat /\ Len(a) \in Nat
      BY <2>1
    <3>2. Len(wdir) >= 2 /\ 1 \in 1 .. Len(wdir) /\ Len(wdir) + 1 + Len(a) # 0
      BY <2>1, <3>1
    <3>3. whole \in Seq(Token) /\ whole[1] = wdir[1] /\ Len(whole) = Len(wdir) + 1 + Len(a)
      BY <2>1, <3>2, Joined
    <3>4. Len(<<>>) = 0
      OBVIOUS
    <3> HIDE DEF whole
    <3> QED BY <3>2, <3>3, <3>4
  <2>3. /\ WinPath(WinSlashes(Translate(wdir) \o <<"/">> \o a)) = WinPath(Translate(whole))
        /\ IsPrefix(Mnt, whole) /\ whole # Mnt
    BY <2>1, MntJoined
  <2> HIDE DEF whole
  <2>4. Absolute(whole)
    BY <2>1, <2>2 DEF Absolute
  <2>5. Dispatch(wdir, a) = "mnt" /\ Dispatch(wdir, whole) = "mnt"
    BY <2>1, <2>2, <2>3, <2>4, ModOf DEF Dispatch
  <2>6. a # Mnt
    <3>1. Absolute(Mnt)
      BY DEF Absolute, Mnt
    <3> QED BY <3>1
  <2>7. FileName(wdir, cmd, a) = WinPath(MntFile(wdir, a)) /\ FileName(wdir, cmd, whole) = WinPath(MntFile(wdir, whole))
    BY <2>3, <2>5, <2>6 DEF FileName, Serves
  <2>8. MntFile(wdir, a) = WinSlashes(Translate(wdir) \o <<"/">> \o a) /\ MntFile(wdir, whole) = WinSlashes(Translate(whole))
    BY <2>4 DEF MntFile
  <2>9. WinSlashes(Translate(whole)) = Translate(whole)
    BY <2>2, TranslateTyped
  <2> QED BY <2>3, <2>7, <2>8, <2>9 DEF whole
<1> QED BY <1>1, PathInvariant, PTL

-----------------------------------------------------------------------------
\* What LIST shows.

\* A proper name is a relative path, and no slash of it is changed or taken off.
LEMMA ProperRelative ==
  ASSUME NEW n \in Proper
  PROVE  /\ ~Absolute(n) /\ n # Mnt /\ n # <<>> /\ n \in Seq(Token) /\ n \in Seq(Plain) /\ n \in Between
         /\ FixSlashes(n) = n
         /\ \A p \in Seq(Token) : Last(p \o n) # "/"
<1>1. n \in Between /\ n # <<>> /\ n \in Seq(Token) /\ n \in Seq(Plain)
  BY Subsets DEF Proper
<1>2. n \in Seq(Token \ Slashes)
  BY <1>1 DEF Between
<1>3. n[1] \in Token \ Slashes
  <2>1. Len(n) \in Nat /\ Len(n) # 0
    BY <1>1, <1>2, EmptySeq
  <2>2. \A k \in Nat : k # 0 => 1 \in 1 .. k
    OBVIOUS
  <2> QED BY <1>2, <2>1, <2>2, ElementOfSeq
<1>4. n[1] # "/"
  BY <1>3 DEF Slashes
<1>5. Mnt[1] = "/"
  BY DEF Mnt
<1>6. ~Absolute(n) /\ n # Mnt
  BY <1>4, <1>5 DEF Absolute
<1>7. ASSUME NEW p \in Seq(Token) PROVE Last(p \o n) # "/"
  <2>1. PICK f \in Seq(Token \ Slashes), l \in Token \ Slashes : n = Append(f, l)
    BY <1>1, <1>2, SequenceEmptyOrAppend
  <2>2. f \in Seq(Token) /\ l \in Token
    <3>1. Token \ Slashes \subseteq Token
      OBVIOUS
    <3> QED BY <3>1, SeqMonotonic
  <2>3. p \o Append(f, l) = Append(p \o f, l) /\ p \o f \in Seq(Token)
    BY <2>2, Behind
  <2>4. \A s \in Seq(Token) : Last(Append(s, l)) = l
    BY <2>2, Ended
  <2>5. Last(Append(p \o f, l)) = l
    BY <2>3, <2>4, Zenon
  <2>6. l # "/"
    BY DEF Slashes
  <2> QED BY <2>1, <2>3, <2>5, <2>6
<1> QED BY <1>1, <1>6, <1>7, WinSlashesSame

\* CWD to a name goes below the working directory.
LEMMA GoesBelow ==
  ASSUME NEW wd \in Seq(Token), Len(wd) >= 2, NEW n \in Proper, ~IsPrefix(Up, n)
  PROVE  NewPath(wd, n) = wd \o <<"/">> \o n /\ Residue(wd, n) = <<>>
<1>1. ~Absolute(n) /\ FixSlashes(n) = n /\ n \in Seq(Token)
  BY ProperRelative
<1>2. wd # Root
  <2>1. Len(Root) = 1 /\ ~(1 >= 2)
    BY DEF Root
  <2> QED BY <2>1
<1>3. NewPath(wd, n) = StripSlash(wd \o <<"/">> \o n)
  BY <1>1, <1>2 DEF NewPath, GoesUp
<1>4. wd \o <<"/">> \in Seq(Token)
  BY Subsets
<1>5. Last((wd \o <<"/">>) \o n) # "/"
  BY <1>4, ProperRelative
<1>6. StripSlash(wd \o <<"/">> \o n) = wd \o <<"/">> \o n
  BY <1>5 DEF StripSlash
<1>7. n # Up
  <2>1. IsPrefix(Up, Up)
    BY DEF IsPrefix, Up
  <2> QED BY <2>1
<1> QED BY <1>3, <1>6, <1>7 DEF Residue

\* The directories of Windows, as paths below /mnt.
LEMMA OwnPath ==
  ASSUME NEW name \in Token
  PROVE  /\ Mnt \o <<"/", WinDrive, "/", name>> \in Seq(Token)
         /\ Len(Mnt \o <<"/", WinDrive, "/", name>>) = 6
         /\ (Mnt \o <<"/", WinDrive, "/", name>>)[1] = "/"
         /\ (Mnt \o <<"/", WinDrive, "/", name>>)[2] = "mnt"
         /\ (Mnt \o <<"/", WinDrive, "/", name>>)[4] = WinDrive
         /\ (Mnt \o <<"/", WinDrive, "/", name>>)[6] = name
<1> DEFINE y == <<"/", WinDrive, "/", name>>
           z == Mnt \o y
<1>1. Mnt \in Seq(Token) /\ Len(Mnt) = 2 /\ Mnt[1] = "/" /\ Mnt[2] = "mnt"
  BY DEF Mnt, Token
<1>2. y \in Seq(Token) /\ Len(y) = 4 /\ y[2] = WinDrive /\ y[4] = name
  BY DEF Token
<1> HIDE DEF y
<1>3. /\ z \in Seq(Token) /\ Len(z) = Len(Mnt) + Len(y)
      /\ \A i \in 1 .. Len(Mnt) + Len(y) : z[i] = IF i <= Len(Mnt) THEN Mnt[i] ELSE y[i - Len(Mnt)]
  BY <1>1, <1>2, ConcatProperties
<1> HIDE DEF z
<1>4. Len(z) = 6 /\ z[1] = Mnt[1] /\ z[2] = Mnt[2] /\ z[4] = y[2] /\ z[6] = y[4]
  BY <1>1, <1>2, <1>3
<1> QED BY <1>1, <1>2, <1>3, <1>4 DEF y, z

\* The directories below /mnt that stand for /home and /tmp.
LEMMA Rewritten ==
  ASSUME NEW wd \in Seq(Token)
  PROVE  /\ IsPrefix(Mnt, HomeDir(wd)) /\ Len(HomeDir(wd)) >= 4 /\ HomeDir(wd)[4] = WinDrive
         /\ IsPrefix(Mnt, TmpDir(wd)) /\ Len(TmpDir(wd)) >= 4 /\ TmpDir(wd)[4] = WinDrive
<1>1. ASSUME NEW name \in Token, NEW t \in Seq(Token)
      PROVE  LET w == Mnt \o <<"/", WinDrive, "/", name>> \o t
             IN w \in Seq(Token) /\ IsPrefix(Mnt, w) /\ Len(w) >= 4 /\ w[4] = WinDrive
  <2> DEFINE z == Mnt \o <<"/", WinDrive, "/", name>>
  <2>1. z \in Seq(Token) /\ Len(z) = 6 /\ z[1] = "/" /\ z[2] = "mnt" /\ z[4] = WinDrive
    BY OwnPath
  <2> HIDE DEF z
  <2>2. Len(t) \in Nat
    OBVIOUS
  <2> DEFINE w == z \o t
  <2>3. /\ w \in Seq(Token) /\ Len(w) = Len(z) + Len(t)
        /\ \A i \in 1 .. Len(z) + Len(t) : w[i] = IF i <= Len(z) THEN z[i] ELSE t[i - Len(z)]
    BY <2>1, ConcatProperties
  <2> HIDE DEF w
  <2>4. \A i \in 1 .. 6 : i \in 1 .. Len(z) + Len(t) /\ i <= Len(z)
    BY <2>1, <2>2
  <2>5. w[1] = "/" /\ w[2] = "mnt" /\ w[4] = WinDrive
    BY <2>1, <2>3, <2>4
  <2>6. Len(w) >= 4 /\ Len(w) >= 2
    BY <2>1, <2>2, <2>3
  <2>7. IsPrefix(Mnt, w)
    BY <2>3, <2>5, <2>6, MountPoints
  <2> QED BY <2>3, <2>5, <2>6, <2>7 DEF w, z
<1>2. Skip5(wd) \in Seq(Token) /\ "Users" \in Token /\ "Temp" \in Token
  BY Skipped DEF Token
<1>3. /\ HomeDir(wd) = Mnt \o <<"/", WinDrive, "/", "Users">> \o Skip5(wd)
      /\ TmpDir(wd) = Mnt \o <<"/", WinDrive, "/", "Temp">> \o Skip5(wd)
  BY DEF HomeDir, TmpDir, TempDir
<1> QED BY <1>1, <1>2, <1>3

\* The directory a module asks mod_mnt about, in one that is not a mount root.
LEMMA MntDirNamed ==
  ASSUME NEW wd \in Seq(Plain), Absolute(wd), Named(wd), wd \notin {Root, Mnt}, GetMod(wd) # "none"
  PROVE  /\ wd \in Seq(Token) /\ Len(wd) >= 2 /\ GetMod(wd) \in {"mnt", "home", "tmp"}
         /\ MntDir(GetMod(wd), wd) \in Seq(Token) /\ IsPrefix(Mnt, MntDir(GetMod(wd), wd))
         /\ Len(MntDir(GetMod(wd), wd)) >= 4 /\ <<MntDir(GetMod(wd), wd)[4]>> \in Drives
<1>1. wd \in Seq(Token)
  BY Subsets
<1>2. IsPrefix(Mnt, wd) \/ IsPrefix(Home, wd) \/ IsPrefix(Tmp, wd)
  BY <1>1, ModOf
<1>3. Len(wd) >= 2
  BY <1>1, <1>2, MountPoints
<1>4. CASE IsPrefix(Mnt, wd)
  <2>1. GetMod(wd) = "mnt" /\ MntDir("mnt", wd) = wd
    BY <1>1, <1>4, ModOf DEF MntDir
  <2> QED BY <1>1, <1>3, <1>4, <2>1 DEF Named
<1>5. CASE IsPrefix(Home, wd)
  <2>1. GetMod(wd) = "home" /\ MntDir("home", wd) = HomeDir(wd)
    BY <1>1, <1>5, ModOf DEF MntDir
  <2>2. HomeDir(wd) \in Seq(Token) /\ IsPrefix(Mnt, HomeDir(wd)) /\ Len(HomeDir(wd)) >= 4 /\ HomeDir(wd)[4] = WinDrive
    BY <1>1, DirsTyped, Rewritten
  <2> QED BY <1>1, <1>3, <2>1, <2>2, WindowsOwn
<1>6. CASE IsPrefix(Tmp, wd)
  <2>1. GetMod(wd) = "tmp" /\ MntDir("tmp", wd) = TmpDir(wd)
    BY <1>1, <1>6, ModOf DEF MntDir
  <2>2. TmpDir(wd) \in Seq(Token) /\ IsPrefix(Mnt, TmpDir(wd)) /\ Len(TmpDir(wd)) >= 4 /\ TmpDir(wd)[4] = WinDrive
    BY <1>1, DirsTyped, Rewritten
  <2> QED BY <1>1, <1>3, <2>1, <2>2, WindowsOwn
<1> QED BY <1>2, <1>4, <1>5, <1>6

\* What LIST shows below a mount root is there.
LEMMA ListedThere ==
  ASSUME DiskInv, NEW wd, wd \notin {Root, Mnt}, NEW n \in Listing(wd)
  PROVE  /\ n \in Proper /\ ListedDir(wd) \in Seq(Proper) /\ ListedDir(wd) # <<>>
         /\ Front(Append(ListedDir(wd), n)) = ListedDir(wd) /\ Len(Append(ListedDir(wd), n)) > 1
<1>1. PICK q \in dirs \cup files : Len(q) > 1 /\ Front(q) = ListedDir(wd) /\ n = Last(q)
  BY DEF Listing, Inside
<1>2. q \in Seq(Proper) /\ q # <<>>
  BY DEF DiskInv
<1>3. Front(q) \in Seq(Proper) /\ n \in Proper /\ q = Append(Front(q), n)
  BY <1>1, <1>2, Ends
<1>4. Front(q) # <<>>
  <2>1. ASSUME Front(q) = <<>> PROVE FALSE
    <3>1. q = <<n>>
      BY <1>3, <2>1
    <3>2. Len(<<n>>) = 1 /\ ~(1 > 1)
      OBVIOUS
    <3> QED BY <1>1, <3>1, <3>2
  <2> QED BY <2>1
<1> QED BY <1>1, <1>3, <1>4

\* A name of a file or a directory leads below the directory LIST shows.
LEMMA BelowListed ==
  ASSUME NEW w \in Seq(Token), IsPrefix(Mnt, w), Len(w) >= 4, <<w[4]>> \in Drives, NEW n \in Proper,
         WinPath(Translate(w)) # <<>>
  PROVE  /\ WinPath(MntFile(w, n)) = Append(WinPath(Translate(w)), n)
         /\ WinPath(Translate(w \o <<"/">> \o n)) = Append(WinPath(Translate(w)), n)
<1> DEFINE L == WinPath(Translate(w))
<1>1. n \in Seq(Token) /\ ~Absolute(n) /\ n \in Between
  BY ProperRelative
<1>2. L \in Seq(Proper) /\ Len(L) >= 1
  <2>1. Translate(w) \in Seq(Token)
    BY TranslateTyped
  <2> QED BY <2>1, WinPathTyped DEF Nowhere
<1>3. /\ WinPath(WinSlashes(Translate(w) \o <<"/">> \o n)) = Walk(L, Names(n), 1)
      /\ WinPath(Translate(w \o <<"/">> \o n)) = Walk(L, Names(n), 1)
  BY <1>1, MntJoined
<1> HIDE DEF L
<1>4. Walk(L, Names(n), 1) = Append(L, n)
  <2>1. Walk(L, Names(n), 1) = Enter(L, n, 1)
    BY <1>1, WalkName
  <2>2. Enter(L, n, 1) = Append(L, n)
    BY <1>2, EnterProper
  <2> QED BY <2>1, <2>2
<1>5. MntFile(w, n) = WinSlashes(Translate(w) \o <<"/">> \o n)
  BY <1>1 DEF MntFile
<1> QED BY <1>3, <1>4, <1>5 DEF L

\* Two elements, one behind the other.
LEMMA Pair ==
  ASSUME NEW A, NEW x \in A, NEW y \in A
  PROVE  Append(<<x>>, y) = <<x, y>> /\ <<x>> \o <<y>> = <<x, y>>
<1>1. <<x>> \in Seq(A) /\ Len(<<x>>) = 1 /\ <<x>>[1] = x
  OBVIOUS
<1> DEFINE s == <<x>>
           t == <<x, y>>
<1>2. t \in Seq(A) /\ Len(t) = 2 /\ t[1] = x /\ t[2] = y
  OBVIOUS
<1> HIDE DEF s, t
<1>3. s \in Seq(A) /\ Len(s) = 1 /\ s[1] = x
  BY <1>1 DEF s
<1> DEFINE u == Append(s, y)
<1>4. /\ u \in Seq(A) /\ Len(u) = Len(s) + 1
      /\ \A i \in 1 .. Len(s) : u[i] = s[i]
      /\ u[Len(s) + 1] = y
  <2>1. \A w \in Seq(A) : /\ Append(w, y) \in Seq(A) /\ Len(Append(w, y)) = Len(w) + 1
                          /\ \A i \in 1 .. Len(w) : Append(w, y)[i] = w[i]
                          /\ Append(w, y)[Len(w) + 1] = y
    BY AppendProperties
  <2> QED BY <1>3, <2>1
<1>5. u = s \o <<y>>
  BY <1>3, AppendIsConcat
<1> HIDE DEF u
<1>6. Len(u) = 2 /\ u[1] = x /\ u[2] = y
  BY <1>3, <1>4
<1>7. \A i \in 1 .. 2 : u[i] = t[i]
  BY <1>2, <1>6
<1>8. u = t
  BY <1>2, <1>4, <1>6, <1>7, SeqEqual
<1> QED BY <1>5, <1>8 DEF s, t, u

\* Windows' own directories are there by the paths /home and /tmp give them.
LEMMA OwnThere ==
  ASSUME DiskInv, NEW name \in Token, << <<WinDrive>>, <<name>> >> \in Kept
  PROVE  WinPath(Translate(Mnt \o <<"/", WinDrive, "/", name>>)) \in dirs
<1> DEFINE w == Mnt \o <<"/", WinDrive, "/", name>>
           c == <<WinDrive>>
           n == <<name>>
<1>1. w \in Seq(Token) /\ Len(w) = 6 /\ w[1] = "/" /\ w[2] = "mnt" /\ w[4] = WinDrive /\ w[6] = name
  BY OwnPath
<1> HIDE DEF w
<1>2. IsPrefix(Mnt, w) /\ Len(w) >= 4 /\ <<w[4]>> \in Drives
  <2>1. Len(w) >= 2 /\ Len(w) >= 4
    BY ONLY <1>1
  <2> QED BY <1>1, <2>1, MountPoints, WindowsOwn
<1>3. SubSeq(w, 6, Len(w)) = <<name>>
  <2>1. /\ SubSeq(w, 6, 6) \in Seq(Token) /\ Len(SubSeq(w, 6, 6)) = 1
        /\ SubSeq(w, 6, 6)[1] = w[6]
    <3>1. \A i \in 6 .. 6 : w[i] \in Token
      BY <1>1
    <3> QED BY <3>1, SubSeqProperties
  <2>2. \A x \in Seq(Token) : Len(x) = 1 => x = <<x[1]>>
    OBVIOUS
  <2> QED BY <1>1, <2>1, <2>2
<1>4. WinPath(Translate(w)) = Walk(<<c>>, Names(n), 1)
  BY <1>1, <1>2, <1>3, MntPath
<1>5. c \in Proper /\ n \in Proper
  <2>1. <<c, n>> \in Seq(Proper)
    BY DirsAssumption, PathsOfDisk
  <2>2. Len(<<c, n>>) = 2 /\ <<c, n>>[1] = c /\ <<c, n>>[2] = n
    OBVIOUS
  <2> HIDE DEF c, n
  <2> QED BY <2>1
<1>6. << c, n >> \in dirs
  BY DEF DiskInv
<1> HIDE DEF c, n
<1>7. Walk(<<c>>, Names(n), 1) = <<c, n>>
  <2>1. n \in Between
    BY <1>5 DEF Proper
  <2>2. Walk(<<c>>, Names(n), 1) = Enter(<<c>>, n, 1)
    BY <2>1, WalkName
  <2>3. <<c>> \in Seq(Proper) /\ Len(<<c>>) >= 1
    BY <1>5
  <2>4. Enter(<<c>>, n, 1) = Append(<<c>>, n)
    BY <1>5, <2>3, EnterProper
  <2>5. Append(<<c>>, n) = <<c, n>>
    BY <1>5, Pair
  <2> QED BY <2>2, <2>4, <2>5
<1> QED BY <1>4, <1>6, <1>7 DEF w

\* What LIST shows in the root can be entered.
LEMMA RootEntered ==
  ASSUME DiskInv, NEW n \in RootListing
  PROVE  Accepts(Root, n)
<1>1. PICK m \in {"mnt", "tmp", "home"} : n = <<m>>
  BY DEF RootListing
<1>2. n \in Between /\ m # "/"
  <2>1. m \in Token \ Slashes
    BY DEF Token, Slashes
  <2> QED BY <1>1, <2>1 DEF Between, Slashes
<1>3. FixSlashes(n) = n
  BY <1>2, WinSlashesSame
<1>4. n[1] = m /\ ~Absolute(n)
  BY <1>1, <1>2 DEF Absolute
<1>5. NewPath(Root, n) = <<"/", m>>
  <2>1. NewPath(Root, n) = StripSlash(Root \o <<>> \o n)
    BY <1>3, <1>4 DEF NewPath, GoesUp
  <2>2. Root \o <<>> \o n = <<"/", m>>
    <3>1. Root \o <<>> = Root
      BY RootAbsolute
    <3>2. <<"/">> \o <<m>> = <<"/", m>>
      <4>1. "/" \in Token /\ m \in Token
        BY DEF Token
      <4> QED BY <4>1, Pair
    <3> QED BY <1>1, <3>1, <3>2 DEF Root
  <2>3. Last(<<"/", m>>) = m
    BY DEF Last
  <2> QED BY <1>2, <2>1, <2>2, <2>3 DEF StripSlash
<1> DEFINE path == <<"/", m>>
<1>6. path \in Seq(Token) /\ Absolute(path) /\ Len(path) = 2 /\ path[1] = "/" /\ path[2] = m
  BY DEF Token, Absolute
<1>7. Root \in Seq(Token) /\ Skip5(Root) = <<>>
  <2>1. Root \in Seq(Token) /\ Len(Root) = 1
    BY RootAbsolute, Subsets DEF Root
  <2>2. ~IsPrefix(Home, Root)
    <3>1. ~(1 >= 2)
      OBVIOUS
    <3> QED BY <2>1, <3>1, MountPoints
  <2>3. SubSeq(Root, 4, Len(Root)) = <<>>
    BY <2>1, SubSeqEmpty
  <2> QED BY <2>1, <2>2, <2>3 DEF Skip5
<1>8. /\ HomeDir(Root) = Mnt \o <<"/", WinDrive, "/", "Users">>
      /\ TmpDir(Root) = Mnt \o <<"/", WinDrive, "/", "Temp">>
  <2>1. \A p \in Seq(Token) : p \o <<>> = p
    OBVIOUS
  <2>2. "Users" \in Token /\ "Temp" \in Token
    BY DEF Token
  <2>3. /\ Mnt \o <<"/", WinDrive, "/", "Users">> \in Seq(Token)
        /\ Mnt \o <<"/", WinDrive, "/", "Temp">> \in Seq(Token)
    BY <2>2, OwnPath
  <2> QED BY <1>7, <2>1, <2>3 DEF HomeDir, TmpDir, TempDir
<1>9. WinPath(Translate(HomeDir(Root))) \in dirs /\ WinPath(Translate(TmpDir(Root))) \in dirs
  <2>1. "Users" \in Token /\ "Temp" \in Token
    BY DEF Token
  <2> QED BY <1>8, <2>1, OwnThere, WindowsOwn
<1>10. /\ Translate(HomeDir(Root)) \o <<>> = Translate(HomeDir(Root))
       /\ Translate(TmpDir(Root)) \o <<>> = Translate(TmpDir(Root))
  <2>1. Translate(HomeDir(Root)) \in Seq(Token) /\ Translate(TmpDir(Root)) \in Seq(Token)
    BY <1>7, DirsTyped, TranslateTyped
  <2>2. \A p \in Seq(Token) : p \o <<>> = p
    OBVIOUS
  <2> QED BY <2>1, <2>2
<1>11. HomeAccepts(Root) /\ TmpAccepts(Root)
  BY <1>9, <1>10 DEF HomeAccepts, TmpAccepts, MntAccepts
<1>12. Dispatch(Root, path) = m
  <2>1. IsPrefix(<<"/", m>>, path)
    BY DEF IsPrefix
  <2>2. path = <<"/", m>> /\ Dispatch(Root, path) = GetMod(path)
    BY <1>6 DEF Dispatch
  <2> QED BY <1>6, <2>1, <2>2, ModOf DEF Mnt, Home, Tmp
<1>13. m = "mnt" => path = Mnt
  BY DEF Mnt
<1> HIDE DEF path
<1>14. NewPath(Root, n) = path
  BY <1>5 DEF path
<1> QED BY <1>11, <1>12, <1>13, <1>14 DEF Accepts, MntAccepts

\* So can the drives, which are what it shows in /mnt.
LEMMA DrivesEntered ==
  ASSUME DiskInv, NEW n \in {<<Last(d)>> : d \in Drives}
  PROVE  Accepts(Mnt, n)
<1>1. PICK d \in Drives : n = <<Last(d)>>
  OBVIOUS
<1>2. n \in Drives /\ n \in Proper /\ Len(n) = 1
  <2>1. d \in Proper /\ Len(d) = 1
    BY DriveKept
  <2>2. d \in Seq(Token)
    BY <2>1, Subsets
  <2>3. d = <<Last(d)>>
    BY <2>1, <2>2 DEF Last
  <2> QED BY <1>1, <2>1, <2>3
<1>3. ~IsPrefix(Up, n)
  BY <1>2 DEF IsPrefix, Up
<1>4. Mnt \in Seq(Plain) /\ Mnt \in Seq(Token) /\ Len(Mnt) = 2 /\ Absolute(Mnt) /\ Mnt[1] = "/" /\ Mnt[2] = "mnt"
  BY DEF Mnt, Token, Plain, Absolute
<1> DEFINE path == NewPath(Mnt, n)
<1>5. path = Mnt \o <<"/">> \o n
  <2>1. Len(Mnt) >= 2
    BY <1>4
  <2> QED BY <1>2, <1>3, <1>4, <2>1, GoesBelow
<1>6. path \in Seq(Token) /\ Len(path) = 4 /\ path[1] = "/" /\ path[2] = "mnt" /\ path[4] = n[1]
  <2> DEFINE s == Mnt \o <<"/">>
  <2>1. <<"/">> \in Seq(Token) /\ Len(<<"/">>) = 1
    BY DEF Token
  <2> DEFINE y == <<"/">>
  <2> HIDE DEF y
  <2>2. s \in Seq(Token) /\ Len(s) = 3 /\ s[1] = "/" /\ s[2] = "mnt"
    <3>1. y \in Seq(Token) /\ Len(y) = 1
      BY <2>1 DEF y
    <3> DEFINE z == Mnt \o y
    <3>2. /\ z \in Seq(Token) /\ Len(z) = Len(Mnt) + Len(y)
          /\ \A i \in 1 .. Len(Mnt) + Len(y) : z[i] = IF i <= Len(Mnt) THEN Mnt[i] ELSE y[i - Len(Mnt)]
      BY <1>4, <3>1, ConcatProperties
    <3> HIDE DEF z
    <3>3. Len(z) = 3 /\ z[1] = Mnt[1] /\ z[2] = Mnt[2]
      BY <1>4, <3>1, <3>2
    <3>4. s = z
      BY DEF z, y
    <3> HIDE DEF s
    <3> QED BY <1>4, <3>2, <3>3, <3>4
  <2>3. n \in Seq(Token)
    BY <1>2, Subsets
  <2> HIDE DEF s
  <2> DEFINE t == s \o n
  <2>4. /\ t \in Seq(Token) /\ Len(t) = Len(s) + Len(n)
        /\ \A i \in 1 .. Len(s) + Len(n) : t[i] = IF i <= Len(s) THEN s[i] ELSE n[i - Len(s)]
    BY <2>2, <2>3, ConcatProperties
  <2> HIDE DEF t
  <2>5. Len(t) = 4 /\ t[1] = s[1] /\ t[2] = s[2] /\ t[4] = n[1]
    BY <1>2, <2>2, <2>4
  <2>6. path = t
    BY <1>5 DEF t, s
  <2> HIDE DEF path
  <2> QED BY <2>2, <2>4, <2>5, <2>6
<1> HIDE DEF path
<1>7. n = <<n[1]>> /\ n \in Seq(Token)
  <2>1. n \in Seq(Token)
    BY <1>2, Subsets
  <2> QED BY <1>2, <2>1
<1>8. Len(path) >= 4 /\ Len(path) < 6 /\ Len(path) >= 2 /\ Len(path) # 2
  BY ONLY <1>6
<1>9. IsPrefix(Mnt, path) /\ path # Mnt /\ <<path[4]>> \in Drives
  BY <1>2, <1>4, <1>6, <1>7, <1>8, MountPoints
<1>10. WinPath(Translate(path)) \in dirs
  BY <1>6, <1>8, <1>9, DriveThere
<1>11. Named(Mnt) /\ n # Up
  <2>1. Len(Up) = 2
    BY DEF Up
  <2> QED BY <1>2, <2>1 DEF Named
<1> QED BY <1>4, <1>7, <1>9, <1>10, <1>11, MntEntered DEF path

\* The state of a session whose working directory is not a mount root, and what
\* a name LIST shows there leads to.
LEMMA ListedState ==
  ASSUME PathInv, wdir \notin {Root, Mnt}, NEW n \in Listing(wdir)
  PROVE  LET w == MntDir(GetMod(wdir), wdir) IN
         /\ GetMod(wdir) # "none" /\ Dispatch(wdir, <<>>) = GetMod(wdir)
         /\ ListedDir(wdir) = WinPath(Translate(w))
         /\ WinPath(MntFile(w, n)) = Append(ListedDir(wdir), n)
         /\ WinPath(Translate(w \o <<"/">> \o n)) = Append(ListedDir(wdir), n)
<1> DEFINE w == MntDir(GetMod(wdir), wdir)
<1>1. wdir \in Seq(Plain) /\ Absolute(wdir) /\ Named(wdir) /\ DiskInv
  BY DEF PathInv, IInv, WdirServed
<1>2. GetMod(wdir) # "none" /\ Dispatch(wdir, <<>>) = GetMod(wdir)
  BY DEF PathInv, IInv, WdirServed, Dispatch, Absolute
<1>3. w \in Seq(Token) /\ IsPrefix(Mnt, w) /\ Len(w) >= 4 /\ <<w[4]>> \in Drives
  BY <1>1, <1>2, MntDirNamed
<1>4. n \in Proper /\ ListedDir(wdir) # <<>>
  BY <1>1, ListedThere
<1>5. ListedDir(wdir) = WinPath(Translate(w))
  BY DEF ListedDir, ListModule
<1> HIDE DEF w
<1>6. /\ WinPath(MntFile(w, n)) = Append(WinPath(Translate(w)), n)
      /\ WinPath(Translate(w \o <<"/">> \o n)) = Append(WinPath(Translate(w)), n)
  BY <1>3, <1>4, <1>5, BelowListed
<1> QED BY <1>2, <1>5, <1>6 DEF w

\* Every command finds a file or a directory by the name LIST shows.
LEMMA ListedFound ==
  ASSUME PathInv, wdir \notin {Root, Mnt}, NEW n \in Listing(wdir), NEW cmd \in {"RETR", "DELE"}
  PROVE  FileName(wdir, cmd, n) = Append(ListedDir(wdir), n)
<1> DEFINE mod == GetMod(wdir)
           w == MntDir(mod, wdir)
<1>1. mod # "none" /\ WinPath(MntFile(w, n)) = Append(ListedDir(wdir), n)
  BY ListedState
<1>2. wdir \in Seq(Plain) /\ Absolute(wdir) /\ Named(wdir) /\ DiskInv
  BY DEF PathInv, IInv, WdirServed
<1>3. mod \in {"mnt", "home", "tmp"}
  BY <1>1, <1>2, MntDirNamed
<1>4. ~Absolute(n) /\ n # Mnt
  BY <1>2, ListedThere, ProperRelative
<1>5. Dispatch(wdir, n) = mod
  BY <1>4 DEF Dispatch
<1>6. Serves(mod, cmd)
  BY <1>3 DEF Serves
<1>7. /\ mod = "mnt" => w = wdir
      /\ mod = "home" => MntFile(w, n) = HomeFile(wdir, n)
      /\ mod = "tmp" => MntFile(w, n) = TmpFile(wdir, n)
  BY DEF MntDir, HomeFile, TmpFile
<1> HIDE DEF mod, w
<1> QED BY <1>1, <1>3, <1>4, <1>5, <1>6, <1>7 DEF FileName

\* The path of a directory LIST shows, and the module that is asked about it.
LEMMA ListedPath ==
  ASSUME PathInv, wdir \notin {Root, Mnt}, NEW n \in Listing(wdir), ~IsPrefix(Up, n)
  PROVE  LET path == wdir \o <<"/">> \o n IN
         /\ NewPath(wdir, n) = path /\ path \in Seq(Token) /\ Absolute(path)
         /\ GetMod(path) = GetMod(wdir) /\ Dispatch(wdir, path) = GetMod(wdir)
         /\ wdir \in Seq(Token) /\ Len(wdir) >= 2 /\ n \in Seq(Token)
<1> DEFINE path == wdir \o <<"/">> \o n
<1>1. wdir \in Seq(Plain) /\ Absolute(wdir) /\ Named(wdir) /\ DiskInv
  BY DEF PathInv, IInv, WdirServed
<1>2. GetMod(wdir) # "none"
  BY ListedState
<1>3. wdir \in Seq(Token) /\ Len(wdir) >= 2
  BY <1>1, <1>2, MntDirNamed
<1>4. n \in Proper /\ n \in Seq(Token)
  BY <1>1, ListedThere, ProperRelative
<1>5. NewPath(wdir, n) = path
  BY <1>3, <1>4, GoesBelow
<1>6. /\ path \in Seq(Token) /\ Len(path) = Len(wdir) + 1 + Len(n)
      /\ \A i \in 1 .. Len(wdir) : path[i] = wdir[i]
      /\ Len(wdir) \in Nat /\ Len(n) \in Nat
  BY <1>3, <1>4, Joined
<1> HIDE DEF path
<1>7. Len(path) >= 2 /\ path[1] = wdir[1] /\ path[2] = wdir[2]
  <2>1. \A k, m \in Nat : k >= 2 => k + 1 + m >= 2 /\ 1 \in 1 .. k /\ 2 \in 1 .. k
    OBVIOUS
  <2> QED BY <1>3, <1>6, <2>1
<1>8. IsPrefix(Mnt, wdir) \/ IsPrefix(Home, wdir) \/ IsPrefix(Tmp, wdir)
  BY <1>2, <1>3, ModOf
<1>9. /\ IsPrefix(Mnt, wdir) => IsPrefix(Mnt, path)
      /\ IsPrefix(Home, wdir) => IsPrefix(Home, path)
      /\ IsPrefix(Tmp, wdir) => IsPrefix(Tmp, path)
  BY <1>3, <1>6, <1>7, MountPoints
<1>10. GetMod(path) = GetMod(wdir)
  BY <1>3, <1>6, <1>8, <1>9, ModOf
<1>11. Absolute(path)
  <2>1. path[1] = "/"
    BY <1>1, <1>7 DEF Absolute
  <2>2. path # <<>>
    <3>1. Len(<<>>) = 0 /\ ~(0 >= 2)
      OBVIOUS
    <3> QED BY <1>7, <3>1
  <2> QED BY <2>1, <2>2 DEF Absolute
<1>12. Dispatch(wdir, path) = GetMod(wdir)
  BY <1>10, <1>11 DEF Dispatch
<1> QED BY <1>3, <1>4, <1>5, <1>6, <1>10, <1>11, <1>12 DEF path

\* CWD accepts a directory LIST shows.
LEMMA ListedAccepted ==
  ASSUME PathInv, wdir \notin {Root, Mnt}, NEW n \in Listing(wdir), ~IsPrefix(Up, n),
         Append(ListedDir(wdir), n) \in dirs
  PROVE  Accepts(wdir, n)
<1> DEFINE path == wdir \o <<"/">> \o n
           mod == GetMod(wdir)
<1>1. wdir \in Seq(Plain) /\ Absolute(wdir) /\ Named(wdir) /\ DiskInv
  BY DEF PathInv, IInv, WdirServed
<1>2. /\ NewPath(wdir, n) = path /\ path \in Seq(Token) /\ GetMod(path) = mod
      /\ Dispatch(wdir, path) = mod /\ wdir \in Seq(Token) /\ n \in Seq(Token)
  BY ListedPath
<1>3. /\ mod # "none" /\ ListedDir(wdir) = WinPath(Translate(MntDir(mod, wdir)))
      /\ WinPath(Translate(MntDir(mod, wdir) \o <<"/">> \o n)) = Append(ListedDir(wdir), n)
  BY ListedState
<1>4. mod \in {"mnt", "home", "tmp"}
  BY <1>1, <1>3, MntDirNamed
<1>5. ListedDir(wdir) \in dirs
  <2>1. /\ Front(Append(ListedDir(wdir), n)) = ListedDir(wdir)
        /\ Len(Append(ListedDir(wdir), n)) > 1
    BY <1>1, ListedThere
  <2> QED BY <1>1, <2>1 DEF DiskInv
<1>6. \A d \in Seq(Token) : Translate(d) \o <<>> = Translate(d)
  <2>1. \A s \in Seq(Token) : s \o <<>> = s
    OBVIOUS
  <2> QED BY <2>1, TranslateTyped
<1>7. HomeDir(wdir) \in Seq(Token) /\ TmpDir(wdir) \in Seq(Token)
  BY <1>2, DirsTyped
<1>8. ASSUME mod = "mnt" PROVE Accepts(wdir, n)
  <2>1. IsPrefix(Mnt, wdir)
    <3>1. IsPrefix(Mnt, wdir) \/ IsPrefix(Home, wdir) \/ IsPrefix(Tmp, wdir)
      BY <1>2, <1>3, ModOf
    <3>2. /\ IsPrefix(Home, wdir) => GetMod(wdir) = "home"
          /\ IsPrefix(Tmp, wdir) => GetMod(wdir) = "tmp"
      BY <1>2, ModOf
    <3> QED BY <1>8, <3>1, <3>2
  <2>2. Len(wdir) >= 4 /\ <<wdir[4]>> \in Drives
    BY <1>1, <2>1 DEF Named
  <2>3. IsPrefix(Mnt, path) /\ path # Mnt
    BY <1>2, <2>1, <2>2, MntJoined
  <2>4. MntDir(mod, wdir) = wdir
    BY <1>8 DEF MntDir
  <2>5. WinPath(Translate(path)) \in dirs
    BY <1>3, <2>4
  <2>6. n # Up
    <3>1. IsPrefix(Up, Up)
      BY DEF IsPrefix, Up
    <3> QED BY <3>1
  <2> HIDE DEF path
  <2> QED BY <1>1, <1>2, <2>3, <2>5, <2>6, MntEntered
<1>9. ASSUME mod = "home" PROVE HomeAccepts(wdir)
  <2>1. MntDir(mod, wdir) = HomeDir(wdir)
    BY <1>9 DEF MntDir
  <2> QED BY <1>3, <1>5, <1>6, <1>7, <2>1 DEF HomeAccepts, MntAccepts
<1>10. ASSUME mod = "tmp" PROVE TmpAccepts(wdir)
  <2>1. MntDir(mod, wdir) = TmpDir(wdir)
    BY <1>10 DEF MntDir
  <2> QED BY <1>3, <1>5, <1>6, <1>7, <2>1 DEF TmpAccepts, MntAccepts
<1> HIDE DEF path, mod
<1> QED BY <1>2, <1>4, <1>8, <1>9, <1>10 DEF Accepts

\* What LIST shows in a directory, the file commands open and CWD accepts under
\* that name, whatever module serves the directory.
THEOREM ListedNamesOpen == Spec => []ListedOpens
<1>1. ASSUME PathInv PROVE ListedOpens
  <2> SUFFICES ASSUME NEW n \in Listing(wdir)
               PROVE  LET p == Append(ListedDir(wdir), n) IN
                      /\ wdir \notin {Root, Mnt} => FileName(wdir, "RETR", n) = p /\ FileName(wdir, "DELE", n) = p
                      /\ wdir \in {Root, Mnt} \/ p \in dirs => Accepts(wdir, n) \/ IsPrefix(Up, n)
    BY DEF ListedOpens
  <2>1. DiskInv
    BY <1>1 DEF PathInv
  <2>2. ASSUME wdir = Root PROVE Accepts(wdir, n)
    <3>1. n \in RootListing
      BY <2>2 DEF Listing
    <3> QED BY <2>1, <2>2, <3>1, RootEntered
  <2>3. ASSUME wdir = Mnt PROVE Accepts(wdir, n)
    <3>1. Mnt # Root
      <4>1. Len(Mnt) = 2 /\ Len(Root) = 1
        BY DEF Mnt, Root
      <4> QED BY <4>1
    <3>2. n \in {<<Last(d)>> : d \in Drives}
      BY <2>3, <3>1 DEF Listing
    <3> QED BY <2>1, <2>3, <3>2, DrivesEntered
  <2>4. ASSUME wdir \notin {Root, Mnt}
        PROVE  \A cmd \in {"RETR", "DELE"} : FileName(wdir, cmd, n) = Append(ListedDir(wdir), n)
    BY <1>1, <2>4, ListedFound
  <2>5. ASSUME wdir \notin {Root, Mnt}, Append(ListedDir(wdir), n) \in dirs, ~IsPrefix(Up, n)
        PROVE  Accepts(wdir, n)
    BY <1>1, <2>5, ListedAccepted
  <2> QED BY <2>2, <2>3, <2>4, <2>5
<1> QED BY <1>1, PathInvariant, PTL

\* Below /home, the directory that stands for a longer path is the longer path
\* below the directory that stands for it: "/home" is two tokens, as the path to
\* its replacement takes for granted.
LEMMA HomeJoined ==
  ASSUME NEW wd \in Seq(Token), IsPrefix(Home, wd), NEW n \in Seq(Token)
  PROVE  HomeDir(wd \o <<"/">> \o n) = HomeDir(wd) \o <<"/">> \o n
<1> DEFINE path == wd \o <<"/">> \o n
           base == Mnt \o <<"/", WinDrive, "/", "Users">>
           s == SubSeq(wd, 3, Len(wd))
<1>1. Len(wd) >= 2 /\ wd[1] = "/" /\ wd[2] = "home"
  BY MountPoints
<1>2. /\ path \in Seq(Token) /\ Len(path) = Len(wd) + 1 + Len(n)
      /\ \A i \in 1 .. Len(wd) : path[i] = wd[i]
      /\ Len(wd) \in Nat /\ Len(n) \in Nat
      /\ \A k \in 1 .. Len(wd) + 1 :
           SubSeq(path, k, Len(path)) = Append(SubSeq(wd, k, Len(wd)), "/") \o n /\ SubSeq(wd, k, Len(wd)) \in Seq(Token)
  BY <1>1, Joined
<1>3. base \in Seq(Token)
  <2>1. "Users" \in Token
    BY DEF Token
  <2> QED BY <2>1, OwnPath
<1>4. HomeDir(wd) = base \o s
  BY Skipped DEF HomeDir
<1> HIDE DEF path
<1>5. Len(path) >= 2 /\ path[1] = wd[1] /\ path[2] = wd[2] /\ 3 \in 1 .. Len(wd) + 1
  <2>1. \A k, m \in Nat : k >= 2 => /\ k + 1 + m >= 2 /\ 1 \in 1 .. k
                                   /\ 2 \in 1 .. k /\ 3 \in 1 .. k + 1
    OBVIOUS
  <2> QED BY <1>1, <1>2, <2>1
<1>6. IsPrefix(Home, path)
  BY <1>1, <1>2, <1>5, MountPoints
<1>7. HomeDir(path) = base \o SubSeq(path, 3, Len(path))
  BY <1>2, <1>6, Skipped DEF HomeDir
<1>8. SubSeq(path, 3, Len(path)) = Append(s, "/") \o n /\ s \in Seq(Token)
  BY <1>2, <1>5
<1> HIDE DEF base, s
<1>9. "/" \in Token
  BY Subsets
<1>10. /\ base \o s \in Seq(Token) /\ Append(s, "/") \in Seq(Token)
       /\ base \o Append(s, "/") = Append(base \o s, "/")
       /\ Append(base \o s, "/") = (base \o s) \o <<"/">>
  <2>1. base \o s \in Seq(Token) /\ Append(s, "/") \in Seq(Token)
    BY <1>3, <1>8, <1>9, Behind
  <2>2. base \o Append(s, "/") = Append(base \o s, "/")
    BY <1>3, <1>8, <1>9, Behind
  <2>3. \A p \in Seq(Token) : Append(p, "/") = p \o <<"/">>
    BY <1>9, Behind
  <2> QED BY <2>1, <2>2, <2>3
<1>11. base \o (Append(s, "/") \o n) = (base \o Append(s, "/")) \o n
  BY <1>3, <1>10, Associates, Zenon
<1>12. HomeDir(path) = (base \o s) \o <<"/">> \o n
  BY <1>7, <1>8, <1>10, <1>11
<1> QED BY <1>4, <1>12 DEF path

\* CWD to a directory LIST shows, below a drive and in the home directories, is
\* followed by a LIST of that directory.
THEOREM ListedDirectoriesEntered == Spec => []ListedEntered
<1>1. ASSUME PathInv, Dispatch(wdir, <<>>) \in {"mnt", "home"}, wdir # Mnt,
             NEW n \in Listing(wdir), ~IsPrefix(Up, n)
      PROVE  ListedDir(NewPath(wdir, n)) = Append(ListedDir(wdir), n)
  <2> DEFINE path == wdir \o <<"/">> \o n
             mod == GetMod(wdir)
  <2>1. mod \in {"mnt", "home"}
    BY <1>1 DEF Dispatch, Absolute
  <2>2. wdir \in Seq(Token)
    BY <1>1, Subsets DEF PathInv, IInv
  <2>3. wdir # Root
    BY <2>1, <2>2, ModOf
  <2>4. NewPath(wdir, n) = path /\ GetMod(path) = mod /\ n \in Seq(Token)
    BY <1>1, <2>3, ListedPath
  <2>5. WinPath(Translate(MntDir(mod, wdir) \o <<"/">> \o n)) = Append(ListedDir(wdir), n)
    BY <1>1, <2>3, ListedState
  <2>6. MntDir(mod, path) = MntDir(mod, wdir) \o <<"/">> \o n
    <3>1. ASSUME mod = "mnt" PROVE MntDir(mod, path) = path /\ MntDir(mod, wdir) = wdir
      BY <3>1 DEF MntDir
    <3>2. ASSUME mod = "home"
          PROVE  MntDir(mod, path) = HomeDir(path) /\ MntDir(mod, wdir) = HomeDir(wdir)
      BY <3>2 DEF MntDir
    <3>3. ASSUME mod = "home" PROVE IsPrefix(Home, wdir)
      <4>1. /\ IsPrefix(Mnt, wdir) => mod = "mnt"
            /\ IsPrefix(Tmp, wdir) => mod = "tmp"
            /\ \/ IsPrefix(Mnt, wdir) \/ IsPrefix(Home, wdir) \/ IsPrefix(Tmp, wdir)
               \/ mod = "none"
        BY <2>2, <2>3, ModOf
      <4> QED BY <3>3, <4>1
    <3>4. ASSUME mod = "home" PROVE HomeDir(path) = HomeDir(wdir) \o <<"/">> \o n
      BY <2>2, <2>4, <3>3, <3>4, HomeJoined
    <3> QED BY <2>1, <3>1, <3>2, <3>4
  <2>7. ListedDir(path) = WinPath(Translate(MntDir(mod, path)))
    BY <2>4 DEF ListedDir, ListModule
  <2> QED BY <2>4, <2>5, <2>6, <2>7
<1>2. ASSUME PathInv PROVE ListedEntered
  BY <1>1, <1>2 DEF ListedEntered, EntersListed
<1> QED BY <1>2, PathInvariant, PTL
=============================================================================
