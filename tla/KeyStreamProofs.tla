-------------------------- MODULE KeyStreamProofs --------------------------
(***************************************************************************)
(* Theorems about KeyStream: the input line is whole characters and keeps  *)
(* its text while it is not shown; pastes end and send nothing; and what   *)
(* is sent can be read back from its record and its event.                 *)
(***************************************************************************)
EXTENDS KeyStream, FiniteSetTheorems, SequenceTheorems, WellFoundedInduction, TLAPS

-----------------------------------------------------------------------------
(* The invariants.                                                         *)

Fields == {"insert", "command"}
Bytes  == Seq(Typable)

(* What a buffer of the input size and a history ring can hold.            *)
Line == {s \in Bytes : Len(s) < InputSize}
Ring == {h \in [items : Seq(Line), pos : Nat] :
            Len(h.items) <= HistSize /\ h.pos <= Len(h.items)}

Places == {"name", "name2", "loop", "out", "lead", "esc", "bracket", "tilde",
           "start", "paste", "tail"}

(* A text that is whole characters and fits a buffer of n bytes.           *)
Fits(s, n) == s \in Bytes /\ Whole(s) /\ Len(s) < n

(* A ring whose entries are whole characters.                              *)
WholeItems(h) == \A i \in 1 .. Len(h.items) : Whole(h.items[i])

(* The two lines and the two rings.  Only what can get into the input line *)
(* is whole.                                                               *)
TextOK(t) == t \in [Fields -> Line] /\ Whole(t.insert)
HistOK(h) == h \in [Fields -> Ring] /\ WholeItems(h.insert)

Flags ==
    /\ pc \in Places
    /\ mode \in {"insert", "normal", "command"}
    /\ overlay \in {"none", "help", "output", "motd"}
    /\ part \in {<<>>, <<"lead">>}
    /\ chan \in Bytes
    /\ enters \in Int /\ sent \in Nat

(* A key of several bytes that edits and a paste are read while their line *)
(* is shown.                                                               *)
Placed ==
    /\ pc = "lead" => overlay = "none"
    /\ pc \in {"start", "paste", "tail"} => Shown("insert")

Named == Fits(name, NameSize) /\ (pc \notin {"name", "name2", "out"} => name # <<>>)

KeyInv == Flags /\ Placed /\ Named /\ TextOK(text) /\ HistOK(hist)

-----------------------------------------------------------------------------
(* Lines of whole characters.                                              *)

(* Nothing is cut by ending a line behind a byte that begins no character. *)
LEMMA WholePrefix ==
    ASSUME NEW s \in Bytes, Whole(s), NEW k \in 0 .. Len(s), k = 0 \/ s[k] # "lead"
    PROVE  /\ SubSeq(s, 1, k) \in Bytes
           /\ Len(SubSeq(s, 1, k)) = k
           /\ Whole(SubSeq(s, 1, k))
<1> DEFINE p == SubSeq(s, 1, k)
<1>1. k \in Nat /\ k <= Len(s) /\ Len(s) \in Nat
  BY LenProperties DEF Bytes
<1>2. \A i \in 1 .. k : s[i] \in Typable
  BY <1>1, ElementOfSeq DEF Bytes
<1>3. p \in Bytes /\ Len(p) = k /\ \A i \in 1 .. k : p[i] = s[i]
  BY <1>1, <1>2, SubSeqProperties, Z3 DEF Bytes
<1> HIDE DEF p
<1>4. ASSUME NEW i \in 1 .. Len(p)
      PROVE  /\ p[i] = "lead" => i < Len(p) /\ p[i + 1] \in Second
             /\ p[i] \in Second => i > 1 /\ p[i - 1] = "lead"
  <2>1. i \in 1 .. Len(s) /\ p[i] = s[i]
    BY <1>1, <1>3
  <2>2. ASSUME s[i] = "lead"
        PROVE  i < Len(p) /\ p[i + 1] \in Second
    BY <1>1, <1>3, <2>1, <2>2 DEF Whole
  <2>3. ASSUME s[i] \in Second
        PROVE  i > 1 /\ p[i - 1] = "lead"
    BY <1>1, <1>3, <2>1, <2>3 DEF Whole
  <2> QED BY <2>1, <2>2, <2>3
<1>5. Whole(p)
  BY <1>4 DEF Whole
<1> QED BY <1>3, <1>5 DEF p

LEMMA WholeConcat ==
    ASSUME NEW s \in Bytes, Whole(s), NEW t \in Bytes, Whole(t)
    PROVE  /\ s \o t \in Bytes
           /\ Len(s \o t) = Len(s) + Len(t)
           /\ Whole(s \o t)
<1> DEFINE u == s \o t
<1>1. Len(s) \in Nat /\ Len(t) \in Nat
  BY LenProperties DEF Bytes
<1>2. /\ u \in Bytes /\ Len(u) = Len(s) + Len(t)
      /\ \A i \in 1 .. Len(s) + Len(t) : u[i] = IF i <= Len(s) THEN s[i] ELSE t[i - Len(s)]
  BY ConcatProperties DEF Bytes
<1> HIDE DEF u
<1>3. ASSUME NEW i \in 1 .. Len(u), i <= Len(s)
      PROVE  /\ u[i] = "lead" => i < Len(u) /\ u[i + 1] \in Second
             /\ u[i] \in Second => i > 1 /\ u[i - 1] = "lead"
  <2>1. i \in 1 .. Len(s) /\ u[i] = s[i]
    BY <1>1, <1>2, <1>3
  <2>2. i < Len(s) => i + 1 \in 1 .. Len(u) /\ u[i + 1] = s[i + 1]
    BY <1>1, <1>2, <1>3
  <2>3. i > 1 => i - 1 \in 1 .. Len(u) /\ u[i - 1] = s[i - 1]
    BY <1>1, <1>2, <1>3
  <2>4. Len(s) <= Len(u)
    BY <1>1, <1>2
  <2> QED BY <1>1, <1>2, <2>1, <2>2, <2>3, <2>4 DEF Whole
<1>4. ASSUME NEW i \in 1 .. Len(u), ~(i <= Len(s))
      PROVE  /\ u[i] = "lead" => i < Len(u) /\ u[i + 1] \in Second
             /\ u[i] \in Second => i > 1 /\ u[i - 1] = "lead"
  <2> DEFINE j == i - Len(s)
  <2>1. j \in 1 .. Len(t) /\ u[i] = t[j]
    BY <1>1, <1>2, <1>4
  <2>2. j < Len(t) => i < Len(u) /\ u[i + 1] = t[j + 1]
    BY <1>1, <1>2, <1>4
  <2>3. j > 1 => i > 1 /\ u[i - 1] = t[j - 1]
    BY <1>1, <1>2, <1>4
  <2> HIDE DEF j
  <2> QED BY <1>1, <2>1, <2>2, <2>3 DEF Whole
<1>5. Whole(u)
  BY <1>3, <1>4 DEF Whole
<1> QED BY <1>2, <1>5 DEF u

(* The characters that are put into a line: one byte or two.               *)
LEMMA CharacterWhole ==
    /\ <<>> \in Bytes /\ Len(<<>>) = 0 /\ Whole(<<>>)
    /\ \A b \in Typable : b # "lead" /\ b \notin Second =>
          <<b>> \in Bytes /\ Len(<<b>>) = 1 /\ Whole(<<b>>)
    /\ \A b \in Second :
          <<"lead", b>> \in Bytes /\ Len(<<"lead", b>>) = 2 /\ Whole(<<"lead", b>>)
<1>1. <<>> \in Bytes /\ Len(<<>>) = 0 /\ Whole(<<>>)
  BY EmptySeq DEF Bytes, Whole
<1>2. ASSUME NEW b \in Typable, b # "lead", b \notin Second
      PROVE  <<b>> \in Bytes /\ Len(<<b>>) = 1 /\ Whole(<<b>>)
  <2>1. <<b>> \in Bytes /\ Len(<<b>>) = 1 /\ <<b>>[1] = b
    BY DEF Bytes
  <2> QED BY <1>2, <2>1 DEF Whole
<1>3. ASSUME NEW b \in Second
      PROVE  <<"lead", b>> \in Bytes /\ Len(<<"lead", b>>) = 2 /\ Whole(<<"lead", b>>)
  <2>1. b \in Typable /\ "lead" \in Typable /\ b # "lead"
    BY DEF Second, Typable
  <2>2. /\ <<"lead", b>> \in Bytes /\ Len(<<"lead", b>>) = 2
        /\ <<"lead", b>>[1] = "lead" /\ <<"lead", b>>[2] = b
    BY <2>1 DEF Bytes
  <2>3. "lead" \notin Second
    BY DEF Second
  <2>4. ASSUME NEW i \in 1 .. 2
        PROVE  /\ <<"lead", b>>[i] = "lead" => i < 2 /\ <<"lead", b>>[i + 1] \in Second
               /\ <<"lead", b>>[i] \in Second => i > 1 /\ <<"lead", b>>[i - 1] = "lead"
    <3>1. CASE i = 1
      BY <2>2, <2>3, <3>1
    <3>2. CASE i = 2
      BY <2>1, <2>2, <3>2
    <3> QED BY <3>1, <3>2
  <2> QED BY <2>2, <2>4 DEF Whole
<1> QED BY <1>1, <1>2, <1>3

-----------------------------------------------------------------------------
(* Editing a line.                                                         *)

LEMMA AppendFits ==
    ASSUME NEW s, Fits(s, InputSize), NEW b \in Bytes, Whole(b)
    PROVE  Fits(AppendBytes(s, b), InputSize)
<1>1. InputSize \in Nat /\ Len(s) \in Nat /\ Len(b) \in Nat
  BY RecordAssumption, LenProperties DEF Fits, Bytes
<1>2. s \o b \in Bytes /\ Len(s \o b) = Len(s) + Len(b) /\ Whole(s \o b)
  BY WholeConcat DEF Fits
<1> QED BY <1>1, <1>2 DEF Fits, AppendBytes

(* utf8_remove_last_char takes a character of two bytes as a whole.        *)
LEMMA RemoveLastFits ==
    ASSUME NEW n \in Nat, NEW s, Fits(s, n)
    PROVE  Fits(RemoveLast(s), n)
<1>1. s \in Bytes /\ Whole(s) /\ Len(s) \in Nat /\ Len(s) < n
  BY LenProperties DEF Fits, Bytes
<1>2. CASE s = <<>>
  BY <1>2 DEF Fits, RemoveLast
<1>3. CASE s # <<>> /\ s[Len(s)] \in Second /\ Len(s) > 1
  <2> DEFINE k == Len(s) - 2
  <2>1. k \in 0 .. Len(s) /\ RemoveLast(s) = SubSeq(s, 1, k)
    BY <1>1, <1>3 DEF RemoveLast, Last
  <2>2. Len(s) - 1 \in 1 .. Len(s) /\ s[Len(s) - 1] = "lead"
    BY <1>1, <1>3 DEF Whole
  <2>3. k = 0 \/ s[k] # "lead"
    <3>1. SUFFICES ASSUME k # 0, s[k] = "lead" PROVE FALSE
      OBVIOUS
    <3>2. k \in 1 .. Len(s) /\ k + 1 = Len(s) - 1
      <4>1. k # 0 /\ k + 1 = Len(s) - 1
        BY <1>1, <3>1, Z3
      <4> QED BY <1>1, <2>1, <4>1
    <3>3. s[k + 1] \in Second
      BY <1>1, <3>1, <3>2 DEF Whole
    <3> QED BY <2>2, <3>2, <3>3 DEF Second
  <2> HIDE DEF k
  <2>4. /\ SubSeq(s, 1, k) \in Bytes /\ Len(SubSeq(s, 1, k)) = k /\ Whole(SubSeq(s, 1, k))
    BY <1>1, <2>1, <2>3, WholePrefix
  <2> QED BY <1>1, <2>1, <2>4 DEF Fits
<1>4. CASE s # <<>> /\ ~(s[Len(s)] \in Second /\ Len(s) > 1)
  <2> DEFINE k == Len(s) - 1
  <2>1. Len(s) > 0
    BY <1>1, <1>4, EmptySeq DEF Bytes
  <2>2. k \in 0 .. Len(s) /\ RemoveLast(s) = SubSeq(s, 1, k)
    BY <1>1, <1>4, <2>1 DEF RemoveLast, Last, Front
  <2>3. k = 0 \/ s[k] # "lead"
    <3>1. SUFFICES ASSUME k # 0, s[k] = "lead" PROVE FALSE
      OBVIOUS
    <3>2. k \in 1 .. Len(s) /\ k + 1 = Len(s) /\ Len(s) > 1
      <4>1. k # 0 /\ k + 1 = Len(s)
        BY <1>1, <3>1, Z3
      <4> QED BY <1>1, <2>2, <4>1
    <3>3. s[k + 1] \in Second
      BY <1>1, <3>1, <3>2 DEF Whole
    <3> QED BY <1>4, <3>2, <3>3
  <2> HIDE DEF k
  <2>4. /\ SubSeq(s, 1, k) \in Bytes /\ Len(SubSeq(s, 1, k)) = k /\ Whole(SubSeq(s, 1, k))
    BY <1>1, <2>2, <2>3, WholePrefix
  <2> QED BY <1>1, <2>2, <2>4 DEF Fits
<1> QED BY <1>2, <1>3, <1>4

(* Finite, non-empty sets of numbers have a greatest and a least one.      *)
LEMMA LeastNatural ==
    ASSUME NEW U \in SUBSET Nat, U # {}
    PROVE  \E k \in U : \A j \in U : k <= j
<1> DEFINE R == OpToRel(<, Nat)
<1>1. IsWellFoundedOn(R, Nat)
  BY NatLessThanWellFounded
<1>2. \A i, j \in Nat : i < j => <<i, j>> \in R
  BY DEF OpToRel
<1> HIDE DEF R
<1>3. PICK k \in U : \A j \in U : ~(<<j, k>> \in R)
  BY <1>1, WFMin
<1>4. ASSUME NEW j \in U
      PROVE  k <= j
  <2>1. k \in Nat /\ j \in Nat /\ ~(j < k)
    BY <1>2, <1>3, <1>4
  <2> QED BY <2>1
<1> QED BY <1>4

LEMMA GreatestNatural ==
    ASSUME NEW n \in Nat, NEW U \in SUBSET (0 .. n), U # {}
    PROVE  Max(U) \in U /\ \A j \in U : j <= Max(U)
<1> DEFINE V == {i \in Nat : i <= n /\ n - i \in U}
<1>1. V \in SUBSET Nat /\ V # {}
  <2>1. PICK u \in U : TRUE
    OBVIOUS
  <2>2. n - u \in Nat /\ n - u <= n /\ n - (n - u) = u
    BY <2>1
  <2> QED BY <2>1, <2>2
<1>2. PICK k \in V : \A j \in V : k <= j
  BY <1>1, LeastNatural
<1>3. n - k \in U
  BY <1>2
<1>4. ASSUME NEW y \in U
      PROVE  n - k >= y
  <2>1. n - y \in V /\ y \in Nat /\ k \in Nat
    BY <1>4
  <2>2. k <= n - y
    BY <1>2, <2>1
  <2> QED BY <2>1, <2>2
<1>5. \E x \in U : \A y \in U : x >= y
  BY <1>3, <1>4
<1>6. Max(U) \in U /\ \A y \in U : Max(U) >= y
  BY <1>5 DEF Max
<1> QED BY <1>6

(* utf8_remove_last_word ends the line at its beginning or at a space.     *)
LEMMA RemoveWordFits ==
    ASSUME NEW n \in Nat, NEW s, Fits(s, n)
    PROVE  Fits(RemoveWord(s), n)
<1> DEFINE before == {k \in 0 .. Len(s) : /\ k = 0 \/ s[k] = "sp"
                                          /\ \E i \in k + 1 .. Len(s) : s[i] # "sp"}
<1>1. s \in Bytes /\ Whole(s) /\ Len(s) \in Nat /\ Len(s) < n
  BY LenProperties DEF Fits, Bytes
<1>2. RemoveWord(s) = IF before = {} THEN <<>> ELSE SubSeq(s, 1, Max(before))
  BY DEF RemoveWord
<1>3. before \in SUBSET (0 .. Len(s)) /\ \A k \in before : k = 0 \/ s[k] = "sp"
  OBVIOUS
<1> HIDE DEF before
<1>4. CASE before = {}
  BY <1>1, <1>2, <1>4, CharacterWhole DEF Fits
<1>5. CASE before # {}
  <2> DEFINE k == Max(before)
  <2>1. k \in before
    BY <1>1, <1>3, <1>5, GreatestNatural
  <2>2. k \in 0 .. Len(s) /\ (k = 0 \/ s[k] # "lead") /\ RemoveWord(s) = SubSeq(s, 1, k)
    BY <1>2, <1>3, <1>5, <2>1
  <2> HIDE DEF k
  <2>3. /\ SubSeq(s, 1, k) \in Bytes /\ Len(SubSeq(s, 1, k)) = k /\ Whole(SubSeq(s, 1, k))
    BY <1>1, <2>2, WholePrefix
  <2> QED BY <1>1, <2>2, <2>3 DEF Fits
<1> QED BY <1>4, <1>5

EndsUpTo(E, k) == {e \in E : e <= k}

LEMMA EndsCounted ==
    ASSUME NEW E, \A e \in E : e \in Int /\ 1 <= e, NEW k \in Int
    PROVE  /\ EndsUpTo(E, 0) = {}
           /\ k \notin E => EndsUpTo(E, k) = EndsUpTo(E, k - 1)
           /\ k \in E => EndsUpTo(E, k) = EndsUpTo(E, k - 1) \cup {k}
           /\ k \notin EndsUpTo(E, k - 1)
<1>1. \A e : e \in EndsUpTo(E, 0) <=> e \in E /\ e <= 0
  BY DEF EndsUpTo
<1>2. \A e : e \in EndsUpTo(E, k) <=> e \in E /\ e <= k
  BY DEF EndsUpTo
<1>3. \A e : e \in EndsUpTo(E, k - 1) <=> e \in E /\ e <= k - 1
  BY DEF EndsUpTo
<1>4. \A e \in E : ~(e <= 0)
  OBVIOUS
<1>5. EndsUpTo(E, 0) = {}
  BY <1>1, <1>4
<1>6. \A e \in E : e # k => (e <= k <=> e <= k - 1)
  OBVIOUS
<1>7. k <= k /\ ~(k <= k - 1)
  OBVIOUS
<1>8. k \notin EndsUpTo(E, k - 1)
  BY <1>3, <1>7
<1>9. ASSUME k \notin E
      PROVE  EndsUpTo(E, k) = EndsUpTo(E, k - 1)
  <2>1. \A e : e \in EndsUpTo(E, k) <=> e \in EndsUpTo(E, k - 1)
    BY <1>2, <1>3, <1>6, <1>9, Zenon
  <2> QED BY <2>1
<1>10. ASSUME k \in E
       PROVE  EndsUpTo(E, k) = EndsUpTo(E, k - 1) \cup {k}
  <2>1. \A e : e \in EndsUpTo(E, k) <=> e \in EndsUpTo(E, k - 1) \cup {k}
    BY <1>2, <1>3, <1>6, <1>7, <1>10, Zenon
  <2> QED BY <2>1
<1> QED BY <1>5, <1>8, <1>9, <1>10

(* utf8_truncate stops where the last character that fits ends: some       *)
(* number of the first characters is exactly the width.                    *)
LEMMA CutExists ==
    ASSUME NEW s \in Bytes, NEW width \in Nat \ {0}, ~(Cardinality(Ends(s)) <= width)
    PROVE  \E i \in Ends(s) : Cardinality({e \in Ends(s) : e <= i}) = width
<1> DEFINE E == Ends(s)
<1>1. Len(s) \in Nat
  BY LenProperties DEF Bytes
<1>2. /\ E \in SUBSET (1 .. Len(s)) /\ IsFiniteSet(E)
      /\ \A e \in E : e \in Int /\ 1 <= e /\ e <= Len(s)
  <2>1. E \in SUBSET (1 .. Len(s))
    BY DEF Ends
  <2>2. IsFiniteSet(1 .. Len(s))
    BY <1>1, FS_Interval
  <2> HIDE DEF E
  <2>3. IsFiniteSet(E)
    BY <2>1, <2>2, FS_Subset
  <2>4. \A e \in 1 .. Len(s) : e \in Int /\ 1 <= e /\ e <= Len(s)
    BY <1>1
  <2> QED BY <2>1, <2>3, <2>4
<1>3. ~(Cardinality(E) <= width)
  OBVIOUS
<1> HIDE DEF E
<1>a. \A e \in E : e \in Int /\ 1 <= e
  BY <1>2
<1>4. \A k \in 0 .. Len(s) : IsFiniteSet(EndsUpTo(E, k)) /\ Cardinality(EndsUpTo(E, k)) \in Nat
  <2> SUFFICES ASSUME NEW k \in 0 .. Len(s)
               PROVE  IsFiniteSet(EndsUpTo(E, k)) /\ Cardinality(EndsUpTo(E, k)) \in Nat
    OBVIOUS
  <2>1. EndsUpTo(E, k) \in SUBSET E
    BY DEF EndsUpTo
  <2> QED BY <1>2, <2>1, FS_Subset, FS_CardinalityType
<1> DEFINE U == {k \in 0 .. Len(s) : Cardinality(EndsUpTo(E, k)) >= width}
<1>5. U \in SUBSET Nat /\ U # {}
  <2>1. EndsUpTo(E, Len(s)) = E
    BY <1>1, <1>2 DEF EndsUpTo
  <2>2. Cardinality(E) \in Nat
    BY <1>2, FS_CardinalityType
  <2> QED BY <1>1, <1>3, <2>1, <2>2
<1>6. PICK k \in U : \A j \in U : k <= j
  BY <1>5, LeastNatural
<1>7. k \in 0 .. Len(s) /\ k \in Nat /\ Cardinality(EndsUpTo(E, k)) >= width
  BY <1>6
<1>8. k # 0
  <2>1. EndsUpTo(E, 0) = {}
    BY <1>1, <1>a, EndsCounted
  <2>2. Cardinality(EndsUpTo(E, 0)) = 0
    BY <2>1, FS_EmptySet
  <2> QED BY <1>7, <2>2
<1>9. k - 1 \in 0 .. Len(s) /\ Cardinality(EndsUpTo(E, k - 1)) < width
  <2>1. k - 1 \in 0 .. Len(s) /\ k - 1 < k
    BY <1>1, <1>7, <1>8
  <2>2. k - 1 \notin U
    BY <1>6, <1>7, <2>1
  <2> QED BY <1>4, <2>1, <2>2
<1>10. k \in E
  <2>1. SUFFICES ASSUME k \notin E PROVE FALSE
    OBVIOUS
  <2>2. EndsUpTo(E, k) = EndsUpTo(E, k - 1)
    BY <1>a, <1>7, <2>1, EndsCounted
  <2>3. Cardinality(EndsUpTo(E, k - 1)) \in Nat
    BY <1>4, <1>9
  <2>4. Cardinality(EndsUpTo(E, k - 1)) >= width
    BY <1>7, <2>2
  <2>5. Cardinality(EndsUpTo(E, k - 1)) < width
    BY <1>9
  <2> QED BY <2>3, <2>4, <2>5
<1>11. EndsUpTo(E, k) = EndsUpTo(E, k - 1) \cup {k} /\ k \notin EndsUpTo(E, k - 1)
  BY <1>2, <1>7, <1>10, EndsCounted
<1>12. Cardinality(EndsUpTo(E, k)) = Cardinality(EndsUpTo(E, k - 1)) + 1
  BY <1>4, <1>9, <1>11, FS_AddElement
<1>13. Cardinality(EndsUpTo(E, k)) = width
  BY <1>4, <1>7, <1>9, <1>12
<1> QED BY <1>10, <1>13 DEF E, EndsUpTo

LEMMA TruncateFits ==
    ASSUME NEW n \in Nat, NEW s, Fits(s, n), s # <<>>, NEW width \in Nat \ {0}
    PROVE  Fits(Truncate(s, width), n) /\ Truncate(s, width) # <<>>
<1>1. s \in Bytes /\ Whole(s) /\ Len(s) \in Nat /\ Len(s) < n
  BY LenProperties DEF Fits, Bytes
<1>2. CASE Cardinality(Ends(s)) <= width
  BY <1>2 DEF Truncate
<1>3. CASE ~(Cardinality(Ends(s)) <= width)
  <2> DEFINE k == CHOOSE i \in Ends(s) : Cardinality({e \in Ends(s) : e <= i}) = width
  <2>1. k \in Ends(s)
    BY <1>1, <1>3, CutExists
  <2>2. Truncate(s, width) = UpTo(s, k)
    BY <1>3 DEF Truncate
  <2> HIDE DEF k
  <2>3. k \in 1 .. Len(s) /\ s[k] # "lead"
    BY <2>1 DEF Ends
  <2>4. UpTo(s, k) = SubSeq(s, 1, k)
    <3>1. Len(s) < k \/ ~(Len(s) < k)
      OBVIOUS
    <3>2. ~(Len(s) < k)
      BY <1>1, <2>3
    <3> QED BY <3>2 DEF UpTo
  <2>5. k \in 0 .. Len(s) /\ k > 0
    BY <1>1, <2>3
  <2>6. /\ SubSeq(s, 1, k) \in Bytes /\ Len(SubSeq(s, 1, k)) = k /\ Whole(SubSeq(s, 1, k))
    BY <1>1, <2>3, <2>5, WholePrefix
  <2>7. SubSeq(s, 1, k) # <<>>
    BY <2>5, <2>6, CharacterWhole
  <2> QED BY <1>1, <2>2, <2>3, <2>4, <2>6, <2>7 DEF Fits
<1> QED BY <1>2, <1>3

-----------------------------------------------------------------------------
(* A paste on its way into the line.                                       *)

LEMMA PairConcat ==
    ASSUME NEW c \in Typable, NEW d \in Typable
    PROVE  <<c>> \o <<d>> = <<c, d>>
<1>1. <<c>> \in Bytes /\ <<d>> \in Bytes /\ <<c, d>> \in Bytes
  BY DEF Bytes
<1>2. Len(<<c>>) = 1 /\ Len(<<d>>) = 1 /\ Len(<<c, d>>) = 2
  OBVIOUS
<1>3. /\ <<c>> \o <<d>> \in Bytes /\ Len(<<c>> \o <<d>>) = 2
      /\ \A i \in 1 .. 2 : (<<c>> \o <<d>>)[i] = IF i <= 1 THEN <<c>>[i] ELSE <<d>>[i - 1]
  BY <1>1, <1>2, ConcatProperties DEF Bytes
<1>4. (<<c>> \o <<d>>)[1] = c /\ (<<c>> \o <<d>>)[2] = d
  BY <1>3
<1>5. \A i \in 1 .. 2 : (<<c>> \o <<d>>)[i] = <<c, d>>[i]
  <2>1. SUFFICES ASSUME NEW i \in 1 .. 2 PROVE (<<c>> \o <<d>>)[i] = <<c, d>>[i]
    OBVIOUS
  <2>2. i = 1 \/ i = 2
    OBVIOUS
  <2> QED BY <1>4, <2>2
<1> QED BY <1>1, <1>2, <1>3, <1>5, SeqEqual DEF Bytes

(* The buffer and paste_utf8 between two bytes of a paste.                 *)
StreamOK(st) ==
    /\ st = [text |-> st.text, part |-> st.part]
    /\ Fits(st.text, InputSize)
    /\ st.part \in {<<>>, <<"lead">>}

LEMMA StreamKept ==
    ASSUME NEW st, StreamOK(st), NEW b \in Typable
    PROVE  StreamOK(Stream(st, b))
<1>0. PICK c : c = IF b = "cr" THEN "sp" ELSE b
  OBVIOUS
<1>1. st = [text |-> st.text, part |-> st.part]
  BY DEF StreamOK
<1>2. Fits(st.text, InputSize)
  BY DEF StreamOK
<1>3. st.part = <<>> \/ st.part = <<"lead">>
  BY DEF StreamOK
<1>4. CASE c \in Printable
  <2>1. c \in Typable /\ c # "lead" /\ c \notin Second
    BY <1>0, <1>4 DEF Typable, Printable, Digits, Second
  <2>2. Stream(st, b) = [text |-> AppendBytes(st.text, <<c>>), part |-> <<>>]
    BY <1>0, <1>4, <2>1 DEF Stream
  <2>3. Fits(AppendBytes(st.text, <<c>>), InputSize)
    BY <1>2, <2>1, CharacterWhole, AppendFits
  <2> QED BY <2>2, <2>3 DEF StreamOK
<1>5. CASE c = "lead"
  <2>1. c \notin Printable /\ c \notin Second
    BY <1>5 DEF Printable, Digits, Second
  <2>2. Stream(st, b) = [st EXCEPT !.part = <<"lead">>]
    BY <1>5, <1>0, <2>1 DEF Stream
  <2>3. Stream(st, b) = [text |-> st.text, part |-> <<"lead">>]
    BY <1>1, <2>2
  <2> QED BY <1>2, <2>3 DEF StreamOK
<1>6. CASE c \in Second
  <2>1. c \notin Printable /\ c # "lead"
    BY <1>6 DEF Printable, Digits, Second
  <2>2. Stream(st, b) = [text |-> AppendBytes(st.text, IF st.part = <<>> THEN <<>>
                                                       ELSE st.part \o <<c>>),
                         part |-> <<>>]
    BY <1>6, <1>0, <2>1 DEF Stream
  <2>3. CASE st.part = <<>>
    <3>1. Stream(st, b) = [text |-> AppendBytes(st.text, <<>>), part |-> <<>>]
      BY <2>2, <2>3
    <3>2. Fits(AppendBytes(st.text, <<>>), InputSize)
      BY <1>2, CharacterWhole, AppendFits
    <3> QED BY <3>1, <3>2 DEF StreamOK
  <2>4. CASE st.part = <<"lead">>
    <3>1. st.part # <<>> /\ <<"lead">> \o <<c>> = <<"lead", c>>
      BY <1>6, <2>4, PairConcat DEF Typable
    <3>2. Stream(st, b) = [text |-> AppendBytes(st.text, <<"lead", c>>), part |-> <<>>]
      BY <2>2, <2>4, <3>1
    <3>3. Fits(AppendBytes(st.text, <<"lead", c>>), InputSize)
      BY <1>2, <1>6, CharacterWhole, AppendFits
    <3> QED BY <3>2, <3>3 DEF StreamOK
  <2> QED BY <1>3, <2>3, <2>4
<1>7. CASE c \notin Printable /\ c # "lead" /\ c \notin Second
  <2>1. Stream(st, b) = [st EXCEPT !.part = <<>>]
    BY <1>0, <1>7 DEF Stream
  <2>2. Stream(st, b) = [text |-> st.text, part |-> <<>>]
    BY <1>1, <2>1
  <2> QED BY <1>2, <2>2 DEF StreamOK
<1> QED BY <1>4, <1>5, <1>6, <1>7

(* What holds at 0 and passes on from i to i + 1 holds up to n.            *)
LEMMA IndexInduction ==
    ASSUME NEW n \in Nat, NEW T \in SUBSET (0 .. n), 0 \in T,
           \A i \in T : i < n => i + 1 \in T
    PROVE  \A i \in 0 .. n : i \in T
<1>1. SUFFICES ASSUME NEW m \in 0 .. n, m \notin T
               PROVE  FALSE
  OBVIOUS
<1> DEFINE U == {i \in Nat : i <= n /\ i \notin T}
<1>2. U \in SUBSET Nat /\ U # {}
  BY <1>1
<1>3. PICK k \in U : \A j \in U : k <= j
  BY <1>2, LeastNatural
<1>4. k # 0 /\ k - 1 \in 0 .. n /\ k - 1 \in T
  BY <1>3
<1> QED BY <1>3, <1>4

StreamStep(st, s, f, i) == IF i = 0 THEN st ELSE Stream(f[i - 1], s[i])

After(st, s) == CHOOSE f : f = [i \in 0 .. Len(s) |-> StreamStep(st, s, f, i)]

LEMMA StreamedIsAfter ==
    ASSUME NEW st, NEW s
    PROVE  Streamed(st, s) = After(st, s)[Len(s)]
  BY DEF Streamed, After, StreamStep

(* The recursive function of Streamed exists: its values up to n + 1       *)
(* follow from those up to n.                                              *)
LEMMA AfterExists ==
    ASSUME NEW st, NEW s, Len(s) \in Nat
    PROVE  After(st, s) = [i \in 0 .. Len(s) |-> StreamStep(st, s, After(st, s), i)]
<1> DEFINE T == {n \in 0 .. Len(s) : \E f : f = [i \in 0 .. n |-> StreamStep(st, s, f, i)]}
<1>1. 0 \in T
  <2> DEFINE f == [i \in 0 .. 0 |-> st]
  <2>1. f = [i \in 0 .. 0 |-> StreamStep(st, s, f, i)]
    BY DEF StreamStep
  <2>2. 0 \in 0 .. Len(s)
    OBVIOUS
  <2> QED BY <2>1, <2>2
<1>2. ASSUME NEW n \in T, n < Len(s)
      PROVE  n + 1 \in T
  <2>1. n \in 0 .. Len(s) /\ n + 1 \in 0 .. Len(s)
    BY <1>2
  <2>2. PICK f : f = [i \in 0 .. n |-> StreamStep(st, s, f, i)]
    BY <1>2
  <2> DEFINE g == [i \in 0 .. n + 1 |-> IF i = n + 1 THEN StreamStep(st, s, f, i) ELSE f[i]]
  <2>3. ASSUME NEW i \in 0 .. n + 1
        PROVE  g[i] = StreamStep(st, s, g, i)
    <3>1. g[i] = StreamStep(st, s, f, i)
      BY <2>1, <2>2, <2>3
    <3>2. CASE i = 0
      BY <3>1, <3>2 DEF StreamStep
    <3>3. CASE i # 0
      <4>1. i - 1 \in 0 .. n + 1 /\ i - 1 # n + 1
        BY <2>1, <2>3, <3>3
      <4>2. g[i - 1] = f[i - 1]
        BY <4>1
      <4> HIDE DEF g
      <4> QED BY <3>1, <3>3, <4>2 DEF StreamStep
    <3> QED BY <3>2, <3>3
  <2>4. g = [i \in 0 .. n + 1 |-> g[i]]
    OBVIOUS
  <2> HIDE DEF g
  <2>5. g = [i \in 0 .. n + 1 |-> StreamStep(st, s, g, i)]
    BY <2>3, <2>4
  <2> QED BY <2>1, <2>5
<1> HIDE DEF T
<1>3. T \in SUBSET (0 .. Len(s))
  BY DEF T
<1>4. Len(s) \in T
  <2>1. \A i \in 0 .. Len(s) : i \in T
    BY <1>1, <1>2, <1>3, IndexInduction
  <2> QED BY <2>1
<1>5. \E f : f = [i \in 0 .. Len(s) |-> StreamStep(st, s, f, i)]
  BY <1>4 DEF T
<1> QED BY <1>5 DEF After

LEMMA StreamedKept ==
    ASSUME NEW st, StreamOK(st), NEW s \in Bytes
    PROVE  StreamOK(Streamed(st, s))
<1>1. Len(s) \in Nat
  BY LenProperties DEF Bytes
<1>2. \A i \in 0 .. Len(s) : After(st, s)[i] = StreamStep(st, s, After(st, s), i)
  BY <1>1, AfterExists
<1> DEFINE T == {i \in 0 .. Len(s) : StreamOK(After(st, s)[i])}
<1>3. 0 \in T
  <2>1. 0 \in 0 .. Len(s) /\ After(st, s)[0] = st
    BY <1>1, <1>2 DEF StreamStep
  <2>2. StreamOK(After(st, s)[0])
    BY <2>1
  <2> QED BY <2>1, <2>2
<1>4. ASSUME NEW i \in T, i < Len(s)
      PROVE  i + 1 \in T
  <2>1. i \in 0 .. Len(s) /\ i + 1 \in 0 .. Len(s) /\ i + 1 \in 1 .. Len(s)
    BY <1>1, <1>4
  <2>2. StreamOK(After(st, s)[i]) /\ s[i + 1] \in Typable
    BY <2>1, ElementOfSeq DEF Bytes
  <2>3. After(st, s)[i + 1] = Stream(After(st, s)[i], s[i + 1])
    BY <1>2, <2>1 DEF StreamStep
  <2>4. StreamOK(After(st, s)[i + 1])
    BY <2>2, <2>3, StreamKept
  <2> QED BY <2>1, <2>4
<1>5. T \in SUBSET (0 .. Len(s))
  OBVIOUS
<1> HIDE DEF T
<1>6. Len(s) \in T
  <2>1. \A i \in 0 .. Len(s) : i \in T
    BY <1>1, <1>3, <1>4, <1>5, IndexInduction
  <2> QED BY <1>1, <2>1
<1>7. StreamOK(After(st, s)[Len(s)])
  BY <1>6 DEF T
<1> QED BY <1>7, StreamedIsAfter

-----------------------------------------------------------------------------
(* The history rings.                                                      *)

LEMMA RememberKept ==
    ASSUME NEW h \in Ring, NEW s \in Line
    PROVE  /\ Remember(h, s) \in Ring
           /\ WholeItems(h) /\ Whole(s) => WholeItems(Remember(h, s))
<1>1. h.items \in Seq(Line) /\ Len(h.items) \in Nat /\ Len(h.items) <= HistSize
  BY LenProperties DEF Ring
<1>2. HistSize \in Nat \ {0}
  BY KeyAssumption
<1>3. PICK q : q = IF Len(h.items) >= HistSize THEN Tail(h.items) ELSE h.items
  OBVIOUS
<1>4. /\ q \in Seq(Line) /\ Len(q) \in Nat /\ Len(q) < HistSize
      /\ WholeItems(h) => \A i \in 1 .. Len(q) : Whole(q[i])
  <2>1. CASE Len(h.items) >= HistSize
    <3>1. q = Tail(h.items) /\ h.items # <<>>
      BY <1>1, <1>2, <1>3, <2>1
    <3>2. /\ q \in Seq(Line) /\ Len(q) = Len(h.items) - 1
          /\ \A i \in 1 .. Len(q) : q[i] = h.items[i + 1]
      BY <1>1, <3>1, HeadTailProperties
    <3>3. \A i \in 1 .. Len(q) : i + 1 \in 1 .. Len(h.items)
      BY <1>1, <3>2
    <3>4. WholeItems(h) => \A i \in 1 .. Len(q) : Whole(q[i])
      BY <3>2, <3>3 DEF WholeItems
    <3>5. Len(q) \in Nat /\ Len(q) < HistSize
      BY <1>1, <1>2, <2>1, <3>2
    <3> QED BY <3>2, <3>4, <3>5
  <2>2. CASE ~(Len(h.items) >= HistSize)
    <3>1. q = h.items
      BY <1>3, <2>2
    <3> QED BY <1>1, <1>2, <2>2, <3>1 DEF WholeItems
  <2> QED BY <2>1, <2>2
<1>5. PICK r : r = Append(q, s)
  OBVIOUS
<1>6. /\ r \in Seq(Line) /\ Len(r) = Len(q) + 1
      /\ \A i \in 1 .. Len(q) : r[i] = q[i]
      /\ r[Len(q) + 1] = s
  BY <1>4, <1>5, AppendProperties
<1>7. Remember(h, s) = [items |-> r, pos |-> Len(r)]
  BY <1>3, <1>5 DEF Remember
<1>8. Len(r) \in Nat /\ Len(r) <= HistSize
  BY <1>2, <1>4, <1>6
<1>9. Remember(h, s) \in Ring
  BY <1>6, <1>7, <1>8 DEF Ring
<1>10. ASSUME WholeItems(h), Whole(s)
       PROVE  WholeItems(Remember(h, s))
  <2>1. ASSUME NEW i \in 1 .. Len(r)
        PROVE  Whole(r[i])
    <3>1. i \in 1 .. Len(q) \/ i = Len(q) + 1
      BY <1>4, <1>6
    <3> QED BY <1>4, <1>6, <1>10, <3>1
  <2> QED BY <1>7, <2>1 DEF WholeItems
<1> QED BY <1>9, <1>10

LEMMA RecallKept ==
    ASSUME NEW h \in Ring, NEW s \in Line, NEW b \in {"A", "B"}
    PROVE  /\ Recall(h, b, s) = [pos |-> Recall(h, b, s).pos, text |-> Recall(h, b, s).text]
           /\ Recall(h, b, s).pos \in Nat /\ Recall(h, b, s).pos <= Len(h.items)
           /\ Recall(h, b, s).text \in Line
           /\ WholeItems(h) /\ Whole(s) => Whole(Recall(h, b, s).text)
<1>1. /\ h.items \in Seq(Line) /\ Len(h.items) \in Nat
      /\ h.pos \in Nat /\ h.pos <= Len(h.items)
  BY LenProperties DEF Ring
<1>2. <<>> \in Line /\ Whole(<<>>)
  BY RecordAssumption, CharacterWhole DEF Line
<1>3. \A i \in 1 .. Len(h.items) : h.items[i] \in Line
  BY <1>1, ElementOfSeq
<1>4. CASE b = "A" /\ h.pos > 0
  <2>1. Recall(h, b, s) = [pos |-> h.pos - 1, text |-> h.items[h.pos]]
    BY <1>1, <1>4 DEF Recall
  <2>2. h.pos \in 1 .. Len(h.items) /\ h.pos - 1 \in Nat /\ h.pos - 1 <= Len(h.items)
    BY <1>1, <1>4
  <2>3. h.items[h.pos] \in Line /\ (WholeItems(h) => Whole(h.items[h.pos]))
    BY <1>3, <2>2 DEF WholeItems
  <2> QED BY <2>1, <2>2, <2>3
<1>5. CASE b = "A" /\ h.pos = 0
  <2>1. Recall(h, b, s) = [pos |-> 0, text |-> s]
    BY <1>1, <1>5 DEF Recall
  <2> QED BY <1>1, <2>1
<1>6. CASE b = "B" /\ h.pos < Len(h.items) - 1
  <2>1. Recall(h, b, s) = [pos |-> h.pos + 1, text |-> h.items[h.pos + 2]]
    BY <1>1, <1>6 DEF Recall
  <2>2. h.pos + 2 \in 1 .. Len(h.items) /\ h.pos + 1 \in Nat /\ h.pos + 1 <= Len(h.items)
    BY <1>1, <1>6
  <2>3. h.items[h.pos + 2] \in Line /\ (WholeItems(h) => Whole(h.items[h.pos + 2]))
    BY <1>3, <2>2 DEF WholeItems
  <2> QED BY <2>1, <2>2, <2>3
<1>7. CASE b = "B" /\ ~(h.pos < Len(h.items) - 1)
  <2>1. Recall(h, b, s) = [pos |-> Len(h.items), text |-> <<>>]
    BY <1>1, <1>7 DEF Recall
  <2> QED BY <1>1, <1>2, <2>1
<1>8. h.pos > 0 \/ h.pos = 0
  BY <1>1
<1> QED BY <1>4, <1>5, <1>6, <1>7, <1>8

-----------------------------------------------------------------------------
(* Completion.                                                             *)

LEMMA PrefixType ==
    ASSUME NEW s \in Bytes, NEW k \in 0 .. Len(s)
    PROVE  SubSeq(s, 1, k) \in Bytes /\ Len(SubSeq(s, 1, k)) = k
<1>1. k \in Nat /\ k <= Len(s) /\ Len(s) \in Nat
  BY LenProperties DEF Bytes
<1>2. \A i \in 1 .. k : s[i] \in Typable
  BY <1>1, ElementOfSeq DEF Bytes
<1> QED BY <1>1, <1>2, SubSeqProperties, Z3 DEF Bytes

(* A mention is completed behind its @ with a whole name.                  *)
LEMMA CompletedWhole ==
    ASSUME NEW s \in Bytes, Whole(s), NEW i \in 1 .. Len(s), s[i] = "@", NEW n \in Names
    PROVE  /\ SubSeq(s, 1, i) \o n \o <<"sp">> \in Bytes
           /\ Whole(SubSeq(s, 1, i) \o n \o <<"sp">>)
<1>1. n \in Bytes /\ Whole(n)
  BY KeyAssumption DEF Bytes
<1>2. i \in 0 .. Len(s) /\ s[i] # "lead"
  BY LenProperties DEF Bytes
<1>3. SubSeq(s, 1, i) \in Bytes /\ Whole(SubSeq(s, 1, i))
  BY <1>2, WholePrefix
<1>4. SubSeq(s, 1, i) \o n \in Bytes /\ Whole(SubSeq(s, 1, i) \o n)
  BY <1>1, <1>3, WholeConcat
<1>5. <<"sp">> \in Bytes /\ Whole(<<"sp">>)
  BY CharacterWhole DEF Typable, Printable, Second
<1> QED BY <1>4, <1>5, WholeConcat

LEMMA CommonPrefixType ==
    ASSUME NEW M, M # {}, M \subseteq Bytes
    PROVE  CommonPrefix(M) \in Bytes
<1> DEFINE n == CHOOSE n \in M : TRUE
<1> DEFINE common == {k \in 0 .. Len(n) : \A o \in M : IsPrefix(SubSeq(n, 1, k), o)}
<1>1. n \in M /\ n \in Bytes
  OBVIOUS
<1>2. CommonPrefix(M) = SubSeq(n, 1, Max(common))
  BY DEF CommonPrefix
<1> HIDE DEF n
<1>3. Len(n) \in Nat
  BY <1>1, LenProperties DEF Bytes
<1>4. \A o \in M : IsPrefix(SubSeq(n, 1, 0), o)
  <2> SUFFICES ASSUME NEW o \in M
               PROVE  IsPrefix(SubSeq(n, 1, 0), o)
    OBVIOUS
  <2>1. Len(o) \in Nat
    BY LenProperties DEF Bytes
  <2>2. SubSeq(n, 1, 0) = <<>> /\ SubSeq(<<>>, 1, 0) = <<>> /\ SubSeq(o, 1, 0) = <<>>
    BY SubSeqEmpty
  <2>3. Len(<<>>) = 0
    OBVIOUS
  <2> QED BY <2>1, <2>2, <2>3 DEF IsPrefix
<1>5. 0 \in common
  BY <1>3, <1>4
<1>6. common \in SUBSET (0 .. Len(n))
  OBVIOUS
<1> HIDE DEF common
<1>7. Max(common) \in 0 .. Len(n)
  <2>1. Max(common) \in common
    BY <1>3, <1>5, <1>6, GreatestNatural
  <2> QED BY <1>6, <2>1
<1> QED BY <1>1, <1>2, <1>7, PrefixType

(* The command line is filled to its last byte and no further.             *)
Filled(l) == IF Len(l) < InputSize THEN l ELSE SubSeq(l, 1, InputSize - 1)

LEMMA FilledType ==
    ASSUME NEW l \in Bytes
    PROVE  Filled(l) \in Line
<1>1. Len(l) \in Nat /\ InputSize \in Nat \ {0}
  BY RecordAssumption, LenProperties DEF Bytes
<1>2. CASE Len(l) < InputSize
  BY <1>2 DEF Filled, Line
<1>3. CASE ~(Len(l) < InputSize)
  <2>1. InputSize - 1 \in 0 .. Len(l) /\ InputSize - 1 < InputSize
    BY <1>1, <1>3
  <2>2. /\ SubSeq(l, 1, InputSize - 1) \in Bytes
        /\ Len(SubSeq(l, 1, InputSize - 1)) = InputSize - 1
    BY <2>1, PrefixType
  <2> QED BY <1>3, <2>1, <2>2 DEF Filled, Line
<1> QED BY <1>2, <1>3

LEMMA BytesConcat ==
    ASSUME NEW s \in Bytes, NEW t \in Bytes
    PROVE  s \o t \in Bytes /\ Len(s \o t) = Len(s) + Len(t)
  BY ConcatProperties DEF Bytes

(* What Tab makes of the command line.                                     *)
LEMMA CommandTabType ==
    ASSUME CommandTab, text.command \in Line
    PROVE  \E l \in Line : Edited(l) /\ Shown("command") /\ Byte("tab")
<1>1. PICK s : s = text.command
  OBVIOUS
<1>2. PICK found : found = {n \in Names : IsPrefix(Tail(s), n)}
  OBVIOUS
<1>3. PICK l : l = IF s = <<>> \/ s[1] # "msg" \/ found = {} THEN s
                   ELSE Filled(<<"msg">> \o IF Cardinality(found) = 1
                                            THEN (CHOOSE n \in found : TRUE) \o <<"sp">>
                                            ELSE CommonPrefix(found))
  OBVIOUS
<1>4. Shown("command") /\ Byte("tab") /\ s \in Line /\ Edited(l)
  BY <1>1, <1>2, <1>3 DEF CommandTab, Filled
<1>5. <<"msg">> \in Bytes /\ <<"sp">> \in Bytes
  BY CharacterWhole DEF Typable, Printable, Second
<1>6. found \subseteq Bytes
  BY <1>2, KeyAssumption DEF Bytes
<1>7. CASE s = <<>> \/ s[1] # "msg" \/ found = {}
  BY <1>3, <1>4, <1>7
<1>8. CASE ~(s = <<>> \/ s[1] # "msg" \/ found = {})
  <2>1. CASE Cardinality(found) = 1
    <3> DEFINE n == CHOOSE n \in found : TRUE
    <3>1. n \in Bytes
      BY <1>6, <1>8
    <3> HIDE DEF n
    <3>2. <<"msg">> \o (n \o <<"sp">>) \in Bytes
      BY <1>5, <3>1, BytesConcat
    <3>3. l = Filled(<<"msg">> \o (n \o <<"sp">>))
      BY <1>3, <1>8, <2>1 DEF n
    <3>4. l \in Line
      BY <3>2, <3>3, FilledType
    <3> QED BY <1>4, <3>4
  <2>2. CASE Cardinality(found) # 1
    <3>1. CommonPrefix(found) \in Bytes
      BY <1>6, <1>8, CommonPrefixType
    <3>2. <<"msg">> \o CommonPrefix(found) \in Bytes
      BY <1>5, <3>1, BytesConcat
    <3>3. l = Filled(<<"msg">> \o CommonPrefix(found))
      BY <1>3, <1>8, <2>2
    <3>4. l \in Line
      BY <3>2, <3>3, FilledType
    <3> QED BY <1>4, <3>4
  <2> QED BY <2>1, <2>2
<1> QED BY <1>7, <1>8

-----------------------------------------------------------------------------
(* What every step of the session does, apart from its name.               *)

(* The input line changes, and is sent, only while the user sees it.       *)
Drafted == text'.insert # text.insert \/ sent' # sent => Shown("insert")

Kept ==
    /\ pc \notin {"name", "name2"} /\ pc' \notin {"name", "name2"}
    /\ Flags' /\ Placed'
    /\ TextOK(text') /\ HistOK(hist')
    /\ enters' = enters
    /\ Drafted

LEMMA TookType ==
    ASSUME NEW l, NEW b, Took(l, b), chan \in Bytes
    PROVE  /\ pc = l /\ b \in Typable /\ chan' \in Bytes /\ enters' = enters
           /\ chan # <<>> /\ b = Head(chan) /\ chan' = Tail(chan)
<1>1. chan # <<>> /\ Head(chan) = b /\ chan' = Tail(chan)
  BY DEF Took
<1>2. Head(chan) \in Typable /\ Tail(chan) \in Bytes
  BY <1>1, HeadTailProperties DEF Bytes
<1> QED BY <1>1, <1>2 DEF Took, Quiet

LEMMA ReadsType ==
    ASSUME NEW n \in Nat, NEW k, Reads(n, k), chan \in Bytes
    PROVE  /\ k \in 0 .. Len(chan) /\ SubSeq(chan, 1, k) \in Bytes
           /\ chan' \in Bytes /\ enters' = enters
<1>1. /\ k \in 0 .. n /\ k <= Len(chan) /\ enters' = enters
      /\ chan' = SubSeq(chan, k + 1, Len(chan))
  BY DEF Reads, Quiet
<1>2. Len(chan) \in Nat
  BY LenProperties DEF Bytes
<1>3. k \in 0 .. Len(chan)
  BY <1>1, <1>2
<1>4. SubSeq(chan, 1, k) \in Bytes
  BY <1>3, PrefixType
<1>5. \A i \in k + 1 .. Len(chan) : chan[i] \in Typable
  BY <1>2, <1>3, ElementOfSeq DEF Bytes
<1>6. SubSeq(chan, k + 1, Len(chan)) \in Bytes
  BY <1>2, <1>3, <1>5, SubSeqProperties DEF Bytes
<1> QED BY <1>1, <1>3, <1>4, <1>6

LEMMA TextSet ==
    ASSUME NEW t, TextOK(t), NEW m \in Fields, NEW s \in Line, m = "insert" => Whole(s),
           NEW u, u = [t EXCEPT ![m] = s]
    PROVE  TextOK(u) /\ (m = "command" => u.insert = t.insert)
<1>1. t \in [Fields -> Line] /\ Whole(t.insert)
  BY DEF TextOK
<1>2. u \in [Fields -> Line]
  BY <1>1
<1>3. CASE m = "insert"
  <2>1. u.insert = s
    BY <1>1, <1>3 DEF Fields
  <2> QED BY <1>2, <1>3, <2>1 DEF TextOK
<1>4. CASE m = "command"
  <2>1. u.insert = t.insert
    BY <1>1, <1>4 DEF Fields
  <2> QED BY <1>1, <1>2, <2>1 DEF TextOK
<1> QED BY <1>3, <1>4 DEF Fields

LEMMA TextTyped ==
    ASSUME TextOK(text)
    PROVE  /\ \A m \in Fields : text[m] \in Line
           /\ Fits(text.insert, InputSize)
           /\ text.insert \in Line /\ text.command \in Line
           /\ \A m \in Fields : m = "insert" => text[m] = text.insert
  BY DEF TextOK, Fields, Fits, Line

(* A step that leaves lines and rings alone.                               *)
LEMMA NothingEdited ==
    ASSUME KeyInv, pc \notin {"name", "name2"}, pc' \notin {"name", "name2"},
           Flags', Placed', enters' = enters, UNCHANGED <<text, hist, saved>>
    PROVE  Kept
  BY DEF KeyInv, Kept, Drafted, saved

(* A step that puts a new text into the line that is edited.               *)
LEMMA LineEdited ==
    ASSUME KeyInv, Editing, pc \notin {"name", "name2"}, NEW s \in Line,
           mode = "insert" => Whole(s), Edited(s), chan' \in Bytes, enters' = enters
    PROVE  Kept
<1>1. /\ mode \in Fields /\ overlay = "none"
      /\ text' = [text EXCEPT ![mode] = s] /\ pc' = "loop"
      /\ mode' = mode /\ overlay' = overlay /\ hist' = hist /\ part' = part
      /\ sent' = sent
  BY DEF Editing, Edited, Goto, Fields, ui, saved
<1>2. TextOK(text') /\ (mode = "command" => text'.insert = text.insert)
  BY <1>1, TextSet DEF KeyInv
<1>3. Flags' /\ Placed'
  BY <1>1 DEF KeyInv, Flags, Places, Placed
<1>4. HistOK(hist')
  BY <1>1 DEF KeyInv
<1>5. mode = "insert" \/ mode = "command"
  BY <1>1 DEF Fields
<1>6. Drafted
  BY <1>1, <1>2, <1>5 DEF Drafted, Shown
<1> QED BY <1>1, <1>2, <1>3, <1>4, <1>6 DEF Kept

(* To NORMAL mode; the command line, and only that, is cleared.            *)
LEMMA NormalKept ==
    ASSUME KeyInv, pc \notin {"name", "name2"}, ToNormal, pc' = "loop", chan' \in Bytes,
           enters' = enters, UNCHANGED <<part, saved>>, HistOK(hist')
    PROVE  Kept
<1>1. <<>> \in Line
  BY RecordAssumption, CharacterWhole DEF Line
<1>2. TextOK(text') /\ text'.insert = text.insert
  <2>1. CASE mode = "command"
    <3>1. text' = [text EXCEPT !["command"] = <<>>]
      BY <2>1 DEF ToNormal
    <3> QED BY <1>1, <3>1, TextSet DEF KeyInv, Fields
  <2>2. CASE mode # "command"
    BY <2>2 DEF ToNormal, KeyInv
  <2> QED BY <2>1, <2>2
<1>3. Flags' /\ Placed'
  BY DEF KeyInv, Flags, Places, Placed, ToNormal, saved
<1>4. Drafted
  BY <1>2 DEF Drafted, saved
<1> QED BY <1>2, <1>3, <1>4 DEF Kept

LEMMA CloseFlags ==
    ASSUME KeyInv, Close
    PROVE  overlay' = "none" /\ mode' \in {"insert", "normal", "command"}
  BY DEF KeyInv, Flags, Close

(* On the command line the bytes need not be whole characters.             *)
LEMMA AppendLine ==
    ASSUME NEW s \in Line, NEW b \in Bytes
    PROVE  AppendBytes(s, b) \in Line
<1>1. InputSize \in Nat /\ Len(s) \in Nat /\ Len(b) \in Nat /\ s \in Bytes
  BY RecordAssumption, LenProperties DEF Line, Bytes
<1>2. s \o b \in Bytes /\ Len(s \o b) = Len(s) + Len(b)
  BY <1>1, BytesConcat
<1> QED BY <1>1, <1>2 DEF Line, AppendBytes

LEMMA RemoveLine ==
    ASSUME NEW s \in Line
    PROVE  RemoveLast(s) \in Line /\ RemoveWord(s) \in Line
<1>1. InputSize \in Nat /\ Len(s) \in Nat /\ s \in Bytes /\ Len(s) < InputSize
  BY RecordAssumption, LenProperties DEF Line, Bytes
<1>2. ASSUME NEW k \in 0 .. Len(s)
      PROVE  SubSeq(s, 1, k) \in Line
  BY <1>1, PrefixType DEF Line
<1>3. RemoveLast(s) \in Line
  <2>1. CASE s = <<>>
    BY <2>1 DEF RemoveLast
  <2>2. CASE s # <<>> /\ s[Len(s)] \in Second /\ Len(s) > 1
    <3>1. Len(s) - 2 \in 0 .. Len(s) /\ RemoveLast(s) = SubSeq(s, 1, Len(s) - 2)
      BY <1>1, <2>2 DEF RemoveLast, Last
    <3> QED BY <1>2, <3>1
  <2>3. CASE s # <<>> /\ ~(s[Len(s)] \in Second /\ Len(s) > 1)
    <3>1. Len(s) > 0
      BY <1>1, <2>3, EmptySeq DEF Bytes
    <3>2. Len(s) - 1 \in 0 .. Len(s) /\ RemoveLast(s) = SubSeq(s, 1, Len(s) - 1)
      BY <1>1, <2>3, <3>1 DEF RemoveLast, Last, Front
    <3> QED BY <1>2, <3>2
  <2> QED BY <2>1, <2>2, <2>3
<1>4. RemoveWord(s) \in Line
  <2> DEFINE before == {k \in 0 .. Len(s) : /\ k = 0 \/ s[k] = "sp"
                                            /\ \E i \in k + 1 .. Len(s) : s[i] # "sp"}
  <2>1. RemoveWord(s) = IF before = {} THEN <<>> ELSE SubSeq(s, 1, Max(before))
    BY DEF RemoveWord
  <2>2. before \in SUBSET (0 .. Len(s))
    OBVIOUS
  <2> HIDE DEF before
  <2>3. CASE before = {}
    BY <1>1, <2>1, <2>3, CharacterWhole DEF Line
  <2>4. CASE before # {}
    <3>1. Max(before) \in before
      BY <1>1, <2>2, <2>4, GreatestNatural
    <3>2. Max(before) \in 0 .. Len(s)
      BY <2>2, <3>1
    <3> QED BY <1>2, <2>1, <2>4, <3>2
  <2> QED BY <2>3, <2>4
<1> QED BY <1>3, <1>4

-----------------------------------------------------------------------------
(* The steps of handle_key.                                                *)

LEMMA CtrlCKept ==
    ASSUME KeyInv, CtrlC
    PROVE  Kept
<1>1. pc = "loop" /\ chan' \in Bytes /\ enters' = enters
  BY TookType DEF CtrlC, Byte, KeyInv, Flags
<1>2. UNCHANGED <<hist, part, saved>>
  BY DEF CtrlC
<1>3. CASE overlay # "none" /\ Close /\ Goto("loop") /\ UNCHANGED text
  <2>1. Flags' /\ Placed'
    BY <1>1, <1>2, <1>3, CloseFlags DEF KeyInv, Flags, Places, Placed, Goto, saved
  <2> QED BY <1>1, <1>2, <1>3, <2>1, NothingEdited DEF Goto
<1>4. CASE overlay = "none" /\ mode # "normal" /\ ToNormal /\ Goto("loop")
  BY <1>1, <1>2, <1>4, NormalKept DEF Goto, KeyInv
<1>5. CASE Shown("normal") /\ Goto("out") /\ UNCHANGED <<ui, text>>
  <2>1. Flags' /\ Placed'
    BY <1>1, <1>2, <1>5 DEF KeyInv, Flags, Places, Placed, Goto, saved, ui
  <2> QED BY <1>1, <1>2, <1>5, <2>1, NothingEdited DEF Goto
<1> QED BY <1>3, <1>4, <1>5 DEF CtrlC

LEMMA PagerKept ==
    ASSUME KeyInv, NEW b, PagerKey(b)
    PROVE  Kept
<1>1. pc = "loop" /\ chan' \in Bytes /\ enters' = enters
  BY TookType DEF PagerKey, Byte, KeyInv, Flags
<1>2. UNCHANGED <<text, hist, part, saved>> /\ overlay # "none"
  BY DEF PagerKey
<1>3. /\ pc' \in {"loop", "esc"}
      /\ overlay' \in {"none", "help", "output", "motd"}
      /\ mode' \in {"insert", "normal", "command"}
  <2>1. CASE overlay = "motd" \/ b = "q"
    <3>1. Close /\ Goto("loop")
      BY <2>1 DEF PagerKey
    <3> QED BY <3>1, CloseFlags DEF Goto
  <2>2. CASE overlay # "motd" /\ b = "esc"
    <3>1. Goto("esc") /\ UNCHANGED ui
      BY <2>2 DEF PagerKey
    <3> QED BY <3>1 DEF Goto, ui, KeyInv, Flags
  <2>3. CASE ~(overlay = "motd" \/ b = "q") /\ ~(overlay # "motd" /\ b = "esc")
    <3>1. Goto("loop") /\ UNCHANGED ui
      BY <2>3 DEF PagerKey
    <3> QED BY <3>1 DEF Goto, ui, KeyInv, Flags
  <2> QED BY <2>1, <2>2, <2>3
<1>4. Flags' /\ Placed'
  BY <1>1, <1>2, <1>3 DEF KeyInv, Flags, Places, Placed, saved
<1> QED BY <1>1, <1>2, <1>3, <1>4, NothingEdited

LEMMA NormalKeyKept ==
    ASSUME KeyInv, NEW b, NormalKey(b)
    PROVE  Kept
<1>1. pc = "loop" /\ chan' \in Bytes /\ enters' = enters
  BY TookType DEF NormalKey, Byte, KeyInv, Flags
<1>2. /\ UNCHANGED <<hist, part, saved>> /\ pc' \in {"loop", "esc"}
      /\ overlay' \in {"none", "help"}
      /\ mode' \in {"insert", "normal", "command"}
  BY DEF NormalKey, Goto
<1>3. Flags' /\ Placed'
  BY <1>1, <1>2 DEF KeyInv, Flags, Places, Placed, saved
<1>4. <<>> \in Line
  BY RecordAssumption, CharacterWhole DEF Line
<1>5. TextOK(text') /\ text'.insert = text.insert
  <2>1. CASE b = ":"
    <3>1. text' = [text EXCEPT !["command"] = <<>>]
      BY <2>1 DEF NormalKey
    <3> QED BY <1>4, <3>1, TextSet DEF KeyInv, Fields
  <2>2. CASE b # ":"
    BY <2>2 DEF NormalKey, KeyInv
  <2> QED BY <2>1, <2>2
<1>6. Drafted /\ HistOK(hist')
  BY <1>2, <1>5 DEF Drafted, saved, KeyInv
<1> QED BY <1>1, <1>2, <1>3, <1>5, <1>6 DEF Kept

(* Printable bytes and the editing keys.                                   *)
LEMMA EditKept ==
    ASSUME KeyInv, NEW b, Char(b) \/ Backspace \/ CtrlW \/ CtrlU
    PROVE  Kept
<1>1. Editing /\ mode \in Fields
  BY DEF Char, Backspace, CtrlW, CtrlU, Editing, Fields
<1>2. pc = "loop" /\ chan' \in Bytes /\ enters' = enters
  BY TookType DEF Char, Backspace, CtrlW, CtrlU, Byte, KeyInv, Flags
<1>3. InputSize \in Nat /\ text[mode] \in Line
  BY <1>1, RecordAssumption, TextTyped DEF KeyInv
<1>4. ASSUME NEW s \in Line, mode = "insert" => Whole(s), Edited(s)
      PROVE  Kept
  BY <1>1, <1>2, <1>4, LineEdited
<1>5. mode = "insert" => Fits(text[mode], InputSize)
  BY <1>1, TextTyped DEF KeyInv
<1>6. CASE Char(b)
  <2>1. b \in Printable /\ b \in Typable /\ b # "lead" /\ b \notin Second
    BY <1>6 DEF Char, Typable, Printable, Digits, Second
  <2>2. <<b>> \in Bytes /\ Whole(<<b>>) /\ Len(<<b>>) = 1
    BY <2>1, CharacterWhole
  <2>3. AppendBytes(text[mode], <<b>>) \in Line
    BY <1>3, <2>2, AppendLine
  <2>4. mode = "insert" => Whole(AppendBytes(text[mode], <<b>>))
    BY <1>5, <2>2, AppendFits DEF Fits
  <2> QED BY <1>4, <1>6, <2>3, <2>4 DEF Char
<1>7. CASE Backspace
  <2>1. RemoveLast(text[mode]) \in Line
    BY <1>3, RemoveLine
  <2>2. mode = "insert" => Whole(RemoveLast(text[mode]))
    BY <1>3, <1>5, RemoveLastFits DEF Fits
  <2> QED BY <1>4, <1>7, <2>1, <2>2 DEF Backspace
<1>8. CASE CtrlW
  <2>1. RemoveWord(text[mode]) \in Line
    BY <1>3, RemoveLine
  <2>2. mode = "insert" => Whole(RemoveWord(text[mode]))
    BY <1>3, <1>5, RemoveWordFits DEF Fits
  <2> QED BY <1>4, <1>8, <2>1, <2>2 DEF CtrlW
<1>9. CASE CtrlU
  <2>1. <<>> \in Line /\ Whole(<<>>)
    BY RecordAssumption, CharacterWhole DEF Line
  <2> QED BY <1>4, <1>9, <2>1 DEF CtrlU
<1> QED BY <1>6, <1>7, <1>8, <1>9

LEMMA LeadKept ==
    ASSUME KeyInv, NEW b, Lead(b) \/ LeadNext(b) \/ LeadLate \/ Escape
    PROVE  Kept
<1>1. text[mode] \in Line /\ mode \in Fields => text[mode] \in Line
  OBVIOUS
<1>2. CASE Lead(b) \/ Escape
  <2>1. /\ pc = "loop" /\ chan' \in Bytes /\ enters' = enters /\ Editing
        /\ UNCHANGED <<ui, text, hist, part, saved>>
        /\ pc' \in {"lead", "loop", "esc"}
    BY <1>2, TookType DEF Lead, Escape, Byte, KeyInv, Flags, Goto
  <2>2. Flags' /\ Placed'
    BY <2>1 DEF KeyInv, Flags, Places, Placed, saved, ui, Editing
  <2> QED BY <2>1, <2>2, NothingEdited
<1>3. CASE LeadNext(b) \/ LeadLate
  <2>1. pc = "lead" /\ chan' \in Bytes /\ enters' = enters /\ overlay = "none"
    <3>1. CASE LeadNext(b)
      BY <3>1, TookType DEF LeadNext, KeyInv, Flags, Placed
    <3>2. CASE LeadLate
      BY <3>2 DEF LeadLate, Late, Quiet, KeyInv, Flags, Placed
    <3> QED BY <1>3, <3>1, <3>2
  <2>2. PICK s : /\ Edited(s)
                 /\ s = text[mode] \/ (b \in Second /\ s = AppendBytes(text[mode], <<"lead", b>>))
    <3>1. CASE LeadNext(b)
      BY <3>1 DEF LeadNext
    <3>2. CASE LeadLate
      BY <3>2 DEF LeadLate
    <3> QED BY <1>3, <3>1, <3>2
  <2>3. CASE mode \in Fields
    <3>1. Editing
      BY <2>1, <2>3 DEF Editing, Fields
    <3>2. text[mode] \in Line
      BY <2>3, TextTyped DEF KeyInv
    <3>3. mode = "insert" => Fits(text[mode], InputSize)
      BY <2>3, TextTyped DEF KeyInv
    <3>4. s \in Line /\ (mode = "insert" => Whole(s))
      <4>1. CASE s = text[mode]
        BY <3>2, <3>3, <4>1 DEF Fits
      <4>2. CASE b \in Second /\ s = AppendBytes(text[mode], <<"lead", b>>)
        <5>1. <<"lead", b>> \in Bytes /\ Whole(<<"lead", b>>)
          BY <4>2, CharacterWhole
        <5>2. s \in Line
          BY <3>2, <4>2, <5>1, AppendLine
        <5>3. mode = "insert" => Whole(s)
          BY <3>3, <4>2, <5>1, AppendFits DEF Fits
        <5> QED BY <5>2, <5>3
      <4> QED BY <2>2, <4>1, <4>2
    <3> QED BY <2>1, <2>2, <3>1, <3>4, LineEdited
  <2>4. CASE mode \notin Fields
    <3>1. text' = text
      BY <2>2, <2>4 DEF Edited, KeyInv, TextOK
    <3>2. Flags' /\ Placed'
      BY <2>1, <2>2 DEF KeyInv, Flags, Places, Placed, saved, ui, Edited, Goto
    <3> QED BY <2>1, <2>2, <3>1, <3>2, NothingEdited DEF Edited, Goto
  <2> QED BY <2>3, <2>4
<1> QED BY <1>2, <1>3

LEMMA EnterKept ==
    ASSUME KeyInv, Enter
    PROVE  Kept
<1>1. /\ pc = "loop" /\ pc' = "loop" /\ chan' \in Bytes /\ enters' = enters
      /\ UNCHANGED <<ui, part>> /\ Shown("insert")
  BY TookType DEF Enter, Byte, KeyInv, Flags, Goto
<1>2. CASE text.insert = <<>>
  <2>1. UNCHANGED <<text, hist, saved>>
    BY <1>2 DEF Enter
  <2>2. Flags' /\ Placed'
    BY <1>1, <2>1 DEF KeyInv, Flags, Places, Placed, saved, ui
  <2> QED BY <1>1, <2>1, <2>2, NothingEdited
<1>3. CASE text.insert # <<>>
  <2>1. /\ hist' = [hist EXCEPT !["insert"] = Remember(@, text.insert)]
        /\ sent' = sent + 1
        /\ text' = [text EXCEPT !["insert"] = <<>>]
    BY <1>3 DEF Enter
  <2>2. <<>> \in Line /\ Whole(<<>>)
    BY RecordAssumption, CharacterWhole DEF Line
  <2>3. TextOK(text')
    BY <2>1, <2>2, TextSet DEF KeyInv, Fields
  <2>4. hist \in [Fields -> Ring] /\ hist["insert"] \in Ring /\ WholeItems(hist["insert"])
    BY DEF KeyInv, HistOK, Fields
  <2>5. PICK r : r = Remember(hist["insert"], text.insert)
    OBVIOUS
  <2>6. r \in Ring /\ WholeItems(r)
    <3>1. text.insert \in Line /\ Whole(text.insert)
      BY TextTyped DEF KeyInv, Fits
    <3> QED BY <2>4, <2>5, <3>1, RememberKept
  <2>7. hist' = [hist EXCEPT !["insert"] = r]
    BY <2>1, <2>4, <2>5
  <2>8. hist' \in [Fields -> Ring] /\ hist'["insert"] = r
    BY <2>4, <2>6, <2>7 DEF Fields
  <2>9. HistOK(hist')
    BY <2>6, <2>8 DEF HistOK
  <2>10. Flags' /\ Placed' /\ Drafted
    BY <1>1, <2>1 DEF KeyInv, Flags, Places, Placed, ui, Drafted
  <2> QED BY <1>1, <2>3, <2>9, <2>10 DEF Kept
<1> QED BY <1>2, <1>3

LEMMA DispatchKept ==
    ASSUME KeyInv, Dispatch
    PROVE  Kept
<1>1. PICK s : s = text.command
  OBVIOUS
<1>2. PICK cmd : cmd = IF s # <<>> /\ s[1] = ":" THEN Tail(s) ELSE s
  OBVIOUS
<1>3. /\ pc = "loop" /\ chan' \in Bytes /\ enters' = enters
      /\ UNCHANGED <<part, saved>> /\ Shown("command")
  BY TookType DEF Dispatch, Byte, KeyInv, Flags
<1>4. IF cmd = <<>> THEN ToNormal /\ Goto("loop") /\ UNCHANGED hist
      ELSE /\ hist' = [hist EXCEPT !["command"] = Remember(@, cmd)]
           /\ \/ /\ overlay' = "output"
                 /\ text' = [text EXCEPT !["command"] = <<>>]
                 /\ Goto("loop") /\ UNCHANGED mode
              \/ Goto("out") /\ UNCHANGED <<ui, text>>
  BY <1>1, <1>2 DEF Dispatch
<1>5. s \in Line
  BY <1>1, TextTyped DEF KeyInv
<1>6. CASE cmd = <<>>
  BY <1>3, <1>4, <1>6, NormalKept DEF Goto, KeyInv
<1>7. CASE cmd # <<>>
  <2>1. cmd \in Line
    <3>1. CASE s # <<>> /\ s[1] = ":"
      <4>1. s \in Bytes /\ Len(s) \in Nat /\ Len(s) < InputSize /\ InputSize \in Nat
        BY <1>5, RecordAssumption, LenProperties DEF Line, Bytes
      <4>2. Tail(s) \in Bytes /\ Len(Tail(s)) = Len(s) - 1
        BY <3>1, <4>1, HeadTailProperties DEF Bytes
      <4> QED BY <1>2, <3>1, <4>1, <4>2 DEF Line
    <3>2. CASE ~(s # <<>> /\ s[1] = ":")
      BY <1>2, <1>5, <3>2
    <3> QED BY <3>1, <3>2
  <2>2. hist \in [Fields -> Ring] /\ hist["command"] \in Ring /\ WholeItems(hist["insert"])
    BY DEF KeyInv, HistOK, Fields
  <2>3. PICK r : r = Remember(hist["command"], cmd)
    OBVIOUS
  <2>4. r \in Ring
    BY <2>1, <2>2, <2>3, RememberKept
  <2>5. hist' = [hist EXCEPT !["command"] = r]
    BY <1>4, <1>7, <2>2, <2>3
  <2>6. hist' \in [Fields -> Ring] /\ hist'["insert"] = hist["insert"]
    BY <2>2, <2>4, <2>5 DEF Fields
  <2>7. HistOK(hist')
    BY <2>2, <2>6 DEF HistOK
  <2>8. CASE /\ overlay' = "output"
             /\ text' = [text EXCEPT !["command"] = <<>>]
             /\ Goto("loop") /\ UNCHANGED mode
    <3>1. <<>> \in Line
      BY RecordAssumption, CharacterWhole DEF Line
    <3>2. TextOK(text') /\ text'.insert = text.insert
      BY <2>8, <3>1, TextSet DEF KeyInv, Fields
    <3>3. Flags' /\ Placed' /\ Drafted
      BY <1>3, <2>8, <3>2 DEF KeyInv, Flags, Places, Placed, Drafted, Goto, saved
    <3> QED BY <1>3, <2>7, <2>8, <3>2, <3>3 DEF Kept, Goto
  <2>9. CASE Goto("out") /\ UNCHANGED <<ui, text>>
    <3>1. Flags' /\ Placed' /\ Drafted
      BY <1>3, <2>9 DEF KeyInv, Flags, Places, Placed, Drafted, Goto, saved, ui
    <3> QED BY <1>3, <2>7, <2>9, <3>1 DEF Kept, Goto, KeyInv
  <2> QED BY <1>4, <1>7, <2>8, <2>9
<1> QED BY <1>6, <1>7

LEMMA TabKept ==
    ASSUME KeyInv, MentionTab \/ CommandTab
    PROVE  Kept
<1>1. text.insert \in Line /\ Whole(text.insert) /\ text.command \in Line
  BY TextTyped DEF KeyInv, Fits
<1>2. CASE MentionTab
  <2>1. PICK s : s = text.insert
    OBVIOUS
  <2>2. PICK ats : ats = {i \in 1 .. Len(s) : /\ s[i] = "@"
                                              /\ i = 1 \/ s[i - 1] = "sp"
                                              /\ \A j \in i + 1 .. Len(s) : s[j] \notin {"sp", "@"}}
    OBVIOUS
  <2>3. /\ Shown("insert") /\ Byte("tab")
        /\ \/ Edited(s)
           \/ \E i \in ats, n \in Names :
                 Edited(IF Len(SubSeq(s, 1, i) \o n \o <<"sp">>) < InputSize
                        THEN SubSeq(s, 1, i) \o n \o <<"sp">> ELSE s)
    BY <1>2, <2>1, <2>2 DEF MentionTab
  <2>4. /\ pc = "loop" /\ chan' \in Bytes /\ enters' = enters /\ Editing
    BY <2>3, TookType DEF Byte, KeyInv, Flags, Editing, Shown
  <2>5. s \in Line /\ Whole(s) /\ s \in Bytes
    BY <1>1, <2>1 DEF Line
  <2>6. CASE Edited(s)
    BY <2>4, <2>5, <2>6, LineEdited
  <2>7. CASE \E i \in ats, n \in Names :
                 Edited(IF Len(SubSeq(s, 1, i) \o n \o <<"sp">>) < InputSize
                        THEN SubSeq(s, 1, i) \o n \o <<"sp">> ELSE s)
    <3>1. PICK i \in ats, n \in Names :
             Edited(IF Len(SubSeq(s, 1, i) \o n \o <<"sp">>) < InputSize
                    THEN SubSeq(s, 1, i) \o n \o <<"sp">> ELSE s)
      BY <2>7
    <3>2. i \in 1 .. Len(s) /\ s[i] = "@"
      BY <2>2
    <3>3. PICK l : l = SubSeq(s, 1, i) \o n \o <<"sp">>
      OBVIOUS
    <3>4. l \in Bytes /\ Whole(l)
      BY <2>5, <3>2, <3>3, CompletedWhole
    <3>5. CASE Len(l) < InputSize
      <4>1. Edited(l) /\ l \in Line
        BY <3>1, <3>3, <3>4, <3>5 DEF Line
      <4> QED BY <2>4, <3>4, <4>1, LineEdited
    <3>6. CASE ~(Len(l) < InputSize)
      <4>1. Edited(s)
        BY <3>1, <3>3, <3>6
      <4> QED BY <2>4, <2>5, <4>1, LineEdited
    <3> QED BY <3>5, <3>6
  <2> QED BY <2>3, <2>6, <2>7
<1>3. CASE CommandTab
  <2>1. PICK l \in Line : Edited(l) /\ Shown("command") /\ Byte("tab")
    BY <1>1, <1>3, CommandTabType
  <2>2. /\ pc = "loop" /\ chan' \in Bytes /\ enters' = enters /\ Editing /\ mode # "insert"
    BY <2>1, TookType DEF Byte, KeyInv, Flags, Editing, Shown
  <2> QED BY <2>1, <2>2, LineEdited
<1> QED BY <1>2, <1>3

(* ESC, and what follows it.                                               *)
LEMMA PlainEscapeKept ==
    ASSUME KeyInv, pc \notin {"name", "name2"}, NEW alone \in BOOLEAN, PlainEscape(alone),
           chan' \in Bytes, enters' = enters
    PROVE  Kept
<1>1. pc' = "loop" /\ UNCHANGED <<hist, part, saved>>
  BY DEF PlainEscape, Goto
<1>2. CASE overlay # "none" /\ alone
  <2>1. Close /\ UNCHANGED text
    BY <1>2 DEF PlainEscape, Editing
  <2>2. Flags' /\ Placed'
    BY <1>1, <2>1, CloseFlags DEF KeyInv, Flags, Places, Placed, saved
  <2> QED BY <1>1, <2>1, <2>2, NothingEdited
<1>3. CASE Editing
  <2>1. ToNormal
    BY <1>3 DEF PlainEscape, Editing
  <2> QED BY <1>1, <2>1, NormalKept DEF KeyInv
<1>4. CASE ~(overlay # "none" /\ alone) /\ ~Editing
  <2>1. UNCHANGED <<ui, text>>
    BY <1>4 DEF PlainEscape
  <2>2. Flags' /\ Placed'
    BY <1>1, <2>1 DEF KeyInv, Flags, Places, Placed, saved, ui
  <2> QED BY <1>1, <2>1, <2>2, NothingEdited
<1> QED BY <1>2, <1>3, <1>4

LEMMA EscapeKept ==
    ASSUME KeyInv, NEW b, EscNext(b) \/ EscLate \/ BracketLate
    PROVE  Kept
<1>1. CASE EscNext(b)
  <2>1. pc = "esc" /\ chan' \in Bytes /\ enters' = enters
    BY <1>1, TookType DEF EscNext, KeyInv, Flags
  <2>2. CASE b = "["
    <3>1. pc' = "bracket" /\ UNCHANGED <<ui, text, hist, part, saved>>
      BY <1>1, <2>2 DEF EscNext, Goto
    <3>2. Flags' /\ Placed'
      BY <2>1, <3>1 DEF KeyInv, Flags, Places, Placed, saved, ui
    <3> QED BY <2>1, <3>1, <3>2, NothingEdited
  <2>3. CASE b # "["
    <3>1. PlainEscape(FALSE)
      BY <1>1, <2>3 DEF EscNext
    <3> QED BY <2>1, <3>1, PlainEscapeKept
  <2> QED BY <2>2, <2>3
<1>2. CASE EscLate
  <2>1. pc = "esc" /\ chan' \in Bytes /\ enters' = enters /\ PlainEscape(TRUE)
    BY <1>2 DEF EscLate, Late, Quiet, KeyInv, Flags
  <2> QED BY <2>1, PlainEscapeKept
<1>3. CASE BracketLate
  <2>1. pc = "bracket" /\ chan' \in Bytes /\ enters' = enters /\ PlainEscape(FALSE)
    BY <1>3 DEF BracketLate, Late, Quiet, KeyInv, Flags
  <2> QED BY <2>1, PlainEscapeKept
<1> QED BY <1>1, <1>2, <1>3

LEMMA BracketKept ==
    ASSUME KeyInv, NEW b, BracketNext(b)
    PROVE  Kept
<1>1. pc = "bracket" /\ chan' \in Bytes /\ enters' = enters
  BY TookType DEF BracketNext, KeyInv, Flags
<1>2. CASE Editing /\ b \in {"A", "B"}
  <2>1. mode \in Fields /\ (mode = "insert" \/ mode = "command") /\ overlay = "none"
    BY <1>2 DEF Editing, Fields
  <2>2. PICK r : r = Recall(hist[mode], b, text[mode])
    OBVIOUS
  <2>3. /\ text' = [text EXCEPT ![mode] = r.text]
        /\ hist' = [hist EXCEPT ![mode].pos = r.pos]
        /\ pc' = "loop" /\ UNCHANGED <<ui, part, saved>>
    BY <1>2, <2>2 DEF BracketNext, Goto, Shown, Editing
  <2>4. hist \in [Fields -> Ring] /\ hist[mode] \in Ring /\ text[mode] \in Line
    BY <2>1, TextTyped DEF KeyInv, HistOK
  <2>5. /\ r.pos \in Nat /\ r.pos <= Len(hist[mode].items) /\ r.text \in Line
        /\ WholeItems(hist[mode]) /\ Whole(text[mode]) => Whole(r.text)
    BY <1>2, <2>2, <2>4, RecallKept
  <2>6. mode = "insert" => WholeItems(hist[mode]) /\ Whole(text[mode])
    BY DEF KeyInv, HistOK, TextOK
  <2>7. TextOK(text') /\ (mode = "command" => text'.insert = text.insert)
    BY <2>1, <2>3, <2>5, <2>6, TextSet DEF KeyInv
  <2>8. PICK q : q = [hist[mode] EXCEPT !.pos = r.pos]
    OBVIOUS
  <2>9. q \in Ring /\ q.items = hist[mode].items
    BY <2>4, <2>5, <2>8 DEF Ring
  <2>10. hist' = [hist EXCEPT ![mode] = q]
    BY <2>3, <2>8
  <2>11. hist' \in [Fields -> Ring] /\ hist'["insert"].items = hist["insert"].items
    <3>1. hist' \in [Fields -> Ring]
      BY <2>1, <2>4, <2>9, <2>10
    <3>2. CASE mode = "insert"
      <4>1. hist'["insert"] = q
        BY <2>1, <2>4, <2>10, <3>2
      <4> QED BY <2>9, <3>1, <3>2, <4>1
    <3>3. CASE mode = "command"
      <4>1. hist'["insert"] = hist["insert"]
        BY <2>4, <2>10, <3>3 DEF Fields
      <4> QED BY <3>1, <4>1
    <3> QED BY <2>1, <3>2, <3>3
  <2>12. HistOK(hist')
    <3>1. WholeItems(hist["insert"])
      BY DEF KeyInv, HistOK
    <3>2. WholeItems(hist'["insert"])
      BY <2>11, <3>1 DEF WholeItems
    <3> QED BY <2>11, <3>2 DEF HistOK
  <2>13. Flags' /\ Placed' /\ Drafted
    BY <1>1, <2>1, <2>3, <2>7 DEF KeyInv, Flags, Places, Placed, saved, ui, Drafted, Shown
  <2> QED BY <1>1, <2>3, <2>7, <2>12, <2>13 DEF Kept
<1>3. CASE Shown("insert") /\ b = "2"
  <2>1. pc' = "start" /\ UNCHANGED <<ui, text, hist, part, saved>>
    BY <1>3 DEF BracketNext, Goto, Shown, Editing
  <2>2. Flags' /\ Placed'
    BY <1>1, <1>3, <2>1 DEF KeyInv, Flags, Places, Placed, saved, ui, Shown
  <2> QED BY <1>1, <2>1, <2>2, NothingEdited
<1>4. CASE ~Editing /\ b \in {"1", "2"}
  <2>1. pc' = "tilde" /\ UNCHANGED <<ui, text, hist, part, saved>>
    BY <1>4 DEF BracketNext, Goto, Shown, Editing
  <2>2. Flags' /\ Placed'
    BY <1>1, <2>1 DEF KeyInv, Flags, Places, Placed, saved, ui
  <2> QED BY <1>1, <2>1, <2>2, NothingEdited
<1>5. CASE /\ ~(Editing /\ b \in {"A", "B"})
           /\ ~(Shown("insert") /\ b = "2")
           /\ ~(~Editing /\ b \in {"1", "2"})
  <2>1. PlainEscape(FALSE)
    BY <1>5 DEF BracketNext
  <2> QED BY <1>1, <2>1, PlainEscapeKept
<1> QED BY <1>2, <1>3, <1>4, <1>5

LEMMA TildeKept ==
    ASSUME KeyInv, Tilde
    PROVE  Kept
<1>1. pc = "tilde" /\ chan' \in Bytes /\ enters' = enters
  <2>1. CASE Late("tilde")
    BY <2>1 DEF Late, Quiet, KeyInv, Flags
  <2>2. CASE \E b \in ToSet(chan) : Took("tilde", b)
    BY <2>2, TookType DEF KeyInv, Flags
  <2> QED BY <2>1, <2>2 DEF Tilde
<1>2. pc' = "loop" /\ UNCHANGED <<ui, text, hist, part, saved>>
  BY DEF Tilde, Goto
<1>3. Flags' /\ Placed'
  BY <1>1, <1>2 DEF KeyInv, Flags, Places, Placed, saved, ui
<1> QED BY <1>1, <1>2, <1>3, NothingEdited

-----------------------------------------------------------------------------
(* Pastes.                                                                 *)

LEMMA StartPasteKept ==
    ASSUME KeyInv, NEW k, StartPaste(k)
    PROVE  Kept
<1>1. pc = "start" /\ chan' \in Bytes /\ enters' = enters /\ pc' \in {"paste", "loop"}
  BY ReadsType DEF StartPaste, KeyInv, Flags, Goto
<1>2. UNCHANGED <<ui, text, hist, part, saved>>
  BY DEF StartPaste
<1>3. Flags' /\ Placed'
  BY <1>1, <1>2 DEF KeyInv, Flags, Places, Placed, saved, ui, Shown
<1> QED BY <1>1, <1>2, <1>3, NothingEdited

LEMMA PasteStopKept ==
    ASSUME KeyInv, PasteEsc \/ PasteLate
    PROVE  Kept
<1>1. pc = "paste" /\ chan' \in Bytes /\ enters' = enters /\ pc' \in {"tail", "loop"}
  <2>1. CASE PasteEsc
    BY <2>1, TookType DEF PasteEsc, KeyInv, Flags, Goto
  <2>2. CASE PasteLate
    BY <2>2 DEF PasteLate, Late, Quiet, KeyInv, Flags, Goto
  <2> QED BY <2>1, <2>2
<1>2. UNCHANGED <<ui, text, hist, saved>> /\ part' \in {part, <<>>}
  BY DEF PasteEsc, PasteLate
<1>3. Flags' /\ Placed'
  BY <1>1, <1>2 DEF KeyInv, Flags, Places, Placed, saved, ui, Shown
<1> QED BY <1>1, <1>2, <1>3, NothingEdited

(* The line and paste_utf8 before the bytes of a paste, and after them.    *)
LEMMA StreamBegins ==
    ASSUME KeyInv
    PROVE  StreamOK([text |-> text.insert, part |-> part])
<1>1. Fits(text.insert, InputSize) /\ part \in {<<>>, <<"lead">>}
  BY TextTyped DEF KeyInv, Flags
<1> QED BY <1>1 DEF StreamOK

LEMMA StreamEnds ==
    ASSUME KeyInv, pc \in {"paste", "tail"}, NEW st, StreamOK(st),
           text' = [text EXCEPT !.insert = st.text], part' = st.part,
           UNCHANGED <<ui, hist, saved>>, pc' \in {"paste", "tail"},
           chan' \in Bytes, enters' = enters
    PROVE  Kept
<1>1. st.text \in Line /\ Whole(st.text) /\ st.part \in {<<>>, <<"lead">>}
  BY DEF StreamOK, Fits, Line
<1>2. TextOK(text')
  <2>1. text' = [text EXCEPT !["insert"] = st.text]
    OBVIOUS
  <2> QED BY <1>1, <2>1, TextSet DEF KeyInv, Fields
<1>3. Shown("insert")
  BY DEF KeyInv, Placed
<1>4. Flags' /\ Placed' /\ Drafted
  BY <1>1, <1>3 DEF KeyInv, Flags, Places, Placed, saved, ui, Shown, Drafted
<1> QED BY <1>2, <1>4 DEF Kept, KeyInv

LEMMA PasteByteKept ==
    ASSUME KeyInv, NEW b, PasteByte(b)
    PROVE  Kept
<1>1. pc = "paste" /\ chan' \in Bytes /\ enters' = enters /\ b \in Typable
  BY TookType DEF PasteByte, KeyInv, Flags
<1>2. PICK st : st = Stream([text |-> text.insert, part |-> part], b)
  OBVIOUS
<1>3. /\ text' = [text EXCEPT !.insert = st.text] /\ part' = st.part
      /\ UNCHANGED <<pc, ui, hist, saved>>
  BY <1>2 DEF PasteByte
<1>4. StreamOK(st)
  BY <1>1, <1>2, StreamBegins, StreamKept
<1> QED BY <1>1, <1>3, <1>4, StreamEnds

LEMMA PasteTailKept ==
    ASSUME KeyInv, NEW k, PasteTail(k)
    PROVE  Kept
<1>1. PICK tail : tail = SubSeq(chan, 1, k)
  OBVIOUS
<1>2. pc = "tail" /\ chan' \in Bytes /\ enters' = enters /\ tail \in Bytes
  BY <1>1, ReadsType DEF PasteTail, KeyInv, Flags
<1>3. PICK st : st = Streamed([text |-> text.insert, part |-> part], tail)
  OBVIOUS
<1>4. /\ IF tail = Tail(PasteEnd)
         THEN Goto("loop") /\ part' = <<>> /\ UNCHANGED text
         ELSE /\ text' = [text EXCEPT !.insert = st.text]
              /\ part' = st.part
              /\ Goto("paste")
      /\ UNCHANGED <<ui, hist, saved>>
  BY <1>1, <1>3 DEF PasteTail
<1>5. CASE tail = Tail(PasteEnd)
  <2>1. pc' = "loop" /\ part' = <<>> /\ UNCHANGED text
    BY <1>4, <1>5 DEF Goto
  <2>2. Flags' /\ Placed'
    BY <1>2, <1>4, <2>1 DEF KeyInv, Flags, Places, Placed, saved, ui, Shown
  <2> QED BY <1>2, <1>4, <2>1, <2>2, NothingEdited
<1>6. CASE tail # Tail(PasteEnd)
  <2>1. StreamOK(st)
    BY <1>2, <1>3, StreamBegins, StreamedKept
  <2> QED BY <1>2, <1>4, <1>6, <2>1, StreamEnds DEF Goto
<1> QED BY <1>5, <1>6

LEMMA SessionKept ==
    ASSUME KeyInv, Session
    PROVE  Kept
<1>1. ASSUME NEW b, \/ PagerKey(b) \/ NormalKey(b) \/ Char(b) \/ Lead(b) \/ LeadNext(b)
                    \/ EscNext(b) \/ BracketNext(b) \/ PasteByte(b)
      PROVE  Kept
  BY <1>1, PagerKept, NormalKeyKept, EditKept, LeadKept, EscapeKept, BracketKept, PasteByteKept
<1>2. ASSUME NEW k, StartPaste(k) \/ PasteTail(k)
      PROVE  Kept
  BY <1>2, StartPasteKept, PasteTailKept
<1>3. CASE CtrlC \/ Backspace \/ CtrlW \/ CtrlU \/ LeadLate \/ Escape \/ Enter \/ Dispatch
  BY <1>3, CtrlCKept, EditKept, LeadKept, EnterKept, DispatchKept
<1>4. CASE MentionTab \/ CommandTab \/ EscLate \/ BracketLate \/ Tilde \/ PasteEsc \/ PasteLate
  BY <1>4, TabKept, EscapeKept, TildeKept, PasteStopKept
<1> QED BY <1>1, <1>2, <1>3, <1>4 DEF Session

-----------------------------------------------------------------------------
(* The prompt, the user, and the theorems.                                 *)

LEMMA PromptedKept ==
    ASSUME KeyInv, NEW s, NEW l \in {"name", "name2", "loop", "out"}, Prompted(s, l),
           Fits(s, NameSize), l = "loop" => s # <<>>, chan' \in Bytes, enters' \in Int
    PROVE  KeyInv' /\ text' = text /\ sent' = sent
<1>1. name' = s /\ pc' = l /\ UNCHANGED <<ui, text, hist, part, saved>>
  BY DEF Prompted, Goto
<1>2. Flags' /\ Placed'
  BY <1>1 DEF KeyInv, Flags, Places, Placed, saved, ui
<1>3. Named'
  BY <1>1 DEF Named
<1> QED BY <1>1, <1>2, <1>3 DEF KeyInv, saved

(* A byte of a name that is refused is kept as it is, any other printable  *)
(* one is no part of a character.                                          *)
LEMMA NameByteWhole ==
    ASSUME NEW b \in Printable
    PROVE  /\ NameByte(b) \in Typable /\ <<NameByte(b)>> \in Bytes
           /\ Whole(<<NameByte(b)>>) /\ Len(<<NameByte(b)>>) = 1
<1>1. NameByte(b) \in Printable
  BY DEF NameByte, RefusedInName, Printable
<1>2. NameByte(b) \in Typable /\ NameByte(b) # "lead" /\ NameByte(b) \notin Second
  BY <1>1 DEF Typable, Printable, Digits, Second
<1> QED BY <1>2, CharacterWhole

LEMMA PromptByteKept ==
    ASSUME KeyInv, NEW b, PromptByte(b)
    PROVE  KeyInv' /\ text' = text /\ sent' = sent
<1>1. chan' \in Bytes /\ enters' \in Int
  BY TookType DEF PromptByte, KeyInv, Flags
<1>2. Fits(name, NameSize) /\ NameSize \in Nat
  BY RecordAssumption DEF KeyInv, Named
<1>3. ASSUME NEW s, Fits(s, NameSize), Prompted(s, "name")
      PROVE  KeyInv' /\ text' = text /\ sent' = sent
  BY <1>1, <1>3, PromptedKept
<1>4. CASE b = "ctrlu"
  <2>1. Prompted(<<>>, "name")
    BY <1>4 DEF PromptByte, Printable, Digits
  <2>2. Fits(<<>>, NameSize)
    BY RecordAssumption, CharacterWhole DEF Fits
  <2> QED BY <1>3, <2>1, <2>2
<1>5. CASE b = "ctrlw"
  <2>1. Prompted(RemoveWord(name), "name")
    BY <1>5 DEF PromptByte, Printable, Digits
  <2> QED BY <1>2, <1>3, <2>1, RemoveWordFits
<1>6. CASE b = "bs"
  <2>1. Prompted(RemoveLast(name), "name")
    BY <1>6 DEF PromptByte, Printable, Digits
  <2> QED BY <1>2, <1>3, <2>1, RemoveLastFits
<1>7. CASE b \in Printable /\ Len(name) < NameSize - 1
  <2>1. b \notin {"ctrlu", "ctrlw", "bs"}
    BY <1>7 DEF Printable, Digits
  <2>2. Prompted(Append(name, NameByte(b)), "name")
    BY <1>7, <2>1 DEF PromptByte
  <2>3. PICK c : c = NameByte(b)
    OBVIOUS
  <2>4. <<c>> \in Bytes /\ Whole(<<c>>) /\ Len(<<c>>) = 1 /\ c \in Typable
    BY <1>7, <2>3, NameByteWhole
  <2>5. name \in Bytes /\ Whole(name) /\ Len(name) \in Nat
    BY <1>2, LenProperties DEF Fits, Bytes
  <2>6. Append(name, c) = name \o <<c>>
    BY <2>4, <2>5, AppendIsConcat DEF Bytes
  <2>7. Fits(name \o <<c>>, NameSize)
    BY <1>2, <1>7, <2>4, <2>5, WholeConcat DEF Fits
  <2> QED BY <1>3, <2>2, <2>3, <2>6, <2>7
<1>8. CASE b \notin {"ctrlu", "ctrlw", "bs"} /\ ~(b \in Printable /\ Len(name) < NameSize - 1)
  <2>1. Prompted(name, "name")
    BY <1>8 DEF PromptByte
  <2> QED BY <1>2, <1>3, <2>1
<1> QED BY <1>4, <1>5, <1>6, <1>7, <1>8

LEMMA PromptKept ==
    ASSUME KeyInv, Prompt
    PROVE  KeyInv' /\ text' = text /\ sent' = sent
<1>1. Fits(name, NameSize) /\ NameSize \in Nat
  BY RecordAssumption DEF KeyInv, Named
<1>2. ASSUME NEW b, PromptSecond(b)
      PROVE  KeyInv' /\ text' = text /\ sent' = sent
  <2>1. chan' \in Bytes /\ enters' \in Int
    BY <1>2, TookType DEF PromptSecond, KeyInv, Flags
  <2>2. PICK s : s = IF b \in Second /\ Len(name) + 2 < NameSize - 1
                     THEN name \o <<"lead", b>> ELSE name
    OBVIOUS
  <2>3. Prompted(s, "name")
    BY <1>2, <2>2 DEF PromptSecond
  <2>4. Fits(s, NameSize)
    <3>1. CASE b \in Second /\ Len(name) + 2 < NameSize - 1
      <4>1. name \in Bytes /\ Whole(name) /\ Len(name) \in Nat
        BY <1>1, LenProperties DEF Fits, Bytes
      <4>2. /\ <<"lead", b>> \in Bytes /\ Whole(<<"lead", b>>) /\ Len(<<"lead", b>>) = 2
        BY <3>1, CharacterWhole
      <4>3. s = name \o <<"lead", b>>
        BY <2>2, <3>1
      <4>4. Len(name) + 2 < NameSize
        BY <1>1, <3>1, <4>1
      <4> QED BY <4>1, <4>2, <4>3, <4>4, WholeConcat DEF Fits
    <3>2. CASE ~(b \in Second /\ Len(name) + 2 < NameSize - 1)
      BY <1>1, <2>2, <3>2
    <3> QED BY <3>1, <3>2
  <2> QED BY <2>1, <2>3, <2>4, PromptedKept
<1>3. ASSUME NEW signed, PromptEnter(signed)
      PROVE  KeyInv' /\ text' = text /\ sent' = sent
  <2>1. chan' \in Bytes /\ enters' \in Int
    <3>1. chan # <<>> /\ chan' = Tail(chan) /\ enters' = enters - 1
      BY <1>3 DEF PromptEnter
    <3> QED BY <3>1, HeadTailProperties DEF KeyInv, Flags, Bytes
  <2>2. PICK s : s = IF IsValidUsername(name, signed) THEN Truncate(name, NameWidth)
                                                      ELSE Anonymous
    OBVIOUS
  <2>3. Prompted(s, "loop")
    BY <1>3, <2>2 DEF PromptEnter
  <2>4. Fits(s, NameSize) /\ s # <<>>
    <3>1. CASE IsValidUsername(name, signed)
      <4>1. name # <<>> /\ NameWidth \in Nat \ {0} /\ s = Truncate(name, NameWidth)
        BY <2>2, <3>1, RecordAssumption DEF IsValidUsername
      <4> QED BY <1>1, <4>1, TruncateFits
    <3>2. CASE ~IsValidUsername(name, signed)
      BY <2>2, <3>2, KeyAssumption DEF Fits, Bytes
    <3> QED BY <3>1, <3>2
  <2> QED BY <2>1, <2>3, <2>4, PromptedKept
<1>4. CASE PromptLead \/ PromptLate \/ PromptQuit
  <2>1. chan' \in Bytes /\ enters' \in Int
    <3>1. CASE PromptLate
      BY <3>1 DEF PromptLate, Late, Quiet, KeyInv, Flags
    <3>2. CASE PromptLead \/ PromptQuit
      BY <3>2, TookType DEF PromptLead, PromptQuit, KeyInv, Flags
    <3> QED BY <1>4, <3>1, <3>2
  <2>2. \E l \in {"name", "name2", "out"} : Prompted(name, l)
    BY <1>4 DEF PromptLead, PromptLate, PromptQuit
  <2> QED BY <1>1, <2>1, <2>2, PromptedKept
<1> QED BY <1>2, <1>3, <1>4, PromptByteKept DEF Prompt

LEMMA MarkerType ==
    PasteStart \in Bytes /\ PasteEnd \in Bytes
<1>1. /\ "esc" \in Typable /\ "[" \in Typable /\ "~" \in Typable
      /\ "2" \in Typable /\ "0" \in Typable /\ "1" \in Typable
  BY DEF Typable, Printable, Digits
<1> QED BY <1>1 DEF PasteStart, PasteEnd, Bytes

LEMMA UserKept ==
    ASSUME KeyInv, User, UNCHANGED name
    PROVE  KeyInv' /\ text' = text /\ sent' = sent
<1>1. chan' \in Bytes /\ enters' \in Int
  <2>1. ASSUME NEW k \in Keys, Press(k)
        PROVE  chan' \in Bytes /\ enters' \in Int
    <3>1. k \in Bytes /\ chan' = chan \o k /\ enters' \in {enters, enters + 1}
      BY <2>1, KeyAssumption DEF Press, Bytes
    <3> QED BY <3>1, BytesConcat DEF KeyInv, Flags
  <2>2. ASSUME NEW t \in Pastes, Paste(t)
        PROVE  chan' \in Bytes /\ enters' \in Int
    <3>1. t \in Bytes /\ chan' = PasteStart \o t \o PasteEnd /\ enters' = enters
      BY <2>2, KeyAssumption DEF Paste, Bytes
    <3>2. PasteStart \in Bytes /\ PasteEnd \in Bytes
      BY MarkerType
    <3>3. PasteStart \o t \in Bytes
      BY <3>1, <3>2, BytesConcat
    <3>4. PasteStart \o t \o PasteEnd \in Bytes
      BY <3>2, <3>3, BytesConcat
    <3> QED BY <3>1, <3>4 DEF KeyInv, Flags
  <2> QED BY <2>1, <2>2 DEF User
<1>2. UNCHANGED <<pc, ui, text, hist, part, saved>>
  BY DEF User, Press, Paste
<1>3. Flags' /\ Placed' /\ Named'
  BY <1>1, <1>2 DEF KeyInv, Flags, Places, Placed, saved, ui, Shown, Named
<1> QED BY <1>2, <1>3 DEF KeyInv, saved

LEMMA KeyStep ==
    ASSUME KeyInv, [Next]_vars
    PROVE  KeyInv' /\ Drafted
<1>1. CASE Session /\ UNCHANGED name /\ pc # "out"
  <2>1. Kept
    BY <1>1, SessionKept
  <2>2. Named'
    BY <1>1, <2>1 DEF KeyInv, Named, Kept
  <2> QED BY <2>1, <2>2 DEF KeyInv, Kept
<1>2. CASE Prompt
  BY <1>2, PromptKept DEF Drafted
<1>3. CASE User /\ UNCHANGED name
  BY <1>3, UserKept DEF Drafted
<1>4. CASE UNCHANGED vars
  BY <1>4 DEF KeyInv, Flags, Placed, Shown, Named, vars, ui, saved, Drafted
<1> QED BY <1>1, <1>2, <1>3, <1>4 DEF Next

LEMMA KeyInit ==
    ASSUME Init
    PROVE  KeyInv
<1>1. <<>> \in Line /\ <<>> \in Bytes /\ Whole(<<>>) /\ Len(<<>>) = 0
  BY RecordAssumption, CharacterWhole DEF Line
<1>2. TextOK(text)
  BY <1>1 DEF Init, TextOK, Fields
<1>3. PICK h : h = [items |-> <<>>, pos |-> 0]
  OBVIOUS
<1>4. h \in Ring /\ WholeItems(h)
  <2>1. <<>> \in Seq(Line) /\ Len(<<>>) = 0 /\ HistSize \in Nat
    BY KeyAssumption
  <2> QED BY <1>3, <2>1 DEF Ring, WholeItems
<1>5. hist = [m \in Fields |-> h]
  BY <1>3 DEF Init, Fields
<1>6. HistOK(hist)
  BY <1>4, <1>5 DEF HistOK, Fields
<1>7. <<"cr">> \in Bytes
  BY CharacterWhole DEF Typable, Second
<1>8. chan \in Bytes /\ Len(chan) \in Nat
  BY <1>1, <1>7, LenProperties DEF Init, Bytes
<1>9. Flags /\ Placed
  BY <1>8 DEF Init, Flags, Places, Placed
<1>10. Named
  BY <1>1, RecordAssumption DEF Init, Named, Fits
<1> QED BY <1>2, <1>6, <1>9, <1>10 DEF KeyInv

(* For any keys, pastes and names of the bytes a terminal sends, and any   *)
(* sizes of line, name and history, KeyInv holds in every state.           *)
THEOREM KeyInvariant == Spec => []KeyInv
<1>1. KeyInv /\ [Next]_vars => KeyInv'
  BY KeyStep
<1> QED BY <1>1, KeyInit, PTL DEF Spec

(* The user's keys are counted by the user only.                           *)
LEMMA SessionQuiet ==
    ASSUME Session \/ Prompt
    PROVE  typed' = typed
<1>1. ASSUME NEW b, PagerKey(b) \/ NormalKey(b) \/ Char(b) \/ Lead(b) \/ LeadNext(b)
      PROVE  typed' = typed
  BY <1>1 DEF PagerKey, NormalKey, Char, Lead, LeadNext, Byte, Took, Quiet
<1>2. ASSUME NEW b, EscNext(b) \/ BracketNext(b) \/ PasteByte(b)
      PROVE  typed' = typed
  BY <1>2 DEF EscNext, BracketNext, PasteByte, Took, Quiet
<1>3. CASE CtrlC \/ Backspace \/ CtrlW \/ CtrlU \/ Escape \/ Enter \/ Dispatch
  BY <1>3 DEF CtrlC, Backspace, CtrlW, CtrlU, Escape, Enter, Dispatch, Byte, Took, Quiet
<1>4. CASE MentionTab \/ CommandTab
  BY <1>4 DEF MentionTab, CommandTab, Byte, Took, Quiet
<1>5. CASE LeadLate \/ EscLate \/ BracketLate \/ Tilde \/ PasteEsc \/ PasteLate
  BY <1>5 DEF LeadLate, EscLate, BracketLate, Tilde, PasteEsc, PasteLate, Late, Took, Quiet
<1>6. ASSUME NEW k, StartPaste(k) \/ PasteTail(k)
      PROVE  typed' = typed
  BY <1>6 DEF StartPaste, PasteTail, Reads, Quiet
<1>7. CASE Prompt
  BY <1>7 DEF Prompt, PromptByte, PromptSecond, PromptEnter, PromptLead, PromptLate, PromptQuit,
              Took, Late, Quiet
<1> QED BY <1>1, <1>2, <1>3, <1>4, <1>5, <1>6, <1>7 DEF Session

(* The types of the key handling: both lines fit MAX_MESSAGE_LEN, and the  *)
(* positions in both histories stay within what they hold.                 *)
THEOREM KeyTypes == Spec => []TypeOK
<1> DEFINE Count == typed \in 0 .. MaxTyped /\ stalls \in BOOLEAN
<1>1. Init => Count
  BY KeyAssumption DEF Init
<1>2. Count /\ [Next]_vars => Count'
  <2>1. ASSUME Count, Next
        PROVE  typed' \in 0 .. MaxTyped
    <3>1. CASE User
      BY <2>1, <3>1, KeyAssumption DEF User, Press, Paste
    <3> QED BY <2>1, <3>1, SessionQuiet DEF Next
  <2> QED BY <2>1 DEF Next, vars
<1>3. KeyInv /\ Count => TypeOK
  <2> SUFFICES ASSUME KeyInv, Count
               PROVE  TypeOK
    OBVIOUS
  <2>1. ASSUME NEW m \in Fields
        PROVE  /\ Len(text[m]) < InputSize
               /\ Len(hist[m].items) <= HistSize
               /\ hist[m].pos \in 0 .. Len(hist[m].items)
    <3>1. text[m] \in Line /\ hist[m] \in Ring
      BY DEF KeyInv, TextOK, HistOK
    <3>2. hist[m].items \in Seq(Line) /\ hist[m].pos \in Nat
      BY <3>1 DEF Ring
    <3>3. Len(hist[m].items) \in Nat
      BY <3>2, LenProperties
    <3> QED BY <3>1, <3>2, <3>3 DEF Line, Ring
  <2> QED BY <2>1 DEF TypeOK, KeyInv, Flags, Places, Fields
<1> QED BY <1>1, <1>2, <1>3, KeyInvariant, PTL DEF Spec

(* The input line, what Up and Down recall into it, and the name are whole *)
(* characters and fit their buffers: handle_key, paste, completion and     *)
(* prompt never cut one, and no session enters the room without a name.    *)
THEOREM InputAlwaysWhole == Spec => []InputWhole
<1>1. KeyInv => InputWhole
  <2> SUFFICES ASSUME KeyInv PROVE InputWhole
    OBVIOUS
  <2>1. Fits(text.insert, InputSize) /\ WholeItems(hist.insert) /\ Named
    BY TextTyped DEF KeyInv, HistOK
  <2> QED BY <2>1 DEF InputWhole, Fits, WholeItems, Named
<1> QED BY <1>1, KeyInvariant, PTL

(* handle_key changes and sends the input line only while it is shown:     *)
(* whatever overlays and modes are gone through, the draft stays.          *)
THEOREM DraftAlwaysKept == Spec => DraftKept
<1>1. KeyInv /\ [Next]_vars => [Drafted]_vars
  BY KeyStep
<1>2. [Drafted]_vars => [text'.insert # text.insert \/ sent' # sent => Shown("insert")]_vars
  BY DEF Drafted
<1> QED BY <1>1, <1>2, KeyInvariant, PTL DEF Spec, DraftKept

-----------------------------------------------------------------------------
(* Counting the Enter keys in the channel.                                 *)

Without(b, s) == \A i \in 1 .. Len(s) : s[i] # b

Enters(s) == {i \in 1 .. Len(s) : s[i] = "cr"}
Returns(s) == Cardinality(Enters(s))

LEMMA ReturnsType ==
    ASSUME NEW s \in Bytes
    PROVE  IsFiniteSet(Enters(s)) /\ Returns(s) \in Nat
<1>1. Len(s) \in Nat
  BY LenProperties DEF Bytes
<1>2. IsFiniteSet(1 .. Len(s)) /\ Enters(s) \in SUBSET (1 .. Len(s))
  BY <1>1, FS_Interval DEF Enters
<1>3. IsFiniteSet(Enters(s))
  BY <1>2, FS_Subset
<1> QED BY <1>3, FS_CardinalityType DEF Returns

(* Reading on loses the Enter keys that are read.                          *)
LEMMA ReturnsLeft ==
    ASSUME NEW s \in Bytes, NEW k \in 0 .. Len(s),
           NEW t \in Bytes, Len(t) = Len(s) - k, \A i \in 1 .. Len(t) : t[i] = s[i + k]
    PROVE  /\ Returns(t) <= Returns(s)
           /\ k > 0 /\ s[1] = "cr" => Returns(t) + 1 <= Returns(s)
<1>1. Len(s) \in Nat /\ Len(t) \in Nat /\ k \in Nat
  BY LenProperties DEF Bytes
<1> DEFINE S == Enters(t)
<1> DEFINE f == [i \in S |-> i + k]
<1>2. ASSUME NEW i \in S
      PROVE  i + k \in Enters(s) /\ i + k # k /\ i + k > k /\ i \in Int
  BY <1>1, <1>2 DEF Enters
<1>3. ASSUME NEW i \in S, NEW j \in S, f[i] = f[j]
      PROVE  i = j
  BY <1>2, <1>3
<1>4. ASSUME NEW T, \A i \in S : i + k \in T, IsFiniteSet(T)
      PROVE  Cardinality(S) <= Cardinality(T)
  <2>1. f \in [S -> T]
    BY <1>4
  <2>2. \A i, j \in S : f[i] = f[j] => i = j
    BY <1>3
  <2> HIDE DEF f
  <2>3. f \in Injection(S, T)
    BY <2>1, <2>2 DEF Injection, IsInjective
  <2> QED BY <1>4, <2>3, FS_Injection
<1> HIDE DEF S
<1>5. Cardinality(S) <= Cardinality(Enters(s))
  BY <1>2, <1>4, ReturnsType
<1>6. ASSUME k > 0, s[1] = "cr"
      PROVE  Returns(t) + 1 <= Returns(s)
  <2>1. 1 \in Enters(s)
    BY <1>1, <1>6 DEF Enters
  <2>2. /\ IsFiniteSet(Enters(s) \ {1})
        /\ Cardinality(Enters(s) \ {1}) = Returns(s) - 1
    BY <2>1, ReturnsType, FS_RemoveElement DEF Returns
  <2>3. \A i \in S : i + k \in Enters(s) \ {1}
    BY <1>1, <1>2, <1>6
  <2>4. Cardinality(S) <= Returns(s) - 1
    BY <1>4, <2>2, <2>3
  <2>5. Returns(t) \in Nat /\ Returns(s) \in Nat /\ Returns(t) <= Returns(s) - 1
    BY <2>4, ReturnsType DEF S, Returns
  <2> QED BY <2>5
<1> QED BY <1>5, <1>6 DEF S, Returns

LEMMA ReturnsTail ==
    ASSUME NEW s \in Bytes, s # <<>>
    PROVE  /\ Tail(s) \in Bytes
           /\ Returns(Tail(s)) <= Returns(s)
           /\ Head(s) = "cr" => Returns(Tail(s)) + 1 <= Returns(s)
           /\ \A b : Without(b, s) => Without(b, Tail(s))
<1>1. /\ Len(s) \in Nat \ {0} /\ Tail(s) \in Bytes /\ Len(Tail(s)) = Len(s) - 1
      /\ \A i \in 1 .. Len(Tail(s)) : Tail(s)[i] = s[i + 1]
      /\ Head(s) = s[1]
  BY HeadTailProperties, EmptySeq DEF Bytes
<1>2. 1 \in 0 .. Len(s)
  BY <1>1
<1>3. ASSUME NEW b, Without(b, s)
      PROVE  Without(b, Tail(s))
  <2>1. \A i \in 1 .. Len(Tail(s)) : i + 1 \in 1 .. Len(s)
    BY <1>1
  <2> QED BY <1>1, <1>3, <2>1 DEF Without
<1>4. /\ Returns(Tail(s)) <= Returns(s)
      /\ s[1] = "cr" => Returns(Tail(s)) + 1 <= Returns(s)
  <2>1. PICK t, k : t = Tail(s) /\ k = 1
    OBVIOUS
  <2>2. /\ t \in Bytes /\ Len(t) = Len(s) - k /\ k \in 0 .. Len(s) /\ k > 0
        /\ \A i \in 1 .. Len(t) : t[i] = s[i + k]
    BY <1>1, <1>2, <2>1
  <2>3. Returns(t) <= Returns(s) /\ (s[1] = "cr" => Returns(t) + 1 <= Returns(s))
    BY <2>2, ReturnsLeft
  <2> QED BY <2>1, <2>3
<1> QED BY <1>1, <1>3, <1>4

LEMMA ReturnsSuffix ==
    ASSUME NEW s \in Bytes, NEW k \in 0 .. Len(s)
    PROVE  LET t == SubSeq(s, k + 1, Len(s))
           IN  /\ t \in Bytes
               /\ Returns(t) <= Returns(s)
               /\ \A b : Without(b, s) => Without(b, t)
<1> DEFINE t == SubSeq(s, k + 1, Len(s))
<1>1. Len(s) \in Nat /\ k \in Nat /\ k <= Len(s)
  BY LenProperties DEF Bytes
<1>2. \A i \in k + 1 .. Len(s) : s[i] \in Typable
  BY <1>1, ElementOfSeq DEF Bytes
<1>3. /\ t \in Bytes /\ Len(t) = IF k + 1 <= Len(s) THEN Len(s) - (k + 1) + 1 ELSE 0
      /\ \A i \in 1 .. Len(s) - (k + 1) + 1 : t[i] = s[k + 1 + i - 1]
  BY <1>1, <1>2, SubSeqProperties DEF Bytes
<1> HIDE DEF t
<1>4. Len(t) = Len(s) - k /\ \A i \in 1 .. Len(t) : t[i] = s[i + k] /\ i + k \in 1 .. Len(s)
  <2>1. Len(t) = Len(s) - k
    BY <1>1, <1>3
  <2>2. ASSUME NEW i \in 1 .. Len(t)
        PROVE  t[i] = s[i + k] /\ i + k \in 1 .. Len(s)
    <3>1. i \in 1 .. Len(s) - (k + 1) + 1 /\ k + 1 + i - 1 = i + k
      BY <1>1, <2>1
    <3>2. t[i] = s[k + 1 + i - 1]
      BY <1>3, <3>1
    <3> QED BY <1>1, <2>1, <3>1, <3>2
  <2> QED BY <2>1, <2>2
<1>5. Returns(t) <= Returns(s)
  BY <1>3, <1>4, ReturnsLeft
<1>6. \A b : Without(b, s) => Without(b, t)
  BY <1>4 DEF Without
<1> QED BY <1>3, <1>5, <1>6 DEF t

(* Pressing Enter adds one, any other key none.                            *)
LEMMA ReturnsConcat ==
    ASSUME NEW s \in Bytes, NEW k \in Bytes
    PROVE  /\ Without("cr", k) => Returns(s \o k) <= Returns(s)
           /\ k = <<"cr">> => Returns(s \o k) <= Returns(s) + 1
           /\ \A b : Without(b, s) /\ Without(b, k) => Without(b, s \o k)
<1>1. Len(s) \in Nat /\ Len(k) \in Nat
  BY LenProperties DEF Bytes
<1>2. PICK t : t = s \o k
  OBVIOUS
<1>3. /\ t \in Bytes /\ Len(t) = Len(s) + Len(k)
      /\ \A i \in 1 .. Len(s) + Len(k) : t[i] = IF i <= Len(s) THEN s[i] ELSE k[i - Len(s)]
  BY <1>2, ConcatProperties DEF Bytes
<1>4. \A i \in 1 .. Len(t) : \/ i \in 1 .. Len(s) /\ t[i] = s[i]
                             \/ i - Len(s) \in 1 .. Len(k) /\ t[i] = k[i - Len(s)]
  BY <1>1, <1>3
<1>5. ASSUME Without("cr", k)
      PROVE  Returns(t) <= Returns(s)
  <2>1. Enters(t) \in SUBSET Enters(s)
    BY <1>4, <1>5 DEF Enters, Without
  <2> QED BY <2>1, ReturnsType, FS_Subset DEF Returns
<1>6. ASSUME k = <<"cr">>
      PROVE  Returns(t) <= Returns(s) + 1
  <2>1. Len(k) = 1
    BY <1>6
  <2>2. Enters(t) \in SUBSET (Enters(s) \cup {Len(s) + 1})
    <3>1. ASSUME NEW i \in Enters(t)
          PROVE  i \in Enters(s) \cup {Len(s) + 1}
      <4>1. i \in 1 .. Len(t) /\ t[i] = "cr"
        BY <3>1 DEF Enters
      <4>2. CASE i \in 1 .. Len(s) /\ t[i] = s[i]
        BY <4>1, <4>2 DEF Enters
      <4>3. CASE i - Len(s) \in 1 .. Len(k)
        BY <1>1, <2>1, <4>1, <4>3
      <4> QED BY <1>4, <4>1, <4>2, <4>3
    <3> QED BY <3>1
  <2>3. /\ IsFiniteSet(Enters(s) \cup {Len(s) + 1})
        /\ Cardinality(Enters(s) \cup {Len(s) + 1}) <= Returns(s) + 1
    <3>1. /\ IsFiniteSet(Enters(s) \cup {Len(s) + 1})
          /\ Cardinality(Enters(s) \cup {Len(s) + 1}) \in {Returns(s), Returns(s) + 1}
      BY ReturnsType, FS_AddElement DEF Returns
    <3> QED BY <3>1, ReturnsType
  <2>4. Cardinality(Enters(t)) <= Cardinality(Enters(s) \cup {Len(s) + 1})
    BY <2>2, <2>3, FS_Subset
  <2>5. Cardinality(Enters(s) \cup {Len(s) + 1}) \in Nat /\ Returns(s) \in Nat
    BY <2>3, ReturnsType, FS_CardinalityType
  <2>6. Cardinality(Enters(t)) \in Nat
    BY <1>3, ReturnsType DEF Returns
  <2> QED BY <2>3, <2>4, <2>5, <2>6 DEF Returns
<1>7. ASSUME NEW b, Without(b, s), Without(b, k)
      PROVE  Without(b, t)
  BY <1>4, <1>7 DEF Without
<1> QED BY <1>2, <1>5, <1>6, <1>7

(* Reading from the front of a sequence made of two.                       *)
LEMMA FrontRead ==
    ASSUME NEW s \in Bytes, NEW t \in Bytes, s # <<>>
    PROVE  s \o t # <<>> /\ Head(s \o t) = Head(s) /\ Tail(s \o t) = Tail(s) \o t
<1>1. PICK c : c = s \o t
  OBVIOUS
<1>2. Len(s) \in Nat \ {0} /\ Len(t) \in Nat
  BY LenProperties, EmptySeq DEF Bytes
<1>3. /\ c \in Bytes /\ Len(c) = Len(s) + Len(t)
      /\ \A i \in 1 .. Len(s) + Len(t) : c[i] = IF i <= Len(s) THEN s[i] ELSE t[i - Len(s)]
  BY <1>1, ConcatProperties DEF Bytes
<1>4. c # <<>>
  BY <1>2, <1>3, EmptySeq DEF Bytes
<1>5. PICK u : u = Tail(s)
  OBVIOUS
<1>6. /\ u \in Bytes /\ Len(u) = Len(s) - 1 /\ Head(s) = s[1]
      /\ \A i \in 1 .. Len(u) : u[i] = s[i + 1]
  BY <1>5, HeadTailProperties DEF Bytes
<1>7. /\ Tail(c) \in Bytes /\ Len(Tail(c)) = Len(c) - 1 /\ Head(c) = c[1]
      /\ \A i \in 1 .. Len(Tail(c)) : Tail(c)[i] = c[i + 1]
  BY <1>3, <1>4, HeadTailProperties DEF Bytes
<1>8. /\ u \o t \in Bytes /\ Len(u \o t) = Len(u) + Len(t)
      /\ \A i \in 1 .. Len(u) + Len(t) :
            (u \o t)[i] = IF i <= Len(u) THEN u[i] ELSE t[i - Len(u)]
  BY <1>6, ConcatProperties DEF Bytes
<1>9. Tail(c) = u \o t
  <2>1. Len(Tail(c)) = Len(u \o t)
    BY <1>2, <1>3, <1>6, <1>7, <1>8
  <2>2. ASSUME NEW i \in 1 .. Len(Tail(c))
        PROVE  Tail(c)[i] = (u \o t)[i]
    <3>1. /\ i \in 1 .. Len(u) + Len(t) /\ i + 1 \in 1 .. Len(s) + Len(t)
          /\ Tail(c)[i] = c[i + 1]
      BY <1>2, <1>3, <1>6, <1>7, <2>2
    <3>2. CASE i <= Len(u)
      <4>1. c[i + 1] = s[i + 1] /\ (u \o t)[i] = u[i] /\ u[i] = s[i + 1]
        BY <1>2, <1>3, <1>6, <1>8, <3>1, <3>2
      <4> QED BY <3>1, <4>1
    <3>3. CASE ~(i <= Len(u))
      <4>1. c[i + 1] = t[i + 1 - Len(s)] /\ (u \o t)[i] = t[i - Len(u)]
        BY <1>2, <1>3, <1>6, <1>8, <3>1, <3>3
      <4>2. i + 1 - Len(s) = i - Len(u)
        BY <1>2, <1>6, <3>1
      <4> QED BY <3>1, <4>1, <4>2
    <3> QED BY <3>2, <3>3
  <2> QED BY <1>7, <1>8, <2>1, <2>2, SeqEqual DEF Bytes
<1>10. Head(c) = Head(s)
  BY <1>2, <1>3, <1>6, <1>7
<1> QED BY <1>1, <1>4, <1>5, <1>9, <1>10

LEMMA FrontTaken ==
    ASSUME NEW s \in Bytes, NEW t \in Bytes
    PROVE  /\ SubSeq(s \o t, 1, Len(s)) = s
           /\ SubSeq(s \o t, Len(s) + 1, Len(s \o t)) = t
<1>1. PICK c : c = s \o t
  OBVIOUS
<1>2. Len(s) \in Nat /\ Len(t) \in Nat
  BY LenProperties DEF Bytes
<1>3. /\ c \in Bytes /\ Len(c) = Len(s) + Len(t)
      /\ \A i \in 1 .. Len(s) + Len(t) : c[i] = IF i <= Len(s) THEN s[i] ELSE t[i - Len(s)]
  BY <1>1, ConcatProperties DEF Bytes
<1>4. PICK a : a = SubSeq(c, 1, Len(s))
  OBVIOUS
<1>5. a \in Bytes /\ Len(a) = Len(s) /\ \A i \in 1 .. Len(s) : a[i] = c[i]
  <2>1. \A i \in 1 .. Len(s) : c[i] \in Typable
    BY <1>2, <1>3, ElementOfSeq DEF Bytes
  <2>2. \A i \in 1 .. Len(s) - 1 + 1 : a[i] = c[1 + i - 1]
    BY <1>2, <1>3, <1>4, <2>1, SubSeqProperties DEF Bytes
  <2>3. \A i \in 1 .. Len(s) : i \in 1 .. Len(s) - 1 + 1 /\ 1 + i - 1 = i
    BY <1>2
  <2> QED BY <1>2, <1>3, <1>4, <2>2, <2>3, PrefixType
<1>6. a = s
  BY <1>2, <1>3, <1>5, SeqEqual DEF Bytes
<1>7. PICK d : d = SubSeq(c, Len(s) + 1, Len(c))
  OBVIOUS
<1>8. d \in Bytes /\ Len(d) = Len(t) /\ \A i \in 1 .. Len(t) : d[i] = c[i + Len(s)]
  <2>1. \A i \in Len(s) + 1 .. Len(c) : c[i] \in Typable
    BY <1>2, <1>3, ElementOfSeq DEF Bytes
  <2>2. /\ d \in Bytes
        /\ Len(d) = IF Len(s) + 1 <= Len(c) THEN Len(c) - (Len(s) + 1) + 1 ELSE 0
        /\ \A i \in 1 .. Len(c) - (Len(s) + 1) + 1 : d[i] = c[Len(s) + 1 + i - 1]
    BY <1>2, <1>3, <1>7, <2>1, SubSeqProperties DEF Bytes
  <2>3. \A i \in 1 .. Len(t) : /\ i \in 1 .. Len(c) - (Len(s) + 1) + 1
                               /\ Len(s) + 1 + i - 1 = i + Len(s)
    BY <1>2, <1>3
  <2>4. Len(d) = Len(t)
    BY <1>2, <1>3, <2>2
  <2> QED BY <2>2, <2>3, <2>4
<1>9. d = t
  <2>1. \A i \in 1 .. Len(t) : d[i] = t[i]
    <3>1. \A i \in 1 .. Len(t) : /\ i + Len(s) \in 1 .. Len(s) + Len(t)
                                 /\ ~(i + Len(s) <= Len(s)) /\ i + Len(s) - Len(s) = i
      BY <1>2
    <3> QED BY <1>3, <1>8, <3>1
  <2> QED BY <1>8, <2>1, SeqEqual DEF Bytes
<1> QED BY <1>1, <1>4, <1>6, <1>7, <1>9

-----------------------------------------------------------------------------
(* The unread bytes: keys, behind what is left of a paste.                 *)

(* The keys can be told from a paste: a key is Enter or without its byte,  *)
(* none sends a part of the marker of a paste, and no ESC is pasted.       *)
KeysApart ==
    /\ \A k \in Keys : (k = <<"cr">> \/ Without("cr", k)) /\ Without("0", k)
    /\ \A t \in Pastes : Without("esc", t)

(* The bytes of the beginning of a paste that the session has not read     *)
(* yet, and the places where it reads it.                                  *)
Opening == {"loop", "esc", "bracket", "start", "paste"}
Marker(l) ==
    CASE l = "loop"    -> PasteStart
      [] l = "esc"     -> Tail(PasteStart)
      [] l = "bracket" -> <<"2", "0", "0", "~">>
      [] l = "start"   -> <<"0", "0", "~">>
      [] OTHER         -> <<>>

(* What is in the channel before the keys ks.                              *)
NoPaste(ks) == pc \notin {"paste", "tail"} /\ chan = ks
InPaste(ks) ==
    /\ pc \in Opening /\ Shown("insert")
    /\ \E u \in Bytes : Without("esc", u) /\ chan = Marker(pc) \o (u \o (PasteEnd \o ks))
AtEnd(ks) == pc = "tail" /\ chan = Tail(PasteEnd) \o ks

(* Nothing was sent without an Enter, and those ahead are counted.         *)
Ahead(ks) ==
    /\ ks \in Bytes /\ Without("0", ks)
    /\ sent + Returns(ks) <= enters
    /\ NoPaste(ks) \/ InPaste(ks) \/ AtEnd(ks)

ChanInv == ~stalls => \E ks \in Bytes : Ahead(ks)

(* A step that reads keys, and sends only at an Enter.                     *)
Consumed ==
    /\ pc' \notin {"paste", "tail"}
    /\ enters' = enters
    /\ \/ chan' = chan /\ sent' = sent
       \/ /\ chan # <<>> /\ chan' = Tail(chan)
          /\ sent' = sent \/ (Head(chan) = "cr" /\ sent' = sent + 1)
       \/ sent' = sent /\ \E k \in 0 .. Len(chan) : chan' = SubSeq(chan, k + 1, Len(chan))

(* Without the marker in the channel no paste begins.                      *)
LEMMA SessionConsumes ==
    ASSUME KeyInv, Session, pc \notin {"paste", "tail"}, Without("0", chan)
    PROVE  Consumed
<1>1. chan \in Bytes
  BY DEF KeyInv, Flags
<1>2. ASSUME NEW b, PagerKey(b) \/ NormalKey(b) \/ Char(b) \/ Lead(b)
      PROVE  Consumed
  <2>1. chan # <<>> /\ chan' = Tail(chan) /\ enters' = enters /\ sent' = sent
    BY <1>1, <1>2, TookType DEF PagerKey, NormalKey, Char, Lead, Edited, Byte, saved
  <2>2. pc' \in {"loop", "esc", "lead"}
    BY <1>2 DEF PagerKey, NormalKey, Char, Lead, Edited, Goto
  <2> QED BY <2>1, <2>2 DEF Consumed
<1>3. ASSUME NEW b, LeadNext(b) \/ EscNext(b) \/ BracketNext(b)
      PROVE  Consumed
  <2>1. chan # <<>> /\ chan' = Tail(chan) /\ enters' = enters
    BY <1>1, <1>3, TookType DEF LeadNext, EscNext, BracketNext
  <2>2. CASE LeadNext(b)
    BY <2>1, <2>2 DEF LeadNext, Edited, Goto, saved, Consumed
  <2>3. CASE EscNext(b)
    <3>1. sent' = sent
      BY <2>3 DEF EscNext, PlainEscape, saved
    <3>2. pc' \in {"loop", "bracket"}
      BY <2>3 DEF EscNext, PlainEscape, Goto
    <3> QED BY <2>1, <3>1, <3>2 DEF Consumed
  <2>4. CASE BracketNext(b)
    <3>1. sent' = sent
      BY <2>4 DEF BracketNext, PlainEscape, saved
    <3>2. pc' \in {"loop", "start", "tilde"}
      BY <2>4 DEF BracketNext, PlainEscape, Goto
    <3> QED BY <2>1, <3>1, <3>2 DEF Consumed
  <2> QED BY <1>3, <2>2, <2>3, <2>4
<1>4. ASSUME NEW b, PasteByte(b)
      PROVE  Consumed
  BY <1>1, <1>4, TookType DEF PasteByte
<1>5. CASE CtrlC \/ Backspace \/ CtrlW \/ CtrlU \/ Escape
  <2>1. chan # <<>> /\ chan' = Tail(chan) /\ enters' = enters /\ sent' = sent
    BY <1>1, <1>5, TookType DEF CtrlC, Backspace, CtrlW, CtrlU, Escape, Edited, Byte, saved
  <2>2. pc' \in {"loop", "esc", "out"}
    BY <1>5 DEF CtrlC, Backspace, CtrlW, CtrlU, Escape, Edited, Goto
  <2> QED BY <2>1, <2>2 DEF Consumed
<1>6. CASE MentionTab \/ CommandTab
  <2>1. chan # <<>> /\ chan' = Tail(chan) /\ enters' = enters
    BY <1>1, <1>6, TookType DEF MentionTab, CommandTab, Byte
  <2>2. sent' = sent /\ pc' = "loop"
    BY <1>6 DEF MentionTab, CommandTab, Edited, Goto, saved
  <2> QED BY <2>1, <2>2 DEF Consumed
<1>7. CASE Enter
  <2>1. chan # <<>> /\ chan' = Tail(chan) /\ enters' = enters /\ Head(chan) = "cr"
    BY <1>1, <1>7, TookType DEF Enter, Byte
  <2>2. sent' \in {sent, sent + 1} /\ pc' = "loop"
    BY <1>7 DEF Enter, Goto, saved
  <2> QED BY <2>1, <2>2 DEF Consumed
<1>8. CASE Dispatch
  <2>1. chan # <<>> /\ chan' = Tail(chan) /\ enters' = enters
    BY <1>1, <1>8, TookType DEF Dispatch, Byte
  <2>2. sent' = sent /\ pc' \in {"loop", "out"}
    BY <1>8 DEF Dispatch, Goto, saved
  <2> QED BY <2>1, <2>2 DEF Consumed
<1>9. CASE LeadLate \/ EscLate \/ BracketLate
  BY <1>9 DEF LeadLate, EscLate, BracketLate, Late, Quiet, Edited, PlainEscape, Goto, saved,
              Consumed
<1>10. CASE Tilde
  <2>1. sent' = sent /\ pc' = "loop"
    BY <1>10 DEF Tilde, Goto, saved
  <2>2. CASE Late("tilde")
    BY <2>1, <2>2 DEF Late, Quiet, Consumed
  <2>3. ASSUME NEW b, Took("tilde", b)
        PROVE  Consumed
    BY <1>1, <2>1, <2>3, TookType DEF Consumed
  <2> QED BY <1>10, <2>2, <2>3 DEF Tilde
<1>11. ASSUME NEW k \in 0 .. 5, StartPaste(k) \/ PasteTail(k)
       PROVE  Consumed
  <2>1. /\ Reads(3, k) /\ sent' = sent
        /\ pc' = IF SubSeq(chan, 1, k) = <<"0", "0", "~">> THEN "paste" ELSE "loop"
    BY <1>11 DEF StartPaste, PasteTail, Goto, saved
  <2>2. k \in 0 .. Len(chan) /\ enters' = enters /\ chan' = SubSeq(chan, k + 1, Len(chan))
    BY <1>1, <2>1, ReadsType DEF Reads
  <2>3. SubSeq(chan, 1, k) # <<"0", "0", "~">>
    <3>1. ASSUME SubSeq(chan, 1, k) = <<"0", "0", "~">>
          PROVE  FALSE
      <4>1. k = 3
        BY <1>1, <2>2, <3>1, PrefixType
      <4>2. Len(chan) \in Nat /\ 1 \in 1 .. Len(chan) /\ \A i \in 1 .. 3 : chan[i] \in Typable
        <5>1. Len(chan) \in Nat /\ 3 <= Len(chan)
          BY <1>1, <2>2, <4>1, LenProperties DEF Bytes
        <5>2. \A i \in 1 .. 3 : i \in 1 .. Len(chan)
          BY <5>1
        <5> QED BY <1>1, <5>1, <5>2, ElementOfSeq DEF Bytes
      <4>3. PICK a : a = SubSeq(chan, 1, 3)
        OBVIOUS
      <4>4. chan[1] = "0"
        <5>1. a[1] = chan[1]
          BY <4>2, <4>3, SubSeqProperties
        <5>2. a = <<"0", "0", "~">>
          BY <3>1, <4>1, <4>3
        <5>3. a[1] = "0"
          BY <5>2
        <5> QED BY <5>1, <5>3
      <4> QED BY <4>2, <4>4 DEF Without
    <3> QED BY <3>1
  <2> QED BY <2>1, <2>2, <2>3 DEF Consumed
<1>12. CASE PasteEsc \/ PasteLate
  BY <1>1, <1>12, TookType DEF PasteEsc, PasteLate, Late
<1> QED BY <1>2, <1>3, <1>4, <1>5, <1>6, <1>7, <1>8, <1>9, <1>10, <1>11, <1>12 DEF Session

(* With no paste in the channel, what is left of the keys is ahead.        *)
LEMMA KeysRead ==
    ASSUME KeyInv, Consumed, NEW ks \in Bytes, Ahead(ks), NoPaste(ks)
    PROVE  \E t \in Bytes : Ahead(t)'
<1>1. PICK t : t = chan'
  OBVIOUS
<1>2. /\ chan = ks /\ Without("0", ks) /\ sent + Returns(ks) <= enters
      /\ sent \in Nat /\ enters \in Int /\ Returns(ks) \in Nat
  BY ReturnsType DEF NoPaste, Ahead, KeyInv, Flags
<1>3. t \in Bytes /\ Without("0", t) /\ sent' + Returns(t) <= enters
  <2>1. CASE t = ks /\ sent' = sent
    BY <1>2, <2>1
  <2>2. CASE ks # <<>> /\ t = Tail(ks) /\ (sent' = sent \/ (Head(ks) = "cr" /\ sent' = sent + 1))
    <3>1. /\ t \in Bytes /\ Without("0", t) /\ Returns(t) <= Returns(ks)
          /\ Head(ks) = "cr" => Returns(t) + 1 <= Returns(ks)
      BY <1>2, <2>2, ReturnsTail
    <3>2. Returns(t) \in Nat
      BY <3>1, ReturnsType
    <3>3. sent' + Returns(t) <= sent + Returns(ks)
      BY <1>2, <2>2, <3>1, <3>2
    <3> QED BY <1>2, <2>2, <3>1, <3>2, <3>3
  <2>3. ASSUME sent' = sent, NEW k \in 0 .. Len(ks), t = SubSeq(ks, k + 1, Len(ks))
        PROVE  t \in Bytes /\ Without("0", t) /\ sent' + Returns(t) <= enters
    <3>1. t \in Bytes /\ Without("0", t) /\ Returns(t) <= Returns(ks)
      BY <1>2, <2>3, ReturnsSuffix
    <3>2. Returns(t) \in Nat
      BY <3>1, ReturnsType
    <3> QED BY <1>2, <2>3, <3>1, <3>2
  <2> QED BY <1>1, <1>2, <2>1, <2>2, <2>3 DEF Consumed
<1>4. NoPaste(t)'
  BY <1>1 DEF NoPaste, Consumed
<1>5. Ahead(t)'
  BY <1>3, <1>4 DEF Ahead, Consumed
<1> QED BY <1>3, <1>5

(* Where the session reads is what decides which of its steps it takes.    *)
LEMMA ByPlace ==
    ASSUME Session
    PROVE  /\ pc = "esc"     => EscLate \/ \E b : EscNext(b)
           /\ pc = "bracket" => BracketLate \/ \E b : BracketNext(b)
           /\ pc = "start"   => \E k \in 0 .. 5 : StartPaste(k)
           /\ pc = "paste"   => PasteEsc \/ PasteLate \/ \E b : PasteByte(b)
           /\ pc = "tail"    => \E k \in 0 .. 5 : PasteTail(k)
<1>1. ASSUME NEW b, PagerKey(b) \/ NormalKey(b) \/ Char(b) \/ Lead(b)
      PROVE  pc = "loop"
  BY <1>1 DEF PagerKey, NormalKey, Char, Lead, Byte, Took
<1>2. CtrlC \/ Backspace \/ CtrlW \/ CtrlU \/ Escape \/ Enter \/ Dispatch => pc = "loop"
  BY DEF CtrlC, Backspace, CtrlW, CtrlU, Escape, Enter, Dispatch, Byte, Took
<1>3. MentionTab \/ CommandTab => pc = "loop"
  BY DEF MentionTab, CommandTab, Byte, Took
<1>4. ASSUME NEW b
      PROVE  /\ LeadNext(b) => pc = "lead"
             /\ EscNext(b) => pc = "esc"
             /\ BracketNext(b) => pc = "bracket"
             /\ PasteByte(b) => pc = "paste"
  BY DEF LeadNext, EscNext, BracketNext, PasteByte, Took
<1>5. /\ LeadLate => pc = "lead"
      /\ EscLate => pc = "esc"
      /\ BracketLate => pc = "bracket"
      /\ Tilde => pc = "tilde"
      /\ PasteEsc \/ PasteLate => pc = "paste"
  BY DEF LeadLate, EscLate, BracketLate, Tilde, PasteEsc, PasteLate, Late, Took
<1>6. ASSUME NEW k
      PROVE  (StartPaste(k) => pc = "start") /\ (PasteTail(k) => pc = "tail")
  BY DEF StartPaste, PasteTail
<1>7. \/ pc = "loop" \/ pc = "lead" \/ pc = "tilde"
      \/ EscLate \/ BracketLate \/ PasteEsc \/ PasteLate
      \/ \E b : EscNext(b) \/ BracketNext(b) \/ PasteByte(b)
      \/ \E k \in 0 .. 5 : StartPaste(k) \/ PasteTail(k)
  BY <1>1, <1>2, <1>3, <1>4, <1>5 DEF Session
<1> QED BY <1>4, <1>5, <1>6, <1>7

(* All bytes asked for are read when none are late.                        *)
LEMMA AllRead ==
    ASSUME ~stalls, NEW s \in Bytes, NEW v \in Bytes, chan = s \o v,
           NEW n, n = Len(s), NEW k, Reads(n, k)
    PROVE  SubSeq(chan, 1, k) = s /\ chan' = v /\ enters' = enters
<1>1. /\ k \in 0 .. n /\ k <= Len(chan) /\ (k = n \/ k = Len(chan))
      /\ chan' = SubSeq(chan, k + 1, Len(chan)) /\ enters' = enters
  BY DEF Reads, Quiet
<1>2. Len(chan) = Len(s) + Len(v)
  BY BytesConcat
<1>3. Len(s) \in Nat /\ Len(v) \in Nat
  BY LenProperties DEF Bytes
<1>4. k = Len(s)
  BY <1>1, <1>2, <1>3
<1> QED BY <1>1, <1>4, FrontTaken

(* The session reads the marker of a paste to its end.                     *)
LEMMA MarkerRead ==
    ASSUME KeyInv, Session, ~stalls, pc \in {"loop", "esc", "bracket", "start"},
           Shown("insert"), NEW v \in Bytes, chan = Marker(pc) \o v
    PROVE  /\ pc' \in Opening /\ chan' = Marker(pc') \o v
           /\ enters' = enters /\ UNCHANGED <<ui, saved>>
<1>1. /\ "esc" \in Typable /\ "[" \in Typable /\ "~" \in Typable
      /\ "2" \in Typable /\ "0" \in Typable
  BY DEF Typable, Printable, Digits
<1>2. /\ PasteStart \in Bytes /\ Tail(PasteStart) \in Bytes /\ <<"2", "0", "0", "~">> \in Bytes
      /\ <<"0", "0", "~">> \in Bytes
  BY <1>1 DEF PasteStart, Bytes
<1>3. CASE pc = "loop"
  <2>1. /\ chan # <<>> /\ Head(chan) = "esc" /\ Tail(chan) = Tail(PasteStart) \o v
    <3>1. chan = PasteStart \o v /\ PasteStart # <<>> /\ Head(PasteStart) = "esc"
      BY <1>3 DEF Marker, PasteStart
    <3> QED BY <1>2, <3>1, FrontRead
  <2>2. Escape
    <3>1. "esc" \notin Printable /\ "esc" \notin {"lead"} \cup Second
      BY DEF Printable, Digits, Second
    <3>2. ASSUME NEW b, Byte(b)
          PROVE  b = "esc"
      BY <2>1, <3>2 DEF Byte, Took
    <3>3. overlay = "none" /\ mode = "insert"
      BY DEF Shown
    <3>4. ASSUME NEW b, PagerKey(b) \/ NormalKey(b) \/ Char(b) \/ Lead(b)
          PROVE  FALSE
      BY <3>1, <3>2, <3>3, <3>4 DEF PagerKey, NormalKey, Char, Lead, Shown
    <3>5. ASSUME NEW b, LeadNext(b) \/ EscNext(b) \/ BracketNext(b) \/ PasteByte(b)
          PROVE  FALSE
      BY <1>3, <3>5 DEF LeadNext, EscNext, BracketNext, PasteByte, Took
    <3>6. ~(CtrlC \/ Backspace \/ CtrlW \/ CtrlU \/ Enter \/ Dispatch \/ MentionTab \/ CommandTab)
      BY <3>2 DEF CtrlC, Backspace, CtrlW, CtrlU, Enter, Dispatch, MentionTab, CommandTab
    <3>7. ~(LeadLate \/ EscLate \/ BracketLate \/ Tilde \/ PasteEsc \/ PasteLate)
      BY <1>3 DEF LeadLate, EscLate, BracketLate, Tilde, PasteEsc, PasteLate, Late, Took
    <3>8. ASSUME NEW k, StartPaste(k) \/ PasteTail(k)
          PROVE  FALSE
      BY <1>3, <3>8 DEF StartPaste, PasteTail
    <3> QED BY <3>4, <3>5, <3>6, <3>7, <3>8 DEF Session
  <2> QED BY <2>1, <2>2 DEF Escape, Byte, Took, Quiet, Goto, Marker, Opening
<1>4. CASE pc = "esc"
  <2>1. /\ chan # <<>> /\ Head(chan) = "[" /\ Tail(chan) = <<"2", "0", "0", "~">> \o v
    <3>1. /\ chan = Tail(PasteStart) \o v /\ Tail(PasteStart) # <<>>
          /\ Head(Tail(PasteStart)) = "[" /\ Tail(Tail(PasteStart)) = <<"2", "0", "0", "~">>
      BY <1>4 DEF Marker, PasteStart
    <3> QED BY <1>2, <3>1, FrontRead, ZenonT(30)
  <2>2. EscNext("[")
    <3>1. ASSUME NEW b, EscNext(b)
          PROVE  b = "["
      BY <2>1, <3>1 DEF EscNext, Took
    <3>2. \E b : EscNext(b)
      BY <1>4, <2>1, ByPlace DEF EscLate, Late
    <3> QED BY <3>1, <3>2
  <2> QED BY <2>1, <2>2 DEF EscNext, Took, Quiet, Goto, Marker, Opening
<1>5. CASE pc = "bracket"
  <2>1. /\ chan # <<>> /\ Head(chan) = "2" /\ Tail(chan) = <<"0", "0", "~">> \o v
    <3>1. PICK m : m = <<"2", "0", "0", "~">>
      OBVIOUS
    <3>2. chan = m \o v /\ m # <<>> /\ Head(m) = "2" /\ Tail(m) = <<"0", "0", "~">>
      BY <1>5, <3>1 DEF Marker
    <3> QED BY <1>2, <3>1, <3>2, FrontRead
  <2>2. BracketNext("2")
    <3>1. ASSUME NEW b, BracketNext(b)
          PROVE  b = "2"
      BY <2>1, <3>1 DEF BracketNext, Took
    <3>2. \E b : BracketNext(b)
      BY <1>5, <2>1, ByPlace DEF BracketLate, Late
    <3> QED BY <3>1, <3>2
  <2>3. pc' = "start" /\ UNCHANGED <<ui, saved>>
    <3>1. Editing /\ "2" \notin {"A", "B"}
      BY DEF Shown, Editing
    <3> QED BY <2>2, <3>1 DEF BracketNext, Goto
  <2> QED BY <2>1, <2>2, <2>3 DEF BracketNext, Took, Quiet, Marker, Opening
<1>6. CASE pc = "start"
  <2>1. PICK m : m = <<"0", "0", "~">>
    OBVIOUS
  <2>2. chan = m \o v /\ m \in Bytes /\ Len(m) = 3
    BY <1>2, <1>6, <2>1 DEF Marker
  <2>3. PICK k \in 0 .. 5 : StartPaste(k)
    BY <1>6, ByPlace
  <2>4. SubSeq(chan, 1, k) = m /\ chan' = v /\ enters' = enters
    <3>1. Reads(3, k)
      BY <2>3 DEF StartPaste
    <3> QED BY <2>2, <3>1, AllRead
  <2>5. pc' = "paste" /\ UNCHANGED <<ui, saved>>
    BY <2>1, <2>3, <2>4 DEF StartPaste, Goto
  <2>6. Marker("paste") = <<>>
    BY DEF Marker
  <2> QED BY <2>4, <2>5, <2>6, ConcatEmptySeq DEF Opening, Bytes
<1> QED BY <1>3, <1>4, <1>5, <1>6

LEMMA EndType ==
    /\ PasteEnd \in Bytes /\ PasteEnd # <<>> /\ Head(PasteEnd) = "esc"
    /\ Tail(PasteEnd) \in Bytes /\ Len(Tail(PasteEnd)) = 5
<1>1. /\ "esc" \in Typable /\ "[" \in Typable /\ "~" \in Typable
      /\ "2" \in Typable /\ "0" \in Typable /\ "1" \in Typable
  BY DEF Typable, Printable, Digits
<1> QED BY <1>1 DEF PasteEnd, Bytes

(* The session reads the text of a paste up to the ESC of its end.         *)
LEMMA PasteRead ==
    ASSUME KeyInv, Session, ~stalls, pc = "paste", NEW w \in Bytes,
           NEW u \in Bytes, Without("esc", u), chan = u \o (PasteEnd \o w)
    PROVE  /\ \/ /\ pc' = "paste" /\ u # <<>>
                 /\ chan' = Tail(u) \o (PasteEnd \o w)
              \/ pc' = "tail" /\ chan' = Tail(PasteEnd) \o w
           /\ enters' = enters /\ UNCHANGED <<ui, saved>>
<1>1. PICK v : v = PasteEnd \o w
  OBVIOUS
<1>2. v \in Bytes /\ v # <<>> /\ Head(v) = "esc" /\ Tail(v) = Tail(PasteEnd) \o w
  BY <1>1, EndType, BytesConcat, FrontRead
<1>3. chan \in Bytes
  BY DEF KeyInv, Flags
<1>4. chan # <<>>
  <2>1. CASE u = <<>>
    BY <1>1, <1>2, <2>1, ConcatEmptySeq DEF Bytes
  <2>2. CASE u # <<>>
    BY <1>1, <1>2, <2>2, FrontRead
  <2> QED BY <2>1, <2>2
<1>5. PasteEsc \/ \E b : PasteByte(b)
  BY <1>4, ByPlace DEF PasteLate, Late
<1>6. CASE u = <<>>
  <2>1. chan = v
    BY <1>1, <1>2, <1>6, ConcatEmptySeq DEF Bytes
  <2>2. PasteEsc
    <3>1. ASSUME NEW b, PasteByte(b)
          PROVE  FALSE
      BY <1>2, <2>1, <3>1 DEF PasteByte, Took
    <3> QED BY <1>5, <3>1
  <2> QED BY <1>2, <2>1, <2>2 DEF PasteEsc, Took, Quiet, Goto
<1>7. CASE u # <<>>
  <2>1. Head(chan) = Head(u) /\ Tail(chan) = Tail(u) \o v
    BY <1>1, <1>2, <1>7, FrontRead
  <2>2. Head(u) # "esc"
    <3>1. 1 \in 1 .. Len(u) /\ Head(u) = u[1]
      BY <1>7, HeadTailProperties, EmptySeq DEF Bytes
    <3> QED BY <3>1 DEF Without
  <2>3. PICK b : PasteByte(b)
    BY <1>5, <2>1, <2>2 DEF PasteEsc, Took
  <2>4. /\ chan' = Tail(chan) /\ enters' = enters /\ UNCHANGED <<pc, ui, saved>>
    BY <2>3 DEF PasteByte, Took, Quiet
  <2> QED BY <1>1, <1>7, <2>1, <2>4
<1> QED BY <1>6, <1>7

(* Behind that ESC it finds the end, and goes on with the keys.            *)
LEMMA EndRead ==
    ASSUME KeyInv, Session, ~stalls, NEW w \in Bytes, AtEnd(w)
    PROVE  pc' = "loop" /\ chan' = w /\ enters' = enters /\ UNCHANGED <<ui, saved>>
<1>1. PICK k \in 0 .. 5 : PasteTail(k)
  BY ByPlace DEF AtEnd
<1>2. PICK tail : tail = SubSeq(chan, 1, k)
  OBVIOUS
<1>3. Reads(5, k) /\ UNCHANGED <<ui, saved>> /\ (tail = Tail(PasteEnd) => pc' = "loop")
  BY <1>1, <1>2 DEF PasteTail, Goto
<1>4. PICK m : m = Tail(PasteEnd)
  OBVIOUS
<1>5. m \in Bytes /\ 5 = Len(m) /\ chan = m \o w
  BY <1>4, EndType DEF AtEnd
<1>6. SubSeq(chan, 1, k) = m /\ chan' = w /\ enters' = enters
  BY <1>3, <1>5, AllRead
<1> QED BY <1>2, <1>3, <1>4, <1>6

(* A step that leaves keys and Enter keys as they are.                     *)
LEMMA StillAhead ==
    ASSUME NEW ks \in Bytes, Ahead(ks), enters' = enters, UNCHANGED saved,
           (NoPaste(ks) \/ InPaste(ks) \/ AtEnd(ks))'
    PROVE  Ahead(ks)'
  BY DEF Ahead, saved

LEMMA SessionAhead ==
    ASSUME KeyInv, Session, ~stalls, NEW ks \in Bytes, Ahead(ks)
    PROVE  \E t \in Bytes : Ahead(t)'
<1>1. CASE NoPaste(ks)
  <2>1. pc \notin {"paste", "tail"} /\ Without("0", chan)
    BY <1>1 DEF NoPaste, Ahead
  <2>2. Consumed
    BY <2>1, SessionConsumes
  <2> QED BY <1>1, <2>2, KeysRead
<1>2. CASE InPaste(ks)
  <2>1. PICK u \in Bytes : Without("esc", u) /\ chan = Marker(pc) \o (u \o (PasteEnd \o ks))
    BY <1>2 DEF InPaste
  <2>2. PICK v : v = u \o (PasteEnd \o ks)
    OBVIOUS
  <2>3. v \in Bytes /\ PasteEnd \o ks \in Bytes
    BY <2>2, EndType, BytesConcat
  <2>4. pc \in Opening /\ Shown("insert") /\ chan = Marker(pc) \o v
    BY <1>2, <2>1, <2>2 DEF InPaste
  <2>5. CASE pc # "paste"
    <3>1. pc \in {"loop", "esc", "bracket", "start"}
      BY <2>4, <2>5 DEF Opening
    <3>2. /\ pc' \in Opening /\ chan' = Marker(pc') \o v
          /\ enters' = enters /\ UNCHANGED <<ui, saved>>
      BY <2>3, <2>4, <3>1, MarkerRead
    <3>3. InPaste(ks)'
      BY <2>1, <2>2, <2>4, <3>2 DEF InPaste, Shown, ui
    <3> QED BY <3>2, <3>3, StillAhead
  <2>6. CASE pc = "paste"
    <3>1. chan = u \o (PasteEnd \o ks)
      <4>1. Marker(pc) = <<>>
        BY <2>6 DEF Marker
      <4> QED BY <2>2, <2>3, <2>4, <4>1, ConcatEmptySeq DEF Bytes
    <3>2. /\ \/ /\ pc' = "paste" /\ u # <<>>
                /\ chan' = Tail(u) \o (PasteEnd \o ks)
             \/ pc' = "tail" /\ chan' = Tail(PasteEnd) \o ks
          /\ enters' = enters /\ UNCHANGED <<ui, saved>>
      BY <2>1, <2>6, <3>1, PasteRead
    <3>3. CASE pc' = "paste" /\ u # <<>> /\ chan' = Tail(u) \o (PasteEnd \o ks)
      <4>1. PICK s : s = Tail(u)
        OBVIOUS
      <4>2. s \in Bytes /\ Without("esc", s)
        BY <2>1, <3>3, <4>1, ReturnsTail
      <4>3. s \o (PasteEnd \o ks) \in Bytes
        BY <2>3, <4>2, BytesConcat
      <4>4. chan' = Marker(pc') \o (s \o (PasteEnd \o ks))
        <5>1. Marker(pc') = <<>>
          BY <3>3 DEF Marker
        <5> QED BY <3>3, <4>1, <4>3, <5>1, ConcatEmptySeq DEF Bytes
      <4>5. InPaste(ks)'
        BY <2>4, <3>2, <3>3, <4>2, <4>4 DEF InPaste, Shown, ui, Opening
      <4> QED BY <3>2, <4>5, StillAhead
    <3>4. CASE pc' = "tail" /\ chan' = Tail(PasteEnd) \o ks
      BY <3>2, <3>4, StillAhead DEF AtEnd
    <3> QED BY <3>2, <3>3, <3>4
  <2> QED BY <2>5, <2>6
<1>3. CASE AtEnd(ks)
  <2>1. pc' = "loop" /\ chan' = ks /\ enters' = enters /\ UNCHANGED <<ui, saved>>
    BY <1>3, EndRead
  <2>2. NoPaste(ks)'
    BY <2>1 DEF NoPaste
  <2> QED BY <2>1, <2>2, StillAhead
<1> QED BY <1>1, <1>2, <1>3 DEF Ahead

(* The prompt takes an Enter for itself, and reads on otherwise.           *)
LEMMA PromptAhead ==
    ASSUME KeyInv, Prompt, NEW ks \in Bytes, Ahead(ks)
    PROVE  \E t \in Bytes : Ahead(t)'
<1>1. chan \in Bytes
  BY DEF KeyInv, Flags
<1>2. pc \in {"name", "name2"}
  BY DEF Prompt, PromptByte, PromptSecond, PromptEnter, PromptLead, PromptLate, PromptQuit,
         Took, Late
<1>3. NoPaste(ks)
  BY <1>2 DEF Ahead, InPaste, AtEnd, Opening
<1>4. ASSUME NEW b, PromptByte(b) \/ PromptSecond(b)
      PROVE  Consumed
  <2>1. chan # <<>> /\ chan' = Tail(chan) /\ enters' = enters
    BY <1>1, <1>4, TookType DEF PromptByte, PromptSecond
  <2>2. pc' = "name" /\ sent' = sent
    BY <1>4 DEF PromptByte, PromptSecond, Prompted, Goto, saved
  <2> QED BY <2>1, <2>2 DEF Consumed
<1>5. ASSUME PromptLead \/ PromptQuit
      PROVE  Consumed
  <2>1. chan # <<>> /\ chan' = Tail(chan) /\ enters' = enters
    BY <1>1, <1>5, TookType DEF PromptLead, PromptQuit
  <2>2. pc' \in {"name2", "out"} /\ sent' = sent
    BY <1>5 DEF PromptLead, PromptQuit, Prompted, Goto, saved
  <2> QED BY <2>1, <2>2 DEF Consumed
<1>6. ASSUME PromptLate
      PROVE  Consumed
  BY <1>6 DEF PromptLate, Late, Quiet, Prompted, Goto, saved, Consumed
<1>7. ASSUME NEW signed, PromptEnter(signed)
      PROVE  \E t \in Bytes : Ahead(t)'
  <2>1. /\ chan # <<>> /\ Head(chan) = "cr" /\ chan' = Tail(chan) /\ enters' = enters - 1
        /\ pc' = "loop" /\ sent' = sent
    BY <1>7 DEF PromptEnter, Prompted, Goto, saved
  <2>2. PICK t : t = Tail(ks)
    OBVIOUS
  <2>3. /\ chan = ks /\ Without("0", ks) /\ sent + Returns(ks) <= enters
        /\ sent \in Nat /\ enters \in Int /\ Returns(ks) \in Nat
    BY <1>3, ReturnsType DEF NoPaste, Ahead, KeyInv, Flags
  <2>4. t \in Bytes /\ Without("0", t) /\ Returns(t) + 1 <= Returns(ks)
    BY <2>1, <2>2, <2>3, ReturnsTail
  <2>5. Returns(t) \in Nat
    BY <2>4, ReturnsType
  <2>6. sent' + Returns(t) <= enters'
    BY <2>1, <2>3, <2>4, <2>5
  <2>7. NoPaste(t)'
    BY <2>1, <2>2, <2>3 DEF NoPaste
  <2> QED BY <2>4, <2>6, <2>7 DEF Ahead
<1>8. Consumed => \E t \in Bytes : Ahead(t)'
  BY <1>3, KeysRead
<1> QED BY <1>4, <1>5, <1>6, <1>7, <1>8 DEF Prompt

LEMMA BytesAssociative ==
    ASSUME NEW s \in Bytes, NEW t \in Bytes, NEW u \in Bytes
    PROVE  (s \o t) \o u = s \o (t \o u)
  BY ConcatAssociative DEF Bytes

(* A key goes behind the keys; a paste is alone in the channel.            *)
LEMMA UserAhead ==
    ASSUME KeysApart, KeyInv, User, NEW ks \in Bytes, Ahead(ks)
    PROVE  \E t \in Bytes : Ahead(t)'
<1>1. /\ Without("0", ks) /\ sent + Returns(ks) <= enters
      /\ sent \in Nat /\ enters \in Int /\ Returns(ks) \in Nat
  BY ReturnsType DEF Ahead, KeyInv, Flags
<1>2. ASSUME NEW k \in Keys, Press(k)
      PROVE  \E t \in Bytes : Ahead(t)'
  <2>1. k \in Bytes /\ (k = <<"cr">> \/ Without("cr", k)) /\ Without("0", k)
    BY KeyAssumption DEF KeysApart, Bytes
  <2>2. /\ chan' = chan \o k /\ UNCHANGED <<pc, ui, saved>>
        /\ enters' = IF k = <<"cr">> THEN enters + 1 ELSE enters
    BY <1>2 DEF Press
  <2>3. PICK t : t = ks \o k
    OBVIOUS
  <2>4. /\ t \in Bytes /\ Without("0", t)
        /\ Without("cr", k) => Returns(t) <= Returns(ks)
        /\ k = <<"cr">> => Returns(t) <= Returns(ks) + 1
    BY <1>1, <2>1, <2>3, ReturnsConcat, BytesConcat
  <2>5. sent' + Returns(t) <= enters'
    <3>1. Returns(t) \in Nat /\ sent' = sent
      BY <2>2, <2>4, ReturnsType DEF saved
    <3>2. CASE k = <<"cr">>
      BY <1>1, <2>2, <2>4, <3>1, <3>2
    <3>3. CASE k # <<"cr">>
      BY <1>1, <2>1, <2>2, <2>4, <3>1, <3>3
    <3> QED BY <3>2, <3>3
  <2>6. (NoPaste(t) \/ InPaste(t) \/ AtEnd(t))'
    <3>1. CASE NoPaste(ks)
      BY <2>2, <2>3, <3>1 DEF NoPaste
    <3>2. CASE InPaste(ks)
      <4>1. PICK u \in Bytes : Without("esc", u) /\ chan = Marker(pc) \o (u \o (PasteEnd \o ks))
        BY <3>2 DEF InPaste
      <4>2. PICK m : m = Marker(pc)
        OBVIOUS
      <4>3. m \in Bytes
        <5>1. /\ "esc" \in Typable /\ "[" \in Typable /\ "~" \in Typable
              /\ "2" \in Typable /\ "0" \in Typable
          BY DEF Typable, Printable, Digits
        <5> QED BY <4>2, <5>1 DEF Marker, PasteStart, Bytes
      <4>4. PICK w, v : w = PasteEnd \o ks /\ v = u \o w
        OBVIOUS
      <4>5. w \in Bytes /\ v \in Bytes
        BY <4>4, EndType, BytesConcat
      <4>6. w \o k = PasteEnd \o t
        BY <2>1, <2>3, <4>4, EndType, BytesAssociative
      <4>7. v \o k = u \o (w \o k)
        BY <2>1, <4>4, <4>5, BytesAssociative, SMTT(30)
      <4>8. (m \o v) \o k = m \o (v \o k)
        BY <2>1, <4>3, <4>5, BytesAssociative
      <4>9. chan' = Marker(pc) \o (u \o (PasteEnd \o t))
        BY <2>2, <4>1, <4>2, <4>4, <4>6, <4>7, <4>8
      <4> QED BY <2>2, <3>2, <4>1, <4>9 DEF InPaste, Shown, ui
    <3>3. CASE AtEnd(ks)
      <4>1. (Tail(PasteEnd) \o ks) \o k = Tail(PasteEnd) \o t
        BY <2>1, <2>3, EndType, ConcatAssociative DEF Bytes
      <4> QED BY <2>2, <3>3, <4>1 DEF AtEnd
    <3> QED BY <3>1, <3>2, <3>3 DEF Ahead
  <2> QED BY <2>4, <2>5, <2>6 DEF Ahead
<1>3. ASSUME NEW x \in Pastes, Paste(x)
      PROVE  \E t \in Bytes : Ahead(t)'
  <2>1. x \in Bytes /\ Without("esc", x)
    BY KeyAssumption DEF KeysApart, Bytes
  <2>2. /\ chan' = PasteStart \o x \o PasteEnd /\ UNCHANGED <<pc, ui, enters, saved>>
        /\ chan = <<>> /\ pc = "loop" /\ Shown("insert")
    BY <1>3 DEF Paste, Shown
  <2>3. PICK t : t = <<>>
    OBVIOUS
  <2>4. t \in Bytes /\ Without("0", t) /\ Returns(t) = 0
    <3>1. t \in Bytes /\ Len(t) = 0
      BY <2>3 DEF Bytes
    <3>2. Enters(t) = {}
      BY <3>1 DEF Enters
    <3> QED BY <3>1, <3>2, FS_EmptySet DEF Without, Returns
  <2>5. sent' + Returns(t) <= enters'
    <3>1. sent' = sent /\ enters' = enters
      BY <2>2 DEF saved
    <3> QED BY <1>1, <2>4, <3>1
  <2>6. chan' = Marker(pc') \o (x \o (PasteEnd \o t))
    <3>1. PasteEnd \o t = PasteEnd
      BY <2>3, EndType, ConcatEmptySeq DEF Bytes
    <3>2. (PasteStart \o x) \o PasteEnd = PasteStart \o (x \o PasteEnd)
      BY <2>1, MarkerType, ConcatAssociative DEF Bytes
    <3>3. Marker(pc') = PasteStart
      BY <2>2 DEF Marker
    <3> QED BY <2>2, <3>1, <3>2, <3>3
  <2>7. InPaste(t)'
    BY <2>1, <2>2, <2>6 DEF InPaste, Shown, ui, Opening
  <2> QED BY <2>4, <2>5, <2>7 DEF Ahead
<1> QED BY <1>2, <1>3 DEF User

LEMMA ChanStep ==
    ASSUME KeysApart, KeyInv, ChanInv, [Next]_vars
    PROVE  ChanInv'
<1>1. CASE UNCHANGED vars
  BY <1>1 DEF vars, ui, saved, ChanInv, Ahead, NoPaste, InPaste, AtEnd, Shown
<1>2. ASSUME Next, ~stalls
      PROVE  ChanInv'
  <2>1. PICK ks \in Bytes : Ahead(ks)
    BY <1>2 DEF ChanInv
  <2>2. \E t \in Bytes : Ahead(t)'
    BY <1>2, <2>1, SessionAhead, PromptAhead, UserAhead DEF Next
  <2> QED BY <2>2 DEF ChanInv
<1>3. ASSUME Next, stalls
      PROVE  ChanInv'
  BY <1>3 DEF Next, ChanInv
<1> QED BY <1>1, <1>2, <1>3

LEMMA ChanInit ==
    ASSUME Init
    PROVE  ChanInv
<1>1. KeyInv
  BY KeyInit
<1>2. chan \in Bytes /\ NoPaste(chan) /\ sent = 0 /\ enters = Len(chan)
  BY <1>1 DEF KeyInv, Flags, Init, NoPaste
<1>3. Without("0", chan) /\ Returns(chan) <= Len(chan)
  <2>1. Len(chan) \in Nat
    BY <1>2, LenProperties DEF Bytes
  <2>2. Enters(chan) \in SUBSET (1 .. Len(chan))
    BY DEF Enters
  <2>3. IsFiniteSet(1 .. Len(chan)) /\ Cardinality(1 .. Len(chan)) = Len(chan)
    <3>1. /\ IsFiniteSet(1 .. Len(chan))
          /\ Cardinality(1 .. Len(chan)) = IF 1 > Len(chan) THEN 0 ELSE Len(chan) - 1 + 1
      BY <2>1, FS_Interval
    <3> QED BY <2>1, <3>1
  <2>4. Returns(chan) <= Len(chan)
    BY <2>2, <2>3, FS_Subset DEF Returns
  <2>5. Without("0", chan)
    BY DEF Init, Without
  <2> QED BY <2>4, <2>5
<1>4. Ahead(chan)
  <2>1. Returns(chan) \in Nat /\ sent + Returns(chan) <= enters
    BY <1>2, <1>3, ReturnsType
  <2> QED BY <1>2, <1>3, <2>1 DEF Ahead
<1> QED BY <1>2, <1>4 DEF ChanInv

(* If keys and pastes can be told apart and no byte is late, the unread    *)
(* bytes are keys behind at most one paste, which handle_key reads as one. *)
THEOREM ChannelInvariant ==
    ASSUME KeysApart
    PROVE  Spec => []ChanInv
<1>1. KeyInv /\ ChanInv /\ [Next]_vars => ChanInv'
  BY ChanStep
<1>2. Init => ChanInv
  BY ChanInit
<1> QED BY <1>1, <1>2, KeyInvariant, PTL DEF Spec

(* Nothing is sent that no Enter key was pressed for: whatever lines a     *)
(* paste has, handle_key keeps them in the input line, for any keys typed  *)
(* before, during and after it.                                            *)
THEOREM OnlyEnterAlwaysSends ==
    ASSUME KeysApart
    PROVE  Spec => []OnlyEnterSends
<1>1. KeyInv /\ ChanInv => OnlyEnterSends
  <2> SUFFICES ASSUME KeyInv, ChanInv, ~stalls PROVE sent <= enters
    BY DEF OnlyEnterSends
  <2>1. PICK ks \in Bytes : Ahead(ks)
    BY DEF ChanInv
  <2>2. Returns(ks) \in Nat /\ sent \in Nat /\ enters \in Int
    BY ReturnsType DEF KeyInv, Flags
  <2> QED BY <2>1, <2>2 DEF Ahead
<1> QED BY <1>1, KeyInvariant, ChannelInvariant, PTL

(* Every paste ends: when all bytes are read, handle_key is not in a paste *)
(* any more, where it would take the next Enter for a part of it.          *)
THEOREM PastesAlwaysEnd ==
    ASSUME KeysApart
    PROVE  Spec => []PasteEnds
<1>1. ChanInv => PasteEnds
  <2> SUFFICES ASSUME ChanInv, ~stalls, chan = <<>>, pc = "paste" PROVE FALSE
    BY DEF PasteEnds
  <2>1. PICK ks \in Bytes : Ahead(ks)
    BY DEF ChanInv
  <2>2. InPaste(ks)
    BY <2>1 DEF Ahead, NoPaste, AtEnd
  <2>3. PICK u \in Bytes : chan = Marker(pc) \o (u \o (PasteEnd \o ks))
    BY <2>2 DEF InPaste
  <2>4. PICK w, v : w = PasteEnd \o ks /\ v = u \o w
    OBVIOUS
  <2>5. w \in Bytes /\ w # <<>> /\ v \in Bytes
    BY <2>4, EndType, BytesConcat, FrontRead
  <2>6. v # <<>>
    BY <2>4, <2>5, ConcatEqualIffEmpty DEF Bytes
  <2>7. Marker(pc) = <<>>
    BY DEF Marker
  <2> QED BY <2>3, <2>4, <2>5, <2>6, <2>7, ConcatEmptySeq DEF Bytes
<1> QED BY <1>1, ChannelInvariant, PTL

-----------------------------------------------------------------------------
(* Records are read as they were written.                                  *)

LEMMA ConcatReads ==
    ASSUME NEW S, NEW s \in Seq(S), NEW t \in Seq(S), NEW r, r = s \o t
    PROVE  /\ r \in Seq(S) /\ Len(r) = Len(s) + Len(t)
           /\ \A i \in 1 .. Len(s) : r[i] = s[i]
           /\ \A i \in 1 .. Len(t) : r[Len(s) + i] = t[i]
<1>1. /\ r \in Seq(S) /\ Len(r) = Len(s) + Len(t)
      /\ \A i \in 1 .. Len(s) + Len(t) : r[i] = IF i <= Len(s) THEN s[i] ELSE t[i - Len(s)]
  BY ConcatProperties
<1>2. Len(s) \in Nat /\ Len(t) \in Nat
  BY LenProperties
<1>3. ASSUME NEW i \in 1 .. Len(t)
      PROVE  r[Len(s) + i] = t[i]
  <2>1. Len(s) + i \in 1 .. Len(s) + Len(t) /\ ~(Len(s) + i <= Len(s))
        /\ (Len(s) + i) - Len(s) = i
    BY <1>2
  <2>2. r[Len(s) + i] = t[(Len(s) + i) - Len(s)]
    BY <1>1, <2>1
  <2> QED BY <2>1, <2>2
<1>4. ASSUME NEW i \in 1 .. Len(s)
      PROVE  r[i] = s[i]
  BY <1>1, <1>2
<1> QED BY <1>1, <1>3, <1>4

(* A part of a sequence that is known byte by byte.                        *)
LEMMA PartIs ==
    ASSUME NEW S, NEW s, NEW t \in Seq(S), NEW k \in Nat,
           \A i \in 1 .. Len(t) : s[k + i] = t[i]
    PROVE  SubSeq(s, k + 1, k + Len(t)) = t
<1> DEFINE p == SubSeq(s, k + 1, k + Len(t))
<1>1. Len(t) \in Nat /\ k + 1 \in Int /\ k + Len(t) \in Int
  OBVIOUS
<1>2. \A i \in 1 .. Len(t) : t[i] \in S
  BY ElementOfSeq
<1>3. ASSUME NEW j \in k + 1 .. k + Len(t)
      PROVE  s[j] \in S
  <2>1. j - k \in 1 .. Len(t) /\ k + (j - k) = j
    BY <1>1
  <2> QED BY <1>2, <2>1
<1>4. /\ p \in Seq(S)
      /\ Len(p) = IF k + 1 <= k + Len(t) THEN (k + Len(t)) - (k + 1) + 1 ELSE 0
      /\ \A i \in 1 .. (k + Len(t)) - (k + 1) + 1 : p[i] = s[(k + 1) + i - 1]
  BY <1>1, <1>3, SubSeqProperties
<1> HIDE DEF p
<1>5. Len(p) = Len(t)
  BY <1>1, <1>4
<1>6. \A i \in 1 .. Len(p) : p[i] = t[i]
  <2>1. SUFFICES ASSUME NEW i \in 1 .. Len(p) PROVE p[i] = t[i]
    OBVIOUS
  <2>2. i \in 1 .. Len(t) /\ (k + 1) + i - 1 = k + i /\ i \in 1 .. (k + Len(t)) - (k + 1) + 1
    BY <1>1, <1>5
  <2>3. p[i] = s[k + i]
    BY <1>4, <2>2
  <2> QED BY <2>2, <2>3
<1>7. p = t
  BY <1>4, <1>5, <1>6, SeqEqual
<1> QED BY <1>7 DEF p

(* Where the bytes of a record are.                                        *)
LEMMA RecordBytes ==
    ASSUME NEW F, {"time", "bar", "nl"} \subseteq F,
           NEW u \in Seq(F), NEW c \in Seq(F), NEW line,
           line = Format([user |-> u, content |-> c])
    PROVE  /\ Len(line) = Len(u) + Len(c) + 4 /\ line # <<>>
           /\ line[1] = "time" /\ line[2] = "bar"
           /\ \A i \in 1 .. Len(u) : line[2 + i] = u[i]
           /\ line[Len(u) + 3] = "bar"
           /\ \A i \in 1 .. Len(c) : line[Len(u) + 3 + i] = c[i]
           /\ line[Len(u) + Len(c) + 4] = "nl"
<1> DEFINE m == Len(u)
           n == Len(c)
<1>1. PICK h : h = <<"time", "bar">>
  OBVIOUS
<1>2. h \in Seq(F) /\ Len(h) = 2 /\ h[1] = "time" /\ h[2] = "bar"
  BY <1>1
<1>3. PICK x : x = <<"bar">>
  OBVIOUS
<1>4. x \in Seq(F) /\ Len(x) = 1 /\ x[1] = "bar"
  BY <1>3
<1>5. PICK y : y = <<"nl">>
  OBVIOUS
<1>6. y \in Seq(F) /\ Len(y) = 1 /\ y[1] = "nl"
  BY <1>5
<1>7. m \in Nat /\ n \in Nat
  BY LenProperties
<1>8. PICK p : p = h \o u
  OBVIOUS
<1>9. PICK q : q = p \o x
  OBVIOUS
<1>10. PICK r : r = q \o c
  OBVIOUS
<1>11. line = r \o y
  BY <1>1, <1>3, <1>5, <1>8, <1>9, <1>10 DEF Format
<1>12. /\ p \in Seq(F) /\ Len(p) = m + 2
       /\ \A i \in 1 .. 2 : p[i] = h[i]
       /\ \A i \in 1 .. m : p[2 + i] = u[i]
  <2>1. /\ p \in Seq(F) /\ Len(p) = Len(h) + Len(u)
        /\ \A i \in 1 .. Len(h) : p[i] = h[i]
        /\ \A i \in 1 .. Len(u) : p[Len(h) + i] = u[i]
    <3>1. h \in Seq(F)
      BY <1>2
    <3> QED BY <1>8, <3>1, ConcatReads
  <2> QED BY <1>2, <1>7, <2>1
<1>13. /\ q \in Seq(F) /\ Len(q) = m + 3
       /\ \A i \in 1 .. m + 2 : q[i] = p[i]
       /\ q[m + 3] = "bar"
  <2>1. /\ q \in Seq(F) /\ Len(q) = Len(p) + Len(x)
        /\ \A i \in 1 .. Len(p) : q[i] = p[i]
        /\ \A i \in 1 .. Len(x) : q[Len(p) + i] = x[i]
    <3>1. p \in Seq(F) /\ x \in Seq(F)
      BY <1>4, <1>12
    <3> QED BY <1>9, <3>1, ConcatReads
  <2>2. q[Len(p) + 1] = x[1] /\ Len(p) + 1 = m + 3
    BY <1>4, <1>7, <1>12, <2>1
  <2> QED BY <1>4, <1>7, <1>12, <2>1, <2>2
<1>14. /\ r \in Seq(F) /\ Len(r) = m + n + 3
       /\ \A i \in 1 .. m + 3 : r[i] = q[i]
       /\ \A i \in 1 .. n : r[m + 3 + i] = c[i]
  <2>1. /\ r \in Seq(F) /\ Len(r) = Len(q) + Len(c)
        /\ \A i \in 1 .. Len(q) : r[i] = q[i]
        /\ \A i \in 1 .. Len(c) : r[Len(q) + i] = c[i]
    <3>1. q \in Seq(F)
      BY <1>13
    <3> QED BY <1>10, <3>1, ConcatReads
  <2> QED BY <1>7, <1>13, <2>1
<1>15. /\ Len(line) = m + n + 4
       /\ \A i \in 1 .. m + n + 3 : line[i] = r[i]
       /\ line[m + n + 4] = "nl"
  <2> PICK z : z = r \o y
    OBVIOUS
  <2>1. /\ z \in Seq(F) /\ Len(z) = Len(r) + Len(y)
        /\ \A i \in 1 .. Len(r) : z[i] = r[i]
        /\ \A i \in 1 .. Len(y) : z[Len(r) + i] = y[i]
    <3>1. r \in Seq(F) /\ y \in Seq(F)
      BY <1>6, <1>14
    <3> QED BY <3>1, ConcatReads
  <2>2. z[Len(r) + 1] = y[1] /\ Len(r) + 1 = m + n + 4
    BY <1>6, <1>7, <1>14, <2>1
  <2> QED BY <1>6, <1>7, <1>11, <1>14, <2>1, <2>2
<1> HIDE DEF m, n
<1>16. \A i \in 1 .. m + 3 : line[i] = q[i]
  BY <1>7, <1>14, <1>15
<1>17. \A i \in 1 .. m + 2 : line[i] = p[i]
  BY <1>7, <1>13, <1>16
<1>18. line[1] = "time" /\ line[2] = "bar"
  BY <1>2, <1>7, <1>12, <1>17
<1>19. ASSUME NEW i \in 1 .. m
       PROVE  line[2 + i] = u[i]
  <2>1. 2 + i \in 1 .. m + 2
    BY <1>7
  <2> QED BY <1>12, <1>17, <2>1
<1>20. line[m + 3] = "bar"
  BY <1>7, <1>13, <1>16
<1>21. ASSUME NEW i \in 1 .. n
       PROVE  line[m + 3 + i] = c[i]
  <2>1. m + 3 + i \in 1 .. m + n + 3
    BY <1>7
  <2> QED BY <1>14, <1>15, <2>1
<1>22. line # <<>>
  BY <1>7, <1>15
<1> QED BY <1>15, <1>18, <1>19, <1>20, <1>21, <1>22 DEF m, n

(* message_log_parse_record reads what message_log_format_record wrote.    *)
LEMMA RecordReads ==
    ASSUME NEW E, NEW u \in Seq(E), NEW c \in Seq(E), "bar" \notin E,
           u # <<>>, c # <<>>, Len(u) < NameSize, Len(c) < InputSize, Whole(u), Whole(c)
    PROVE  Parse(Format([user |-> u, content |-> c])) = [user |-> u, content |-> c]
<1> DEFINE bars(t) == {i \in 1 .. Len(t) : t[i] = "bar"}
           m == Len(u)
           n == Len(c)
<1>1. PICK line : line = Format([user |-> u, content |-> c])
  OBVIOUS
<1>2. /\ Len(line) = m + n + 4 /\ line # <<>>
      /\ line[1] = "time" /\ line[2] = "bar"
      /\ \A i \in 1 .. m : line[2 + i] = u[i]
      /\ line[m + 3] = "bar"
      /\ \A i \in 1 .. n : line[m + 3 + i] = c[i]
      /\ line[m + n + 4] = "nl"
  <2> DEFINE F == E \cup {"time", "bar", "nl"}
  <2>1. {"time", "bar", "nl"} \subseteq F /\ u \in Seq(F) /\ c \in Seq(F)
    OBVIOUS
  <2> HIDE DEF F
  <2> QED BY <1>1, <2>1, RecordBytes
<1>3. m \in Nat \ {0} /\ n \in Nat \ {0}
  BY EmptySeq
<1>4. /\ \A i \in 1 .. m : u[i] # "bar"
      /\ \A i \in 1 .. n : c[i] # "bar"
  BY ElementOfSeq
<1>5. SubSeq(line, 3, m + 2) = u
  <2>1. PICK k : k = 2
    OBVIOUS
  <2>2. k \in Nat /\ \A i \in 1 .. Len(u) : line[k + i] = u[i]
    BY <1>2, <2>1
  <2>3. SubSeq(line, k + 1, k + Len(u)) = u
    BY <1>2, <2>2, PartIs
  <2> QED BY <1>3, <2>1, <2>3
<1>6. SubSeq(line, m + 4, m + n + 3) = c
  <2>1. SubSeq(line, (m + 3) + 1, (m + 3) + Len(c)) = c
    <3>1. m + 3 \in Nat
      BY <1>3
    <3> QED BY <1>2, <3>1, PartIs
  <2> QED BY <1>3, <2>1
<1> HIDE DEF m, n
<1>7. bars(line) = {2, m + 3}
  <2>1. ASSUME NEW i \in 1 .. Len(line), line[i] = "bar"
        PROVE  i \in {2, m + 3}
    <3>1. CASE i \in 3 .. m + 2
      <4>1. i - 2 \in 1 .. m /\ 2 + (i - 2) = i
        BY <1>3, <3>1
      <4> QED BY <1>2, <1>4, <2>1, <4>1
    <3>2. CASE i \in m + 4 .. m + n + 3
      <4>1. i - (m + 3) \in 1 .. n /\ m + 3 + (i - (m + 3)) = i
        BY <1>3, <3>2
      <4> QED BY <1>2, <1>4, <2>1, <4>1
    <3>3. i \in Int /\ 1 <= i /\ i <= m + n + 4
      BY <1>2, <1>3
    <3>4. i # 1 /\ i # m + n + 4
      BY <1>2, <2>1
    <3> QED BY <1>3, <3>1, <3>2, <3>3, <3>4
  <2>2. 2 \in 1 .. Len(line) /\ m + 3 \in 1 .. Len(line)
    BY <1>2, <1>3
  <2> QED BY <1>2, <2>1, <2>2
<1> HIDE DEF bars
<1>8. Cardinality(bars(line)) = 2
  <2>1. PICK A : A = {2}
    OBVIOUS
  <2>2. IsFiniteSet(A) /\ Cardinality(A) = 1
    BY <2>1, FS_Singleton
  <2>3. m + 3 \notin A /\ bars(line) = A \cup {m + 3}
    BY <1>3, <1>7, <2>1
  <2>4. Cardinality(A \cup {m + 3}) = Cardinality(A) + 1
    BY <2>2, <2>3, FS_AddElement
  <2> QED BY <2>2, <2>3, <2>4
<1>9. Min(bars(line)) = 2 /\ Max(bars(line)) = m + 3
  BY <1>3, <1>7 DEF Min, Max
<1>10. /\ Len(line) - 1 = m + n + 3 /\ Min(bars(line)) + 1 = 3
       /\ Max(bars(line)) - 1 = m + 2 /\ Max(bars(line)) + 1 = m + 4
  BY <1>2, <1>3, <1>9
<1>11. /\ SubSeq(line, Min(bars(line)) + 1, Max(bars(line)) - 1) = u
       /\ SubSeq(line, Max(bars(line)) + 1, Len(line) - 1) = c
  BY <1>5, <1>6, <1>10
<1>12. Last(line) = "nl" /\ line[1] # "bar"
  BY <1>2 DEF Last
<1>13. Parse(line) = [user |-> u, content |-> c]
  BY <1>2, <1>8, <1>11, <1>12 DEF Parse, bars
<1> QED BY <1>1, <1>13

-----------------------------------------------------------------------------
(* JSON strings are read as they were written.                             *)

(* What has been made of the first i bytes, and read up to the i-th byte;  *)
(* the recursive functions of JsonString and JsonParsed exist.             *)
MadeStep(s, f, i) == IF i = 0 THEN <<"quote">> ELSE f[i - 1] \o Escaped(s[i])
Made(s) == CHOOSE f : f = [i \in 0 .. Len(s) |-> MadeStep(s, f, i)]

LEMMA MadeExists ==
    ASSUME NEW s, Len(s) \in Nat
    PROVE  Made(s) = [i \in 0 .. Len(s) |-> MadeStep(s, Made(s), i)]
<1> DEFINE T == {n \in 0 .. Len(s) : \E f : f = [i \in 0 .. n |-> MadeStep(s, f, i)]}
<1>1. 0 \in T
  <2> DEFINE f == [i \in 0 .. 0 |-> <<"quote">>]
  <2>1. f = [i \in 0 .. 0 |-> MadeStep(s, f, i)]
    BY DEF MadeStep
  <2>2. 0 \in 0 .. Len(s)
    OBVIOUS
  <2> QED BY <2>1, <2>2
<1>2. ASSUME NEW n \in T, n < Len(s)
      PROVE  n + 1 \in T
  <2>1. n \in 0 .. Len(s) /\ n + 1 \in 0 .. Len(s)
    BY <1>2
  <2>2. PICK f : f = [i \in 0 .. n |-> MadeStep(s, f, i)]
    BY <1>2
  <2> DEFINE g == [i \in 0 .. n + 1 |-> IF i = n + 1 THEN MadeStep(s, f, i) ELSE f[i]]
  <2>3. ASSUME NEW i \in 0 .. n + 1
        PROVE  g[i] = MadeStep(s, g, i)
    <3>1. g[i] = MadeStep(s, f, i)
      BY <2>1, <2>2, <2>3
    <3>2. CASE i = 0
      BY <3>1, <3>2 DEF MadeStep
    <3>3. CASE i # 0
      <4>1. i - 1 \in 0 .. n + 1 /\ i - 1 # n + 1
        BY <2>1, <2>3, <3>3
      <4>2. g[i - 1] = f[i - 1]
        BY <4>1
      <4> HIDE DEF g
      <4> QED BY <3>1, <3>3, <4>2 DEF MadeStep
    <3> QED BY <3>2, <3>3
  <2>4. g = [i \in 0 .. n + 1 |-> g[i]]
    OBVIOUS
  <2> HIDE DEF g
  <2>5. g = [i \in 0 .. n + 1 |-> MadeStep(s, g, i)]
    BY <2>3, <2>4
  <2> QED BY <2>1, <2>5
<1> HIDE DEF T
<1>3. T \in SUBSET (0 .. Len(s))
  BY DEF T
<1>4. Len(s) \in T
  <2>1. \A i \in 0 .. Len(s) : i \in T
    BY <1>1, <1>2, <1>3, IndexInduction
  <2> QED BY <2>1
<1>5. \E f : f = [i \in 0 .. Len(s) |-> MadeStep(s, f, i)]
  BY <1>4 DEF T
<1> QED BY <1>5 DEF Made

Unread == [at |-> "start", out |-> <<>>]

ReadStep(s, f, i) == IF i = 0 THEN Unread ELSE JsonStep(f[i - 1], s[i])
Read(s) == CHOOSE f : f = [i \in 0 .. Len(s) |-> ReadStep(s, f, i)]

LEMMA ReadExists ==
    ASSUME NEW s, Len(s) \in Nat
    PROVE  Read(s) = [i \in 0 .. Len(s) |-> ReadStep(s, Read(s), i)]
<1> DEFINE T == {n \in 0 .. Len(s) : \E f : f = [i \in 0 .. n |-> ReadStep(s, f, i)]}
<1>1. 0 \in T
  <2> DEFINE f == [i \in 0 .. 0 |-> Unread]
  <2>1. f = [i \in 0 .. 0 |-> ReadStep(s, f, i)]
    BY DEF ReadStep
  <2>2. 0 \in 0 .. Len(s)
    OBVIOUS
  <2> QED BY <2>1, <2>2
<1>2. ASSUME NEW n \in T, n < Len(s)
      PROVE  n + 1 \in T
  <2>1. n \in 0 .. Len(s) /\ n + 1 \in 0 .. Len(s)
    BY <1>2
  <2>2. PICK f : f = [i \in 0 .. n |-> ReadStep(s, f, i)]
    BY <1>2
  <2> DEFINE g == [i \in 0 .. n + 1 |-> IF i = n + 1 THEN ReadStep(s, f, i) ELSE f[i]]
  <2>3. ASSUME NEW i \in 0 .. n + 1
        PROVE  g[i] = ReadStep(s, g, i)
    <3>1. g[i] = ReadStep(s, f, i)
      BY <2>1, <2>2, <2>3
    <3>2. CASE i = 0
      BY <3>1, <3>2 DEF ReadStep
    <3>3. CASE i # 0
      <4>1. i - 1 \in 0 .. n + 1 /\ i - 1 # n + 1
        BY <2>1, <2>3, <3>3
      <4>2. g[i - 1] = f[i - 1]
        BY <4>1
      <4> HIDE DEF g
      <4> QED BY <3>1, <3>3, <4>2 DEF ReadStep
    <3> QED BY <3>2, <3>3
  <2>4. g = [i \in 0 .. n + 1 |-> g[i]]
    OBVIOUS
  <2> HIDE DEF g
  <2>5. g = [i \in 0 .. n + 1 |-> ReadStep(s, g, i)]
    BY <2>3, <2>4
  <2> QED BY <2>1, <2>5
<1> HIDE DEF T
<1>3. T \in SUBSET (0 .. Len(s))
  BY DEF T
<1>4. Len(s) \in T
  <2>1. \A i \in 0 .. Len(s) : i \in T
    BY <1>1, <1>2, <1>3, IndexInduction
  <2> QED BY <2>1
<1>5. \E f : f = [i \in 0 .. Len(s) |-> ReadStep(s, f, i)]
  BY <1>4 DEF T
<1> QED BY <1>5 DEF Read

LEMMA JsonScans ==
    /\ \A s : JsonString(s) = Made(s)[Len(s)] \o <<"quote">>
    /\ \A s : JsonParsed(s) = LET end == Read(s)[Len(s)]
                             IN  IF end.at = "done" THEN end.out ELSE <<>>
<1>1. ASSUME NEW s
      PROVE  JsonString(s) = Made(s)[Len(s)] \o <<"quote">>
  BY DEF JsonString, Made, MadeStep
<1>2. ASSUME NEW s
      PROVE  JsonParsed(s) = LET end == Read(s)[Len(s)]
                             IN  IF end.at = "done" THEN end.out ELSE <<>>
  BY DEF JsonParsed, Read, ReadStep, Unread
<1> QED BY <1>1, <1>2

Reading(at, o) == [at |-> at, out |-> o]

(* One byte of a JSON string.                                              *)
LEMMA JsonSteps ==
    ASSUME NEW o, NEW b
    PROVE  /\ JsonStep(Unread, "quote") = Reading("text", <<>>)
           /\ b \notin {"quote", "back"} =>
                  JsonStep(Reading("text", o), b) = Reading("text", Append(o, b))
           /\ JsonStep(Reading("text", o), "back") = Reading("escape", o)
           /\ JsonStep(Reading("text", o), "quote") = Reading("done", o)
           /\ b \in {"quote", "back"} =>
                  JsonStep(Reading("escape", o), b) = Reading("text", Append(o, b))
  BY DEF JsonStep, Unread, Reading

Escapes(F) == {"quote", "back"} \subseteq F

LEMMA EscapedIs ==
    ASSUME NEW F, Escapes(F), NEW b \in F, NEW e, e = Escaped(b)
    PROVE  /\ e \in Seq(F)
           /\ b \in {"quote", "back"} => Len(e) = 2 /\ e[1] = "back" /\ e[2] = b
           /\ b \notin {"quote", "back"} => Len(e) = 1 /\ e[1] = b
<1>1. CASE b \in {"quote", "back"}
  <2>1. e = <<"back", b>>
    BY <1>1 DEF Escaped
  <2> QED BY <1>1, <2>1 DEF Escapes
<1>2. CASE b \notin {"quote", "back"}
  <2>1. e = <<b>>
    BY <1>2 DEF Escaped
  <2> QED BY <1>2, <2>1
<1> QED BY <1>1, <1>2

LEMMA MadeSteps ==
    ASSUME NEW s, Len(s) \in Nat
    PROVE  /\ Made(s)[0] = <<"quote">>
           /\ \A i \in 1 .. Len(s) : Made(s)[i] = Made(s)[i - 1] \o Escaped(s[i])
<1> DEFINE m == Made(s)
<1>1. m = [i \in 0 .. Len(s) |-> MadeStep(s, m, i)]
  BY MadeExists
<1> HIDE DEF m
<1>2. \A i \in 0 .. Len(s) : m[i] = MadeStep(s, m, i)
  BY <1>1
<1>3. m[0] = <<"quote">>
  BY <1>2 DEF MadeStep
<1>4. ASSUME NEW i \in 1 .. Len(s)
      PROVE  m[i] = m[i - 1] \o Escaped(s[i])
  <2>1. i \in 0 .. Len(s) /\ i # 0
    OBVIOUS
  <2> QED BY <1>2, <2>1 DEF MadeStep
<1> QED BY <1>3, <1>4 DEF m

LEMMA ReadSteps ==
    ASSUME NEW s, Len(s) \in Nat
    PROVE  /\ Read(s)[0] = Unread
           /\ \A i \in 1 .. Len(s) : Read(s)[i] = JsonStep(Read(s)[i - 1], s[i])
<1> DEFINE r == Read(s)
<1>1. r = [i \in 0 .. Len(s) |-> ReadStep(s, r, i)]
  BY ReadExists
<1> HIDE DEF r
<1>2. \A i \in 0 .. Len(s) : r[i] = ReadStep(s, r, i)
  BY <1>1
<1>3. r[0] = Unread
  BY <1>2 DEF ReadStep
<1>4. ASSUME NEW i \in 1 .. Len(s)
      PROVE  r[i] = JsonStep(r[i - 1], s[i])
  <2>1. i \in 0 .. Len(s) /\ i # 0
    OBVIOUS
  <2> QED BY <1>2, <2>1 DEF ReadStep
<1> QED BY <1>3, <1>4 DEF r

(* The string made of i bytes begins the one made of all.                  *)
Begins(p, q) == Len(p) <= Len(q) /\ \A j \in 1 .. Len(p) : q[j] = p[j]

LEMMA MadeType ==
    ASSUME NEW F, Escapes(F), NEW s \in Seq(F)
    PROVE  \A i \in 0 .. Len(s) : Made(s)[i] \in Seq(F)
<1> DEFINE m == Made(s)
           T == {i \in 0 .. Len(s) : m[i] \in Seq(F)}
<1>1. /\ Len(s) \in Nat /\ m[0] = <<"quote">>
      /\ \A i \in 1 .. Len(s) : m[i] = m[i - 1] \o Escaped(s[i])
  BY LenProperties, MadeSteps
<1> HIDE DEF m
<1>2. 0 \in T
  <2>1. PICK e : e = <<"quote">>
    OBVIOUS
  <2>2. e \in Seq(F)
    BY <2>1 DEF Escapes
  <2>3. m[0] \in Seq(F) /\ 0 \in 0 .. Len(s)
    BY <1>1, <2>1, <2>2
  <2> QED BY <2>3
<1>3. ASSUME NEW i \in T, i < Len(s)
      PROVE  i + 1 \in T
  <2>1. i + 1 \in 1 .. Len(s) /\ i + 1 \in 0 .. Len(s) /\ (i + 1) - 1 = i
    BY <1>1, <1>3
  <2>2. PICK b : b = s[i + 1]
    OBVIOUS
  <2>3. b \in F
    BY <2>1, <2>2, ElementOfSeq
  <2>4. PICK e : e = Escaped(b)
    OBVIOUS
  <2>5. e \in Seq(F)
    BY <2>3, <2>4, EscapedIs
  <2>6. PICK p : p = m[i]
    OBVIOUS
  <2>7. p \in Seq(F)
    BY <1>3, <2>6
  <2>8. m[i + 1] = p \o e
    BY <1>1, <2>1, <2>2, <2>4, <2>6
  <2>9. p \o e \in Seq(F)
    BY <2>5, <2>7, ConcatProperties
  <2> QED BY <2>1, <2>8, <2>9
<1>4. T \in SUBSET (0 .. Len(s))
  OBVIOUS
<1> HIDE DEF T
<1>5. \A i \in 0 .. Len(s) : i \in T
  BY <1>1, <1>2, <1>3, <1>4, IndexInduction
<1> QED BY <1>5 DEF T, m

LEMMA BeginsConcat ==
    ASSUME NEW F, NEW p \in Seq(F), NEW e \in Seq(F), NEW q, q = p \o e, NEW w, Begins(q, w)
    PROVE  Begins(p, w)
<1>1. /\ Len(p) \in Nat /\ Len(e) \in Nat /\ Len(q) = Len(p) + Len(e)
      /\ \A j \in 1 .. Len(p) : q[j] = p[j]
  BY LenProperties, ConcatReads
<1>2. \A j \in 1 .. Len(q) : w[j] = q[j]
  BY DEF Begins
<1>3. \A j \in 1 .. Len(p) : w[j] = p[j]
  BY <1>1, <1>2
<1>4. Len(p) <= Len(w)
  BY <1>1 DEF Begins
<1> QED BY <1>3, <1>4 DEF Begins

LEMMA MadeGrows ==
    ASSUME NEW F, Escapes(F), NEW s \in Seq(F)
    PROVE  \A i \in 0 .. Len(s) : Begins(Made(s)[i], Made(s)[Len(s)])
<1> DEFINE m == Made(s)
           n == Len(s)
           T == {d \in 0 .. n : Begins(m[n - d], m[n])}
<1>1. /\ n \in Nat
      /\ \A i \in 1 .. n : m[i] = m[i - 1] \o Escaped(s[i])
      /\ \A i \in 0 .. n : m[i] \in Seq(F)
  BY LenProperties, MadeSteps, MadeType
<1>2. \A i \in 1 .. n : s[i] \in F
  BY ElementOfSeq
<1> HIDE DEF m, n
<1>3. 0 \in T
  <2>1. n - 0 = n /\ 0 \in 0 .. n /\ m[n] \in Seq(F)
    BY <1>1
  <2>2. Len(m[n]) \in Nat
    BY <2>1, LenProperties
  <2>3. Begins(m[n], m[n])
    BY <2>2 DEF Begins
  <2> QED BY <2>1, <2>3
<1>4. ASSUME NEW d \in T, d < n
      PROVE  d + 1 \in T
  <2>1. n - d \in 1 .. n /\ n - (d + 1) = (n - d) - 1 /\ n - (d + 1) \in 0 .. n /\ d + 1 \in 0 .. n
    BY <1>1, <1>4
  <2>2. PICK e : e = Escaped(s[n - d])
    OBVIOUS
  <2>3. e \in Seq(F)
    <3>1. PICK b : b = s[n - d]
      OBVIOUS
    <3>2. b \in F
      BY <1>2, <2>1, <3>1
    <3> QED BY <2>2, <3>1, <3>2, EscapedIs
  <2>4. PICK p : p = m[n - (d + 1)]
    OBVIOUS
  <2>5. PICK q : q = m[n - d]
    OBVIOUS
  <2>6. p \in Seq(F) /\ q = p \o e
    BY <1>1, <2>1, <2>2, <2>4, <2>5
  <2>7. Begins(q, m[n])
    BY <1>4, <2>5
  <2>8. Begins(p, m[n])
    BY <2>3, <2>6, <2>7, BeginsConcat
  <2> QED BY <2>1, <2>4, <2>8
<1>5. T \in SUBSET (0 .. n)
  OBVIOUS
<1> HIDE DEF T
<1>6. \A d \in 0 .. n : d \in T
  BY <1>1, <1>3, <1>4, <1>5, IndexInduction
<1>7. ASSUME NEW i \in 0 .. n
      PROVE  Begins(m[i], m[n])
  <2>1. n - i \in 0 .. n /\ n - (n - i) = i
    BY <1>1
  <2>2. n - i \in T
    BY <1>6, <2>1
  <2> QED BY <2>1, <2>2 DEF T
<1> QED BY <1>7 DEF m, n

(* A byte and the bytes that stand for it.                                 *)
Follows(e, k, t) == \A j \in 1 .. Len(e) : t[k + j] = e[j]
StepsOver(r, k, e, t) ==
    \A j \in 1 .. Len(e) : r[k + j] = JsonStep(r[(k + j) - 1], t[k + j])

LEMMA EscapedReads ==
    ASSUME NEW F, Escapes(F), NEW b \in F, NEW e, e = Escaped(b),
           NEW k \in Nat, NEW t, NEW o, NEW r, Follows(e, k, t), StepsOver(r, k, e, t),
           r[k] = Reading("text", o)
    PROVE  r[k + Len(e)] = Reading("text", Append(o, b))
<1>1. CASE b \in {"quote", "back"}
  <2>1. Len(e) = 2 /\ e[1] = "back" /\ e[2] = b
    BY <1>1, EscapedIs
  <2>2. /\ 1 \in 1 .. Len(e) /\ 2 \in 1 .. Len(e)
        /\ (k + 1) - 1 = k /\ (k + 2) - 1 = k + 1 /\ k + Len(e) = k + 2
    BY <2>1
  <2>3. t[k + 1] = "back" /\ t[k + 2] = b
    BY <2>1, <2>2 DEF Follows
  <2>4. r[k + 1] = JsonStep(Reading("text", o), "back")
    BY <2>2, <2>3 DEF StepsOver
  <2>5. r[k + 1] = Reading("escape", o)
    BY <2>4, JsonSteps
  <2>6. r[k + 2] = JsonStep(Reading("escape", o), b)
    BY <2>2, <2>3, <2>5 DEF StepsOver
  <2>7. r[k + 2] = Reading("text", Append(o, b))
    BY <1>1, <2>6, JsonSteps
  <2> QED BY <2>2, <2>7
<1>2. CASE b \notin {"quote", "back"}
  <2>1. Len(e) = 1 /\ e[1] = b
    BY <1>2, EscapedIs
  <2>2. 1 \in 1 .. Len(e) /\ (k + 1) - 1 = k /\ k + Len(e) = k + 1
    BY <2>1
  <2>3. t[k + 1] = b
    BY <2>1, <2>2 DEF Follows
  <2>4. r[k + 1] = JsonStep(Reading("text", o), b)
    BY <2>2, <2>3 DEF StepsOver
  <2>5. r[k + 1] = Reading("text", Append(o, b))
    BY <1>2, <2>4, JsonSteps
  <2> QED BY <2>2, <2>5
<1> QED BY <1>1, <1>2

LEMMA PrefixAppended ==
    ASSUME NEW F, NEW s \in Seq(F), NEW i \in Nat, i + 1 <= Len(s)
    PROVE  Append(SubSeq(s, 1, i), s[i + 1]) = SubSeq(s, 1, i + 1)
<1>1. Len(s) \in Nat /\ \A j \in 1 .. Len(s) : s[j] \in F
  BY LenProperties, ElementOfSeq
<1>2. PICK p : p = SubSeq(s, 1, i)
  OBVIOUS
<1>3. PICK q : q = SubSeq(s, 1, i + 1)
  OBVIOUS
<1>4. p \in Seq(F) /\ Len(p) = i /\ \A j \in 1 .. i : p[j] = s[j]
  BY <1>1, <1>2, SubSeqProperties
<1>5. q \in Seq(F) /\ Len(q) = i + 1 /\ \A j \in 1 .. i + 1 : q[j] = s[j]
  BY <1>1, <1>3, SubSeqProperties
<1>6. PICK a : a = Append(p, s[i + 1])
  OBVIOUS
<1>7. s[i + 1] \in F
  BY <1>1
<1>8. /\ a \in Seq(F) /\ Len(a) = i + 1
      /\ \A j \in 1 .. i : a[j] = p[j]
      /\ a[i + 1] = s[i + 1]
  BY <1>4, <1>6, <1>7, AppendProperties
<1>9. \A j \in 1 .. Len(a) : a[j] = q[j]
  BY <1>4, <1>5, <1>8
<1>10. a = q
  BY <1>5, <1>8, <1>9, SeqEqual
<1> QED BY <1>2, <1>3, <1>6, <1>10

(* parse_json_string reads what tnt_json_append_string wrote.              *)
LEMMA JsonReads ==
    ASSUME NEW E, NEW s \in Seq(E)
    PROVE  JsonParsed(JsonString(s)) = s
<1> DEFINE F == E \cup {"quote", "back"}
           n == Len(s)
           m == Made(s)
<1>1. Escapes(F) /\ s \in Seq(F)
  BY DEF Escapes
<1> HIDE DEF F
<1>2. /\ n \in Nat /\ m[0] = <<"quote">>
      /\ \A i \in 1 .. n : m[i] = m[i - 1] \o Escaped(s[i])
      /\ \A i \in 0 .. n : m[i] \in Seq(F)
  BY <1>1, LenProperties, MadeSteps, MadeType
<1>3. \A i \in 0 .. n : Begins(m[i], m[n])
  BY <1>1, MadeGrows
<1>4. \A i \in 1 .. n : s[i] \in F
  BY <1>1, ElementOfSeq
<1>5. PICK w : w = m[n]
  OBVIOUS
<1>6. PICK q : q = <<"quote">>
  OBVIOUS
<1>7. PICK t : t = w \o q
  OBVIOUS
<1>8. t = JsonString(s)
  BY <1>5, <1>6, <1>7, JsonScans
<1>9. w \in Seq(F) /\ Len(w) \in Nat
  <2>1. w \in Seq(F)
    BY <1>2, <1>5
  <2> QED BY <2>1, LenProperties
<1>10. q \in Seq(F) /\ Len(q) = 1
  BY <1>1, <1>6 DEF Escapes
<1>11. q[1] = "quote"
  BY <1>6
<1>12. /\ t \in Seq(F) /\ Len(t) = Len(w) + Len(q)
       /\ \A i \in 1 .. Len(w) : t[i] = w[i]
       /\ \A i \in 1 .. Len(q) : t[Len(w) + i] = q[i]
  <2>1. w \in Seq(F) /\ q \in Seq(F)
    BY <1>9, <1>10
  <2> QED BY <1>7, <2>1, ConcatReads
<1>13. Len(t) = Len(w) + 1 /\ Len(t) \in Nat /\ t[Len(w) + 1] = "quote"
  BY <1>9, <1>10, <1>11, <1>12
<1>14. PICK r : r = Read(t)
  OBVIOUS
<1>15. r[0] = Unread /\ \A i \in 1 .. Len(t) : r[i] = JsonStep(r[i - 1], t[i])
  BY <1>13, <1>14, ReadSteps
<1> DEFINE o(i) == SubSeq(s, 1, i)
           T == {i \in 0 .. n : Len(m[i]) \in Nat \ {0} /\ r[Len(m[i])] = Reading("text", o(i))}
<1> HIDE DEF n, m
<1>16. 0 \in T
  <2>1. Begins(m[0], w) /\ m[0] = q /\ 0 \in 0 .. n
    BY <1>2, <1>3, <1>5, <1>6
  <2>2. Len(w) >= 1 /\ w[1] = "quote"
    <3>1. Begins(q, w)
      BY <2>1
    <3>2. Len(q) <= Len(w) /\ \A j \in 1 .. Len(q) : w[j] = q[j]
      BY <3>1 DEF Begins
    <3>3. Len(w) >= 1 /\ w[1] = q[1]
      BY <1>10, <3>2
    <3> QED BY <1>11, <3>3
  <2>3. 1 \in 1 .. Len(t) /\ t[1] = "quote" /\ 1 - 1 = 0
    BY <1>9, <1>12, <1>13, <2>2
  <2>4. r[1] = JsonStep(Unread, "quote")
    BY <1>15, <2>3
  <2>5. r[1] = Reading("text", <<>>)
    BY <2>4, JsonSteps
  <2>6. o(0) = <<>>
    <3>1. 0 < 1 /\ 1 \in Int /\ 0 \in Int
      OBVIOUS
    <3> QED BY <3>1, SubSeqEmpty
  <2>7. Len(m[0]) = 1
    BY <1>10, <2>1
  <2> HIDE DEF o
  <2>8. r[Len(m[0])] = Reading("text", o(0))
    BY <2>5, <2>6, <2>7
  <2>9. 0 \in 0 .. n /\ Len(m[0]) \in Nat \ {0}
    BY <2>1, <2>7
  <2> QED BY <2>8, <2>9
<1>17. ASSUME NEW i \in T, i < n
       PROVE  i + 1 \in T
  <2>1. i \in 0 .. n /\ i + 1 \in 1 .. n /\ i + 1 \in 0 .. n /\ (i + 1) - 1 = i
    BY <1>2, <1>17
  <2>2. PICK b : b = s[i + 1]
    OBVIOUS
  <2>3. b \in F
    BY <1>4, <2>1, <2>2
  <2>4. PICK e : e = Escaped(b)
    OBVIOUS
  <2>5. e \in Seq(F)
    BY <1>1, <2>3, <2>4, EscapedIs
  <2>6. PICK p : p = m[i]
    OBVIOUS
  <2>7. PICK v : v = m[i + 1]
    OBVIOUS
  <2>8. p \in Seq(F) /\ v = p \o e
    BY <1>2, <2>1, <2>2, <2>4, <2>6, <2>7
  <2>9. /\ Len(v) = Len(p) + Len(e)
        /\ \A j \in 1 .. Len(e) : v[Len(p) + j] = e[j]
    BY <2>5, <2>8, ConcatReads
  <2>10. Begins(v, w)
    BY <1>3, <1>5, <2>1, <2>7
  <2>11. Len(p) \in Nat /\ Len(e) \in Nat /\ Len(v) <= Len(w)
    BY <2>5, <2>8, <2>10, LenProperties DEF Begins
  <2>12. ASSUME NEW j \in 1 .. Len(e)
         PROVE  /\ t[Len(p) + j] = e[j]
                /\ r[Len(p) + j] = JsonStep(r[(Len(p) + j) - 1], t[Len(p) + j])
    <3>1. /\ Len(p) + j \in 1 .. Len(v) /\ Len(p) + j \in 1 .. Len(w)
          /\ Len(p) + j \in 1 .. Len(t)
      BY <1>9, <1>13, <2>9, <2>11
    <3>2. v[Len(p) + j] = e[j]
      BY <2>9
    <3>3. w[Len(p) + j] = v[Len(p) + j]
      BY <2>10, <3>1 DEF Begins
    <3>4. t[Len(p) + j] = w[Len(p) + j]
      BY <1>12, <3>1
    <3>5. r[Len(p) + j] = JsonStep(r[(Len(p) + j) - 1], t[Len(p) + j])
      BY <1>15, <3>1
    <3> QED BY <3>2, <3>3, <3>4, <3>5
  <2>13. r[Len(p)] = Reading("text", o(i)) /\ Len(p) # 0
    BY <1>17, <2>6
  <2> HIDE DEF o, T
  <2>14. r[Len(p) + Len(e)] = Reading("text", Append(o(i), b))
    <3>1. PICK k : k = Len(p)
      OBVIOUS
    <3>2. PICK x : x = o(i)
      OBVIOUS
    <3>3. k \in Nat /\ r[k] = Reading("text", x)
      BY <2>11, <2>13, <3>1, <3>2
    <3>4. Follows(e, k, t) /\ StepsOver(r, k, e, t)
      BY <2>12, <3>1 DEF Follows, StepsOver
    <3>5. r[k + Len(e)] = Reading("text", Append(x, b))
      BY <1>1, <2>3, <2>4, <3>3, <3>4, EscapedReads
    <3> QED BY <3>1, <3>2, <3>5
  <2>15. Append(o(i), b) = o(i + 1)
    BY <1>1, <1>2, <2>1, <2>2, PrefixAppended DEF o, n
  <2>16. Len(v) \in Nat \ {0} /\ r[Len(v)] = Reading("text", o(i + 1))
    BY <2>9, <2>11, <2>13, <2>14, <2>15
  <2> QED BY <2>1, <2>7, <2>16 DEF T
<1>18. T \in SUBSET (0 .. n)
  OBVIOUS
<1> HIDE DEF T
<1>19. n \in T
  <2>1. \A i \in 0 .. n : i \in T
    BY <1>2, <1>16, <1>17, <1>18, IndexInduction
  <2> QED BY <1>2, <2>1
<1>20. r[Len(w)] = Reading("text", s)
  <2>1. o(n) = s
    BY <1>1, SubSeqFull DEF n
  <2> QED BY <1>5, <1>19, <2>1 DEF T
<1>21. r[Len(t)] = Reading("done", s)
  <2>1. Len(t) \in 1 .. Len(t) /\ Len(t) - 1 = Len(w)
    BY <1>9, <1>13
  <2>2. r[Len(t)] = JsonStep(Reading("text", s), "quote")
    BY <1>13, <1>15, <1>20, <2>1
  <2> QED BY <2>2, JsonSteps
<1>22. JsonParsed(t) = s
  BY <1>14, <1>21, JsonScans DEF Reading
<1> QED BY <1>8, <1>22

-----------------------------------------------------------------------------
(* What is made of a line and a name is read back.                         *)

Separators == {"bar", "cr", "nl"}
Cleaned(s, d) == [i \in DOMAIN s |-> IF s[i] \in Separators THEN d ELSE s[i]]

LEMMA SanitisedIs ==
    ASSUME NEW u, NEW c
    PROVE  Sanitised([user |-> u, content |-> c])
               = [user |-> Cleaned(u, "x"), content |-> Cleaned(c, "sp")]
  BY DEF Sanitised, Cleaned, Separators

(* The bytes that take the place of a separator.                           *)
Substitutes == {"x", "sp"}

(* The bytes that are left.                                                *)
Clean(E) == (E \cup Substitutes) \ {"bar"}

LEMMA CleanedBytes ==
    ASSUME NEW E, NEW s \in Seq(E), NEW d \in Substitutes, NEW r, r = Cleaned(s, d)
    PROVE  /\ r \in Seq(Clean(E)) /\ Len(r) = Len(s)
           /\ \A i \in 1 .. Len(s) : r[i] = IF s[i] \in Separators THEN d ELSE s[i]
<1>1. Len(s) \in Nat /\ DOMAIN s = 1 .. Len(s)
  BY LenProperties
<1>2. r = [i \in 1 .. Len(s) |-> IF s[i] \in Separators THEN d ELSE s[i]]
  BY <1>1 DEF Cleaned
<1>3. ASSUME NEW i \in 1 .. Len(s)
      PROVE  (IF s[i] \in Separators THEN d ELSE s[i]) \in Clean(E)
  <2>1. PICK b : b = s[i]
    OBVIOUS
  <2>2. b \in E
    BY <2>1, ElementOfSeq
  <2>3. (IF b \in Separators THEN d ELSE b) \in Clean(E)
    BY <2>2 DEF Clean, Separators, Substitutes
  <2> QED BY <2>1, <2>3
<1>4. r \in [1 .. Len(s) -> Clean(E)]
  BY <1>2, <1>3
<1>5. r \in Seq(Clean(E)) /\ Len(r) = Len(s)
  BY <1>1, <1>4
<1> QED BY <1>2, <1>5

LEMMA CleanedWhole ==
    ASSUME NEW E, NEW s \in Seq(E), Whole(s), NEW d \in Substitutes, NEW r, r = Cleaned(s, d)
    PROVE  Whole(r)
<1>1. /\ Len(r) = Len(s) /\ Len(s) \in Nat
      /\ \A i \in 1 .. Len(s) : r[i] = IF s[i] \in Separators THEN d ELSE s[i]
  BY CleanedBytes, LenProperties
<1>2. /\ d # "lead" /\ d \notin Second
      /\ \A b \in Second \cup {"lead"} : b \notin Separators
  BY DEF Second, Separators, Substitutes
<1>3. ASSUME NEW i \in 1 .. Len(s)
      PROVE  /\ r[i] = "lead" <=> s[i] = "lead"
             /\ r[i] \in Second <=> s[i] \in Second
  <2>1. CASE s[i] \in Separators
    BY <1>1, <1>2, <2>1
  <2>2. CASE s[i] \notin Separators
    BY <1>1, <1>2, <2>2
  <2> QED BY <2>1, <2>2
<1>4. ASSUME NEW i \in 1 .. Len(r)
      PROVE  /\ r[i] = "lead" => i < Len(r) /\ r[i + 1] \in Second
             /\ r[i] \in Second => i > 1 /\ r[i - 1] = "lead"
  <2>1. /\ s[i] = "lead" => i < Len(s) /\ s[i + 1] \in Second
        /\ s[i] \in Second => i > 1 /\ s[i - 1] = "lead"
    BY <1>1 DEF Whole
  <2>2. i < Len(s) => i + 1 \in 1 .. Len(s)
    BY <1>1
  <2>3. i > 1 => i - 1 \in 1 .. Len(s)
    BY <1>1
  <2>4. CASE r[i] = "lead"
    <3>1. s[i] = "lead" /\ i + 1 \in 1 .. Len(s) /\ i < Len(s) /\ s[i + 1] \in Second
      BY <1>1, <1>3, <2>1, <2>2, <2>4
    <3>2. r[i] \notin Second
      BY <2>4 DEF Second
    <3> QED BY <1>1, <1>3, <3>1, <3>2
  <2>5. CASE r[i] \in Second
    <3>1. s[i] \in Second /\ i - 1 \in 1 .. Len(s) /\ i > 1 /\ s[i - 1] = "lead"
      BY <1>1, <1>3, <2>1, <2>3, <2>5
    <3>2. r[i] # "lead"
      BY <2>5 DEF Second
    <3> QED BY <1>1, <1>3, <3>1, <3>2
  <2> QED BY <2>4, <2>5
<1> QED BY <1>4 DEF Whole

(* A message of whole characters that fits is read back.                   *)
LEMMA GoodReadsBack ==
    ASSUME NEW E, NEW u \in Seq(E), NEW c \in Seq(E), u # <<>>, c # <<>>,
           Len(u) < NameSize, Len(c) < InputSize, Whole(u), Whole(c)
    PROVE  ReadsBack([user |-> u, content |-> c])
<1>1. PICK v : v = Cleaned(u, "x")
  OBVIOUS
<1>2. PICK w : w = Cleaned(c, "sp")
  OBVIOUS
<1>3. v \in Seq(Clean(E)) /\ Len(v) = Len(u) /\ Whole(v)
  <2>1. "x" \in Substitutes
    BY DEF Substitutes
  <2> QED BY <1>1, <2>1, CleanedBytes, CleanedWhole
<1>4. w \in Seq(Clean(E)) /\ Len(w) = Len(c) /\ Whole(w)
  <2>1. "sp" \in Substitutes
    BY DEF Substitutes
  <2> QED BY <1>2, <2>1, CleanedBytes, CleanedWhole
<1>5. v # <<>> /\ w # <<>>
  <2>1. Len(u) # 0 /\ Len(c) # 0
    BY EmptySeq
  <2> QED BY <1>3, <1>4, <2>1
<1>6. "bar" \notin Clean(E)
  BY DEF Clean
<1>7. Parse(Format([user |-> v, content |-> w])) = [user |-> v, content |-> w]
  <2>1. Len(v) < NameSize /\ Len(w) < InputSize
    BY <1>3, <1>4
  <2> QED BY <1>3, <1>4, <1>5, <1>6, <2>1, RecordReads
<1>8. Sanitised([user |-> u, content |-> c]) = [user |-> v, content |-> w]
  BY <1>1, <1>2, SanitisedIs
<1>9. JsonParsed(JsonString(u)) = u /\ JsonParsed(JsonString(c)) = c
  BY JsonReads
<1> QED BY <1>7, <1>8, <1>9 DEF ReadsBack, HasEvent

LEMMA WholeTail ==
    ASSUME NEW s \in Bytes, Whole(s), s # <<>>, s[1] # "lead"
    PROVE  Tail(s) \in Bytes /\ Len(Tail(s)) = Len(s) - 1 /\ Whole(Tail(s))
<1>1. PICK t : t = Tail(s)
  OBVIOUS
<1>2. /\ t \in Bytes /\ Len(t) = Len(s) - 1 /\ Len(s) \in Nat \ {0}
      /\ \A i \in 1 .. Len(t) : t[i] = s[i + 1]
  BY <1>1, HeadTailProperties, EmptySeq DEF Bytes
<1>3. ASSUME NEW i \in 1 .. Len(t)
      PROVE  /\ t[i] = "lead" => i < Len(t) /\ t[i + 1] \in Second
             /\ t[i] \in Second => i > 1 /\ t[i - 1] = "lead"
  <2>1. i + 1 \in 1 .. Len(s) /\ t[i] = s[i + 1] /\ (i + 1) - 1 = i
    BY <1>2
  <2>2. CASE t[i] = "lead"
    <3>1. i + 1 < Len(s) /\ s[(i + 1) + 1] \in Second
      BY <2>1, <2>2 DEF Whole
    <3>2. i + 1 \in 1 .. Len(t) /\ i < Len(t)
      BY <1>2, <3>1
    <3>3. t[i + 1] \in Second /\ t[i] \notin Second
      BY <1>2, <2>2, <3>1, <3>2 DEF Second
    <3> QED BY <3>2, <3>3
  <2>3. CASE t[i] \in Second
    <3>1. s[i] = "lead" /\ t[i] # "lead"
      BY <2>1, <2>3 DEF Whole, Second
    <3>2. i > 1 /\ i - 1 \in 1 .. Len(t) /\ (i - 1) + 1 = i
      BY <1>2, <3>1
    <3>3. t[i - 1] = s[i]
      BY <1>2, <3>2
    <3> QED BY <3>1, <3>2, <3>3
  <2> QED BY <2>2, <2>3
<1> QED BY <1>1, <1>2, <1>3 DEF Whole

(* What Enter makes of a line that is not empty.                           *)
LEMMA ComposedReadsBack ==
    ASSUME NEW user, Fits(user, NameSize), user # <<>>,
           NEW line, Fits(line, InputSize), line # <<>>,
           NEW msg, msg = Composed(user, line), ~ReadsBack(msg)
    PROVE  msg.user = <<"*">> /\ Len(msg.content) = InputSize - 1
<1>1. /\ user \in Bytes /\ Whole(user) /\ Len(user) < NameSize
      /\ line \in Bytes /\ Whole(line) /\ Len(line) < InputSize
  BY DEF Fits
<1>2. Len(user) \in Nat \ {0} /\ Len(line) \in Nat \ {0}
  BY <1>1, EmptySeq DEF Bytes
<1>3. ASSUME ~(Len(line) > 1 /\ line[1] = "me")
      PROVE  FALSE
  <2>1. msg = [user |-> user, content |-> line]
    BY <1>3 DEF Composed
  <2>2. ReadsBack([user |-> user, content |-> line])
    BY <1>1, GoodReadsBack DEF Bytes
  <2> QED BY <2>1, <2>2
<1>4. ASSUME Len(line) > 1, line[1] = "me"
      PROVE  msg.user = <<"*">> /\ Len(msg.content) = InputSize - 1
  <2>1. PICK t : t = Tail(line)
    OBVIOUS
  <2>2. t \in Bytes /\ Whole(t) /\ Len(t) \in Nat
    <3>1. line[1] # "lead"
      BY <1>4
    <3>2. t \in Bytes /\ Whole(t)
      BY <1>1, <2>1, <3>1, WholeTail
    <3> QED BY <3>2, LenProperties DEF Bytes
  <2>3. PICK sp : sp = <<"sp">>
    OBVIOUS
  <2>4. sp \in Bytes /\ Whole(sp) /\ Len(sp) = 1
    <3>1. "sp" \in Typable /\ "sp" \notin Second /\ "sp" # "lead"
      BY DEF Typable, Printable, Second
    <3> QED BY <2>3, <3>1, CharacterWhole
  <2>5. PICK a : a = user \o sp
    OBVIOUS
  <2>6. a \in Bytes /\ Whole(a) /\ Len(a) = Len(user) + Len(sp)
    BY <1>1, <2>4, <2>5, WholeConcat
  <2>7. PICK x : x = a \o t
    OBVIOUS
  <2>8. x \in Bytes /\ Whole(x) /\ Len(x) = Len(a) + Len(t)
    BY <2>2, <2>6, <2>7, WholeConcat
  <2>9. Len(x) \in Nat \ {0} /\ InputSize - 1 \in Nat
    BY <1>2, <2>2, <2>4, <2>6, <2>8, RecordAssumption
  <2>10. msg = [user |-> <<"*">>, content |-> UpTo(x, InputSize - 1)]
    BY <1>4, <2>1, <2>3, <2>5, <2>7 DEF Composed
  <2>11. ASSUME Len(x) < InputSize - 1
         PROVE  FALSE
    <3>1. UpTo(x, InputSize - 1) = x
      BY <2>8, <2>11, SubSeqFull DEF UpTo, Bytes
    <3>2. PICK u : u = <<"*">>
      OBVIOUS
    <3>3. msg = [user |-> u, content |-> x]
      BY <2>10, <3>1, <3>2
    <3> DEFINE E == Typable \cup {"*"}
    <3>4. u \in Seq(E) /\ Len(u) = 1 /\ u # <<>> /\ Whole(u)
      BY <3>2 DEF Whole, Second
    <3>5. x \in Seq(E)
      BY <2>8 DEF Bytes
    <3> HIDE DEF E
    <3>6. Len(u) < NameSize /\ Len(x) < InputSize /\ x # <<>>
      BY <1>1, <1>2, <2>8, <2>9, <2>11, <3>4, RecordAssumption
    <3>7. ReadsBack([user |-> u, content |-> x])
      BY <2>8, <3>4, <3>5, <3>6, GoodReadsBack
    <3> QED BY <3>3, <3>7
  <2>12. ASSUME ~(Len(x) < InputSize - 1)
         PROVE  Len(UpTo(x, InputSize - 1)) = InputSize - 1
    <3>1. \A i \in 1 .. InputSize - 1 : x[i] \in Typable
      BY <2>8, <2>9, <2>12, ElementOfSeq DEF Bytes
    <3>2. Len(SubSeq(x, 1, InputSize - 1)) = InputSize - 1
      BY <2>9, <3>1, SubSeqProperties
    <3> QED BY <2>12, <3>2 DEF UpTo
  <2> QED BY <2>10, <2>11, <2>12
<1> QED BY <1>3, <1>4

(* Only Enter in INSERT mode makes a message.                              *)
LEMMA OnlyEnterMakes ==
    ASSUME [Next]_vars, last' # last
    PROVE  Enter /\ text.insert # <<>>
<1>1. ASSUME NEW b, PagerKey(b) \/ NormalKey(b) \/ Char(b) \/ Lead(b) \/ LeadNext(b)
      PROVE  last' = last
  BY <1>1 DEF PagerKey, NormalKey, Char, Lead, LeadNext, Edited, saved
<1>2. ASSUME NEW b, EscNext(b) \/ BracketNext(b) \/ PasteByte(b)
      PROVE  last' = last
  BY <1>2 DEF EscNext, BracketNext, PasteByte, PlainEscape, Edited, saved
<1>3. ASSUME CtrlC \/ Backspace \/ CtrlW \/ CtrlU \/ Escape \/ Dispatch
      PROVE  last' = last
  BY <1>3 DEF CtrlC, Backspace, CtrlW, CtrlU, Escape, Dispatch, Edited, saved
<1>4. ASSUME MentionTab \/ CommandTab
      PROVE  last' = last
  BY <1>4 DEF MentionTab, CommandTab, Edited, saved
<1>5. ASSUME LeadLate \/ EscLate \/ BracketLate \/ Tilde \/ PasteEsc \/ PasteLate
      PROVE  last' = last
  BY <1>5 DEF LeadLate, EscLate, BracketLate, PlainEscape, Tilde, PasteEsc, PasteLate,
              Edited, saved
<1>6. ASSUME NEW k, StartPaste(k) \/ PasteTail(k)
      PROVE  last' = last
  BY <1>6 DEF StartPaste, PasteTail, saved
<1>7. ASSUME Prompt
      PROVE  last' = last
  BY <1>7 DEF Prompt, PromptByte, PromptSecond, PromptEnter, PromptLead, PromptLate, PromptQuit,
              Prompted, saved
<1>8. ASSUME User
      PROVE  last' = last
  BY <1>8 DEF User, Press, Paste, saved
<1>9. Session
  <2>1. ASSUME UNCHANGED vars
        PROVE  FALSE
    BY <2>1 DEF vars, saved
  <2>2. ~Prompt /\ ~User
    <3>1. ASSUME Prompt PROVE FALSE
      BY <1>7, <3>1
    <3>2. ASSUME User PROVE FALSE
      BY <1>8, <3>2
    <3> QED BY <3>1, <3>2
  <2> QED BY <2>1, <2>2 DEF Next
<1>10. Enter
  BY <1>1, <1>2, <1>3, <1>4, <1>5, <1>6, <1>9 DEF Session
<1> QED BY <1>10 DEF Enter, saved

(* What is saved can be read again: the record of every message is parsed  *)
(* by message_log_parse_record, and its event by parse_json_string, to the *)
(* message it was made from, for any name, line, paste and sizes of the    *)
(* buffers; but for a /me that is cut where the buffer ends.               *)
THEOREM MessageAlwaysReadsBack == Spec => MessageReadsBack
<1> DEFINE Back == last' # last /\ ~ReadsBack(last')
                       => last'.user = <<"*">> /\ Len(last'.content) = InputSize - 1
<1>1. KeyInv /\ [Next]_vars => Back
  <2> SUFFICES ASSUME KeyInv, [Next]_vars, last' # last, ~ReadsBack(last')
               PROVE  last'.user = <<"*">> /\ Len(last'.content) = InputSize - 1
    OBVIOUS
  <2>1. Enter /\ text.insert # <<>>
    BY OnlyEnterMakes
  <2>2. pc = "loop" /\ last' = Composed(name, text.insert)
    BY <2>1 DEF Enter, Byte, Took
  <2>3. Fits(name, NameSize) /\ name # <<>>
    BY <2>2 DEF KeyInv, Named
  <2>4. Fits(text.insert, InputSize)
    BY TextTyped DEF KeyInv
  <2> QED BY <2>1, <2>2, <2>3, <2>4, ComposedReadsBack
<1>2. KeyInv /\ [Next]_vars => [Back]_vars
  BY <1>1
<1>3. [Back]_vars => [last' # last /\ ~ReadsBack(last')
                        => last'.user = <<"*">> /\ Len(last'.content) = InputSize - 1]_vars
  OBVIOUS
<1> QED BY <1>2, <1>3, KeyInvariant, PTL DEF Spec, MessageReadsBack

=============================================================================
