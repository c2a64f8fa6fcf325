----------------------------- MODULE TextProofs -----------------------------
(***************************************************************************)
(* Theorems about the text operations of Buffer, for every text, window,   *)
(* position and offset, and about the text fills, whatever the source      *)
(* holds and whatever is searched for.  First what encoding and decoding   *)
(* are, then the two alignments and as_str, then the search: a text fill   *)
(* is a fill of Buffer, so what is proved of Buffer holds of it, and what  *)
(* it answers is true of all the unconsumed bytes.                         *)
(***************************************************************************)
EXTENDS TextBuffer, TextSweep, BufferProofs, SequenceTheorems

-----------------------------------------------------------------------------
(* The least and the greatest of some offsets.                             *)
LEMMA MinIs ==
  ASSUME NEW S \in SUBSET Int, NEW m \in S, \A x \in S : m <= x
  PROVE  Min(S) = m
  <1>1. \A y \in S : (\A x \in S : y <= x) => y = m
    OBVIOUS
  <1>. QED BY <1>1 DEF Min

LEMMA MaxIs ==
  ASSUME NEW S \in SUBSET Int, NEW m \in S, \A x \in S : x <= m
  PROVE  Max(S) = m
  <1>1. \A y \in S : (\A x \in S : y >= x) => y = m
    OBVIOUS
  <1>2. \A x \in S : m >= x
    OBVIOUS
  <1>. QED BY <1>1, <1>2 DEF Max

LEMMA MinExists ==
  ASSUME NEW S \in SUBSET Nat, NEW e \in S
  PROVE  Min(S) \in S /\ \A x \in S : Min(S) <= x
  <1>1. PICK m \in S : \A x \in S : m <= x
    BY Least
  <1>2. S \in SUBSET Int
    OBVIOUS
  <1>3. Min(S) = m
    BY <1>1, <1>2, MinIs
  <1>. QED BY <1>1, <1>3

LEMMA MaxExists ==
  ASSUME NEW n \in Nat, NEW S \in SUBSET (0..n), NEW e \in S
  PROVE  Max(S) \in S /\ \A x \in S : x <= Max(S)
  <1> DEFINE T == {n - x : x \in S}
  <1>1. T \in SUBSET Nat /\ n - e \in T
    OBVIOUS
  <1>2. PICK t \in T : \A y \in T : t <= y
    BY <1>1, Least
  <1>3. PICK m \in S : t = n - m
    BY <1>2
  <1>4. ASSUME NEW x \in S PROVE x <= m
    <2>1. n - m <= n - x
      BY <1>2, <1>3
    <2>2. x \in 0..n /\ m \in 0..n
      OBVIOUS
    <2>. QED BY <2>1, <2>2
  <1>5. S \in SUBSET Int
    OBVIOUS
  <1>6. Max(S) = m
    BY <1>4, <1>5, MaxIs
  <1>. QED BY <1>4, <1>6

-----------------------------------------------------------------------------
(* The forms of characters. *)

(* A leading byte announces the length of every form it begins.            *)
LEMMA LeadByte ==
  ASSUME NEW form \in Forms, NEW b \in form[1]
  PROVE  /\ Len(form) \in 1..4 /\ Expected(b) = Len(form)
         /\ b \in 0..255 /\ ~IsContinuation(b)
         /\ \A k \in 2..Len(form) : form[k] \subseteq Trailing
  <1> DEFINE Three == \E lead, second : /\ form = <<lead, second, Trailing>>
                                        /\ lead \subseteq 224..239 /\ second \subseteq Trailing
             Four == \E lead, second : /\ form = <<lead, second, Trailing, Trailing>>
                                       /\ lead \subseteq 240..244 /\ second \subseteq Trailing
  <1>1. CASE form = <<0..127>>
    BY <1>1 DEF Expected, IsContinuation, Trailing
  <1>2. CASE form = <<194..223, Trailing>>
    BY <1>2 DEF Expected, IsContinuation, Trailing
  <1>3. CASE Three
    BY <1>3 DEF Expected, IsContinuation, Trailing
  <1>4. CASE Four
    BY <1>4 DEF Expected, IsContinuation, Trailing
  <1>5. \/ form = <<0..127>> \/ form = <<194..223, Trailing>>
        \/ form = <<{224}, 160..191, Trailing>>
        \/ form = <<(225..236) \cup {238, 239}, Trailing, Trailing>>
        \/ form = <<{237}, 128..159, Trailing>>
        \/ form = <<{240}, 144..191, Trailing, Trailing>>
        \/ form = <<241..243, Trailing, Trailing, Trailing>>
        \/ form = <<{244}, 128..143, Trailing, Trailing>>
    BY DEF Forms
  <1>6. /\ {224} \subseteq 224..239 /\ {237} \subseteq 224..239
        /\ (225..236) \cup {238, 239} \subseteq 224..239
        /\ {240} \subseteq 240..244 /\ 241..243 \subseteq 240..244 /\ {244} \subseteq 240..244
    OBVIOUS
  <1>7. /\ 160..191 \subseteq Trailing /\ 128..159 \subseteq Trailing
        /\ 144..191 \subseteq Trailing /\ 128..143 \subseteq Trailing
    BY DEF Trailing
  <1>8. form = <<{224}, 160..191, Trailing>> => Three
    BY <1>6, <1>7
  <1>9. form = <<(225..236) \cup {238, 239}, Trailing, Trailing>> => Three
    BY <1>6, <1>7
  <1>10. form = <<{237}, 128..159, Trailing>> => Three
    BY <1>6, <1>7
  <1>11. form = <<{240}, 144..191, Trailing, Trailing>> => Four
    BY <1>6, <1>7
  <1>12. form = <<241..243, Trailing, Trailing, Trailing>> => Four
    BY <1>6, <1>7
  <1>13. form = <<{244}, 128..143, Trailing, Trailing>> => Four
    BY <1>6, <1>7
  <1> HIDE DEF Three, Four
  <1>14. form = <<0..127>> \/ form = <<194..223, Trailing>> \/ Three \/ Four
    BY ONLY <1>5, <1>8, <1>9, <1>10, <1>11, <1>12, <1>13
  <1>. QED BY <1>1, <1>2, <1>3, <1>4, <1>14

(* A continuation byte announces nothing.                                  *)
LEMMA NoLead ==
  ASSUME NEW b, IsContinuation(b)
  PROVE  Expected(b) = 1
  <1>1. b \in Int /\ 128 <= b /\ b <= 191
    BY DEF IsContinuation
  <1>2. ASSUME b \in 192..223 PROVE FALSE
    BY <1>1, <1>2
  <1>3. ASSUME b \in 224..239 PROVE FALSE
    BY <1>1, <1>3
  <1>4. ASSUME b \in 240..247 PROVE FALSE
    BY <1>1, <1>4
  <1>. QED BY <1>2, <1>3, <1>4 DEF Expected

(* The bytes that a form admits. *)
LEMMA FormBytes ==
  ASSUME NEW form \in Forms
  PROVE  /\ Len(form) \in 1..4
         /\ \A k \in 1..Len(form) : form[k] \subseteq 0..255
         /\ form[1] # {}
  <1>1. form[1] # {}
    BY DEF Forms
  <1>2. PICK b \in form[1] : TRUE
    BY <1>1
  <1>3. Len(form) \in 1..4 /\ \A k \in 2..Len(form) : form[k] \subseteq Trailing
    BY <1>2, LeadByte
  <1>4. form[1] \subseteq 0..255
    BY LeadByte
  <1>5. ASSUME NEW k \in 1..Len(form) PROVE form[k] \subseteq 0..255
    <2>1. k = 1 \/ k \in 2..Len(form)
      BY <1>3
    <2>2. Trailing \subseteq 0..255
      BY DEF Trailing
    <2>. QED BY <1>3, <1>4, <2>1, <2>2, Zenon
  <1>. QED BY <1>1, <1>3, <1>5

(* A character is encoded in one of the forms. *)
LEMMA EncodeCases ==
  ASSUME NEW ch \in Nat
  PROVE  /\ ch < 128 => Encode(ch) = <<ch>>
         /\ 128 <= ch /\ ch < 2048 => Encode(ch) = <<192 + ch \div 64, 128 + (ch % 64)>>
         /\ 2048 <= ch /\ ch < 65536 =>
              Encode(ch) = <<224 + ch \div 4096, 128 + ((ch \div 64) % 64), 128 + (ch % 64)>>
         /\ 65536 <= ch =>
              Encode(ch) = <<240 + ch \div 262144, 128 + ((ch \div 4096) % 64),
                             128 + ((ch \div 64) % 64), 128 + (ch % 64)>>
  <1>1. ASSUME ch < 128 PROVE Encode(ch) = <<ch>>
    BY <1>1 DEF Encode
  <1>2. ASSUME 128 <= ch, ch < 2048
        PROVE  Encode(ch) = <<192 + ch \div 64, 128 + (ch % 64)>>
    <2>1. ~(ch < 128)
      BY <1>2
    <2>. QED BY <1>2, <2>1 DEF Encode
  <1>3. ASSUME 2048 <= ch, ch < 65536
        PROVE  Encode(ch) = <<224 + ch \div 4096, 128 + ((ch \div 64) % 64), 128 + (ch % 64)>>
    <2>1. ~(ch < 128) /\ ~(ch < 2048)
      BY <1>3
    <2>. QED BY <1>3, <2>1 DEF Encode
  <1>4. ASSUME 65536 <= ch
        PROVE  Encode(ch) = <<240 + ch \div 262144, 128 + ((ch \div 4096) % 64),
                              128 + ((ch \div 64) % 64), 128 + (ch % 64)>>
    <2>1. ~(ch < 128) /\ ~(ch < 2048) /\ ~(ch < 65536)
      BY <1>4
    <2>. QED BY <1>4, <2>1 DEF Encode
  <1>. QED BY <1>1, <1>2, <1>3, <1>4

(* The digits of a scalar value in base 64.                                *)
LEMMA Digits ==
  ASSUME NEW ch \in Nat
  PROVE  /\ ch % 64 \in 0..63 /\ (ch \div 64) % 64 \in 0..63 /\ (ch \div 4096) % 64 \in 0..63
         /\ 64 * (ch \div 64) <= ch /\ ch < 64 * (ch \div 64) + 64
         /\ 4096 * (ch \div 4096) <= ch /\ ch < 4096 * (ch \div 4096) + 4096
         /\ 262144 * (ch \div 262144) <= ch /\ ch < 262144 * (ch \div 262144) + 262144
         /\ ch \div 64 \in Nat /\ ch \div 4096 \in Nat /\ ch \div 262144 \in Nat
  OBVIOUS

LEMMA Mod64 ==
  ASSUME NEW n \in Nat
  PROVE  /\ n < 64 => n % 64 = n
         /\ 832 <= n /\ n < 864 => n % 64 = n - 832
         /\ 256 <= n /\ n < 272 => n % 64 = n - 256
  OBVIOUS

(* A string of bytes is a character of a form.                             *)
IsCharacter(w, form) == Len(w) = Len(form) /\ \A k \in 1..Len(form) : w[k] \in form[k]

(* The leading bytes of three that allow any trailing bytes.               *)
Wide == (225..236) \cup {238, 239}

LEMMA FormsAre ==
  /\ <<0..127>> \in Forms /\ <<194..223, Trailing>> \in Forms
  /\ <<{224}, 160..191, Trailing>> \in Forms
  /\ <<Wide, Trailing, Trailing>> \in Forms
  /\ <<{237}, 128..159, Trailing>> \in Forms
  /\ <<{240}, 144..191, Trailing, Trailing>> \in Forms
  /\ <<241..243, Trailing, Trailing, Trailing>> \in Forms
  /\ <<{244}, 128..143, Trailing, Trailing>> \in Forms
  BY DEF Forms, Wide

(* A character is encoded in one of the forms.                             *)
LEMMA EncodeForm ==
  ASSUME NEW ch, IsScalar(ch)
  PROVE  \E form \in Forms : IsCharacter(Encode(ch), form)
  <1>1. ch \in Nat /\ ch < 1114112 /\ (ch < 55296 \/ 57344 <= ch)
    BY DEF IsScalar
  <1>2. /\ 128 + (ch % 64) \in Trailing
        /\ 128 + ((ch \div 64) % 64) \in Trailing
        /\ 128 + ((ch \div 4096) % 64) \in Trailing
    BY <1>1, Digits DEF Trailing
  <1>3. CASE ch < 128
    <2>1. ch \in 0..127
      BY <1>1, <1>3
    <2>2. Encode(ch) = <<ch>>
      BY <1>1, <1>3, EncodeCases
    <2>3. IsCharacter(<<ch>>, <<0..127>>)
      BY <1>2, <2>1 DEF IsCharacter
    <2>. QED BY <2>2, <2>3, FormsAre
  <1>4. CASE 128 <= ch /\ ch < 2048
    <2>1. 192 + ch \div 64 \in 194..223
      BY <1>1, <1>4, Digits
    <2>2. Encode(ch) = <<192 + ch \div 64, 128 + (ch % 64)>>
      BY <1>1, <1>4, EncodeCases
    <2>3. IsCharacter(<<192 + ch \div 64, 128 + (ch % 64)>>,
                    <<194..223, Trailing>>)
      BY <1>2, <2>1 DEF IsCharacter
    <2>. QED BY <2>2, <2>3, FormsAre
  <1>5. CASE 2048 <= ch /\ ch < 4096
    <2>1. ch \div 64 < 64 /\ ch \div 64 >= 32
      BY <1>1, <1>5, Digits
    <2>2. 224 + ch \div 4096 \in {224}
      BY <1>1, <1>5, Digits
    <2>3. 128 + ((ch \div 64) % 64) \in 160..191
      BY <1>1, <2>1, Digits, Mod64
    <2>4. Encode(ch) = <<224 + ch \div 4096, 128 + ((ch \div 64) % 64), 128 + (ch % 64)>>
      BY <1>1, <1>5, EncodeCases
    <2>5. IsCharacter(<<224 + ch \div 4096, 128 + ((ch \div 64) % 64), 128 + (ch % 64)>>,
                    <<{224}, 160..191, Trailing>>)
      BY <1>2, <2>2, <2>3 DEF IsCharacter
    <2>. QED BY <2>4, <2>5, FormsAre
  <1>6. CASE 4096 <= ch /\ ch < 53248
    <2>1. 224 + ch \div 4096 \in Wide
      BY <1>1, <1>6, Digits DEF Wide
    <2>2. Encode(ch) = <<224 + ch \div 4096, 128 + ((ch \div 64) % 64), 128 + (ch % 64)>>
      BY <1>1, <1>6, EncodeCases
    <2>3. IsCharacter(<<224 + ch \div 4096, 128 + ((ch \div 64) % 64), 128 + (ch % 64)>>,
                    <<Wide, Trailing, Trailing>>)
      BY <1>2, <2>1 DEF IsCharacter
    <2>. QED BY <2>2, <2>3, FormsAre
  <1>7. CASE 53248 <= ch /\ ch < 55296
    <2>1. 832 <= ch \div 64 /\ ch \div 64 < 864
      BY <1>1, <1>7, Digits
    <2>2. 224 + ch \div 4096 \in {237}
      BY <1>1, <1>7, Digits
    <2>3. 128 + ((ch \div 64) % 64) \in 128..159
      BY <1>1, <2>1, Digits, Mod64
    <2>4. Encode(ch) = <<224 + ch \div 4096, 128 + ((ch \div 64) % 64), 128 + (ch % 64)>>
      BY <1>1, <1>7, EncodeCases
    <2>5. IsCharacter(<<224 + ch \div 4096, 128 + ((ch \div 64) % 64), 128 + (ch % 64)>>,
                    <<{237}, 128..159, Trailing>>)
      BY <1>2, <2>2, <2>3 DEF IsCharacter
    <2>. QED BY <2>4, <2>5, FormsAre
  <1>8. CASE 57344 <= ch /\ ch < 65536
    <2>1. 224 + ch \div 4096 \in Wide
      BY <1>1, <1>8, Digits DEF Wide
    <2>2. Encode(ch) = <<224 + ch \div 4096, 128 + ((ch \div 64) % 64), 128 + (ch % 64)>>
      BY <1>1, <1>8, EncodeCases
    <2>3. IsCharacter(<<224 + ch \div 4096, 128 + ((ch \div 64) % 64), 128 + (ch % 64)>>,
                    <<Wide, Trailing, Trailing>>)
      BY <1>2, <2>1 DEF IsCharacter
    <2>. QED BY <2>2, <2>3, FormsAre
  <1>9. CASE 65536 <= ch /\ ch < 262144
    <2>1. ch \div 4096 < 64 /\ ch \div 4096 >= 16
      BY <1>1, <1>9, Digits
    <2>2. 240 + ch \div 262144 \in {240}
      BY <1>1, <1>9, Digits
    <2>3. 128 + ((ch \div 4096) % 64) \in 144..191
      BY <1>1, <2>1, Digits, Mod64
    <2>4. Encode(ch) = <<240 + ch \div 262144, 128 + ((ch \div 4096) % 64),
                         128 + ((ch \div 64) % 64), 128 + (ch % 64)>>
      BY <1>1, <1>9, EncodeCases
    <2>5. IsCharacter(<<240 + ch \div 262144, 128 + ((ch \div 4096) % 64),
                         128 + ((ch \div 64) % 64), 128 + (ch % 64)>>,
                    <<{240}, 144..191, Trailing, Trailing>>)
      BY <1>2, <2>2, <2>3 DEF IsCharacter
    <2>. QED BY <2>4, <2>5, FormsAre
  <1>10. CASE 262144 <= ch /\ ch < 1048576
    <2>1. 240 + ch \div 262144 \in 241..243
      BY <1>1, <1>10, Digits
    <2>2. Encode(ch) = <<240 + ch \div 262144, 128 + ((ch \div 4096) % 64),
                         128 + ((ch \div 64) % 64), 128 + (ch % 64)>>
      BY <1>1, <1>10, EncodeCases
    <2>3. IsCharacter(<<240 + ch \div 262144, 128 + ((ch \div 4096) % 64),
                         128 + ((ch \div 64) % 64), 128 + (ch % 64)>>,
                    <<241..243, Trailing, Trailing, Trailing>>)
      BY <1>2, <2>1 DEF IsCharacter
    <2>. QED BY <2>2, <2>3, FormsAre
  <1>11. CASE 1048576 <= ch /\ ch < 1114112
    <2>1. 256 <= ch \div 4096 /\ ch \div 4096 < 272
      BY <1>1, <1>11, Digits
    <2>2. 240 + ch \div 262144 \in {244}
      BY <1>1, <1>11, Digits
    <2>3. 128 + ((ch \div 4096) % 64) \in 128..143
      BY <1>1, <2>1, Digits, Mod64
    <2>4. Encode(ch) = <<240 + ch \div 262144, 128 + ((ch \div 4096) % 64),
                         128 + ((ch \div 64) % 64), 128 + (ch % 64)>>
      BY <1>1, <1>11, EncodeCases
    <2>5. IsCharacter(<<240 + ch \div 262144, 128 + ((ch \div 4096) % 64),
                         128 + ((ch \div 64) % 64), 128 + (ch % 64)>>,
                    <<{244}, 128..143, Trailing, Trailing>>)
      BY <1>2, <2>2, <2>3 DEF IsCharacter
    <2>. QED BY <2>4, <2>5, FormsAre
  <1>. QED BY <1>1, <1>3, <1>4, <1>5, <1>6, <1>7, <1>8, <1>9, <1>10, <1>11

-----------------------------------------------------------------------------
(* Flattening, which SequencesExt defines by recursion, one element at a time. *)
Flattens(f, ss, m) == f[1] = ss[1] /\ \A k \in 2..m : f[k] = f[k - 1] \o ss[k]

IsFlat(f, ss) == f = [i \in 1..Len(ss) |-> IF i = 1 THEN ss[i] ELSE f[i - 1] \o ss[i]]

FlatOf(ss) == CHOOSE f : IsFlat(f, ss)

LEMMA FlattenIs == ASSUME NEW ss, Len(ss) # 0 PROVE FlattenSeq(ss) = FlatOf(ss)[Len(ss)]
  BY DEF FlattenSeq, FlatOf, IsFlat

LEMMA FlattensExist ==
  ASSUME NEW X, NEW ss \in Seq(Seq(X)), NEW m \in 1..Len(ss)
  PROVE  \E f \in [1..m -> Seq(X)] : Flattens(f, ss, m)
  <1> DEFINE P(n) == \E f \in [1..n -> Seq(X)] : Flattens(f, ss, n)
             S == {n \in 1..Len(ss) : ~P(n)}
  <1>1. Len(ss) \in Nat /\ S \in SUBSET Nat
    OBVIOUS
  <1>2. ASSUME 1 \in 1..Len(ss) PROVE P(1)
    <2> DEFINE f == [k \in 1..1 |-> ss[1]]
    <2>1. f \in [1..1 -> Seq(X)] /\ f[1] = ss[1] /\ 2..1 = {}
      BY <1>2
    <2>. QED BY <2>1 DEF Flattens
  <1>3. ASSUME NEW n \in 2..Len(ss), P(n - 1)
        PROVE  P(n)
    <2>1. n \in Nat /\ n >= 2 /\ n - 1 \in 1..(n - 1) /\ ss[n] \in Seq(X)
      BY <1>1
    <2>2. PICK f \in [1..(n - 1) -> Seq(X)] : Flattens(f, ss, n - 1)
      BY <1>3
    <2> DEFINE g == [k \in 1..n |-> IF k = n THEN f[n - 1] \o ss[n] ELSE f[k]]
    <2>3. f[n - 1] \o ss[n] \in Seq(X)
      BY <2>1, <2>2
    <2>4. g \in [1..n -> Seq(X)]
      BY <2>1, <2>2, <2>3
    <2> HIDE DEF g
    <2>5. (\A k \in 1..(n - 1) : g[k] = f[k]) /\ g[n] = f[n - 1] \o ss[n]
      <3>1. n \in 1..n /\ \A k \in 1..(n - 1) : k \in 1..n /\ k # n
        BY <2>1
      <3>. QED BY <3>1, Zenon DEF g
    <2>6. g[1] = ss[1]
      BY <2>1, <2>2, <2>5 DEF Flattens
    <2>7. ASSUME NEW k \in 2..n PROVE g[k] = g[k - 1] \o ss[k]
      <3>1. CASE k = n
        BY <2>1, <2>5, <3>1
      <3>2. CASE k # n
        <4>1. k \in 1..(n - 1) /\ k - 1 \in 1..(n - 1) /\ k \in 2..(n - 1)
          BY <2>1, <3>2
        <4>. QED BY <2>2, <2>5, <4>1 DEF Flattens
      <3>. QED BY <3>1, <3>2
    <2>8. Flattens(g, ss, n)
      BY <2>6, <2>7 DEF Flattens
    <2>. QED BY <2>4, <2>8
  <1> HIDE DEF P
  <1>4. S = {}
    <2>1. SUFFICES ASSUME NEW e \in S PROVE FALSE
      OBVIOUS
    <2>2. PICK n \in S : \A k \in S : n <= k
      BY <1>1, <2>1, Least
    <2>3. n \in 2..Len(ss)
      BY <1>1, <1>2, <2>2
    <2>4. n - 1 \in 1..Len(ss) /\ ~(n <= n - 1)
      BY <1>1, <2>3
    <2>5. P(n - 1)
      BY <2>2, <2>4
    <2>. QED BY <1>3, <2>2, <2>3, <2>5
  <1>5. P(m)
    BY <1>1, <1>4
  <1>. QED BY <1>5 DEF P

LEMMA FlattensAgree ==
  ASSUME NEW f, NEW g, NEW ss, NEW more, NEW m \in Nat,
         Flattens(f, ss, m), Flattens(g, more, m),
         \A k \in 1..m : more[k] = ss[k]
  PROVE  \A k \in 1..m : f[k] = g[k]
  <1> DEFINE S == {k \in 1..m : f[k] # g[k]}
  <1>1. S \in SUBSET Nat
    OBVIOUS
  <1>2. SUFFICES ASSUME NEW e \in S PROVE FALSE
    OBVIOUS
  <1>3. PICK n \in S : \A k \in S : n <= k
    BY <1>1, <1>2, Least
  <1>4. n # 1
    BY <1>3 DEF Flattens
  <1>5. n \in 2..m /\ n - 1 \in 1..m /\ ~(n <= n - 1)
    BY <1>3, <1>4
  <1>6. f[n - 1] = g[n - 1]
    BY <1>3, <1>5
  <1>7. f[n] = g[n]
    <2>1. f[n] = f[n - 1] \o ss[n] /\ g[n] = g[n - 1] \o more[n] /\ more[n] = ss[n]
      BY <1>5 DEF Flattens
    <2>. QED BY <1>6, <2>1
  <1>. QED BY <1>3, <1>7

LEMMA FlatFlattens ==
  ASSUME NEW X, NEW ss \in Seq(Seq(X)), Len(ss) # 0
  PROVE  Flattens(FlatOf(ss), ss, Len(ss))
  <1> DEFINE m == Len(ss)
  <1>1. m \in Nat /\ 1 \in 1..m /\ m \in 1..m
    OBVIOUS
  <1>2. PICK f \in [1..m -> Seq(X)] : Flattens(f, ss, m)
    BY <1>1, FlattensExist
  <1>3. IsFlat(f, ss)
    <2> DEFINE g == [i \in 1..m |-> IF i = 1 THEN ss[i] ELSE f[i - 1] \o ss[i]]
    <2>1. ASSUME NEW k \in 1..m PROVE f[k] = g[k]
      <3>1. k # 1 => k \in 2..m
        BY <1>1
      <3>. QED BY <1>2, <3>1 DEF Flattens
    <2>2. f = g
      BY <1>2, <2>1
    <2>. QED BY <2>2 DEF IsFlat
  <1>4. IsFlat(FlatOf(ss), ss)
    BY <1>3 DEF FlatOf
  <1> DEFINE b == FlatOf(ss)
  <1>5. b = [i \in 1..m |-> IF i = 1 THEN ss[i] ELSE b[i - 1] \o ss[i]]
    BY <1>4 DEF IsFlat
  <1> HIDE DEF b
  <1>6. \A i \in 1..m : b[i] = IF i = 1 THEN ss[i] ELSE b[i - 1] \o ss[i]
    BY <1>5, Zenon
  <1>7. b[1] = ss[1]
    BY <1>1, <1>6
  <1>8. ASSUME NEW k \in 2..m PROVE b[k] = b[k - 1] \o ss[k]
    <2>1. k \in 1..m /\ k # 1
      BY <1>1
    <2>. QED BY <1>6, <2>1
  <1>. QED BY <1>7, <1>8 DEF Flattens, b

LEMMA FlattenType ==
  ASSUME NEW X, NEW ss \in Seq(Seq(X))
  PROVE  FlattenSeq(ss) \in Seq(X)
  <1>1. CASE Len(ss) = 0
    <2>1. ss = <<>>
      BY <1>1, EmptySeq
    <2>. QED BY <1>1, <2>1 DEF FlattenSeq
  <1>2. CASE Len(ss) # 0
    <2>1. Len(ss) \in Nat /\ Len(ss) \in 1..Len(ss)
      BY <1>2
    <2>2. PICK f \in [1..Len(ss) -> Seq(X)] : Flattens(f, ss, Len(ss))
      BY <2>1, FlattensExist
    <2>3. Flattens(FlatOf(ss), ss, Len(ss))
      BY <1>2, FlatFlattens
    <2>4. \A k \in 1..Len(ss) : ss[k] = ss[k]
      OBVIOUS
    <2>5. f[Len(ss)] = FlatOf(ss)[Len(ss)]
      BY <2>1, <2>2, <2>3, <2>4, FlattensAgree
    <2>. QED BY <1>2, <2>1, <2>2, <2>5, FlattenIs
  <1>. QED BY <1>1, <1>2

LEMMA FlattenAppend ==
  ASSUME NEW X, NEW ss \in Seq(Seq(X)), NEW w \in Seq(X)
  PROVE  FlattenSeq(Append(ss, w)) = FlattenSeq(ss) \o w
  <1> DEFINE more == Append(ss, w)
             m == Len(ss)
  <1>1. /\ more \in Seq(Seq(X)) /\ Len(more) = m + 1 /\ m \in Nat /\ more[m + 1] = w
        /\ \A k \in 1..m : more[k] = ss[k]
    OBVIOUS
  <1>2. Len(more) # 0 /\ m + 1 # 0
    BY <1>1
  <1> HIDE DEF more
  <1>3. Flattens(FlatOf(more), more, m + 1)
    BY <1>1, <1>2, FlatFlattens
  <1>4. FlattenSeq(more) = FlatOf(more)[m + 1]
    BY <1>1, <1>2, FlattenIs
  <1>5. CASE m = 0
    <2>1. ss = <<>> /\ FlattenSeq(ss) = <<>>
      BY <1>5, EmptySeq DEF FlattenSeq
    <2>2. FlatOf(more)[1] = w
      BY <1>1, <1>3, <1>5 DEF Flattens
    <2>3. <<>> \o w = w
      BY ConcatEmptySeq
    <2>4. m + 1 = 1
      BY <1>5
    <2>5. FlattenSeq(more) = w
      BY <1>4, <2>2, <2>4
    <2>. QED BY <2>1, <2>3, <2>5 DEF more
  <1>6. CASE m # 0
    <2>1. m \in 1..m /\ m + 1 \in 2..(m + 1) /\ (m + 1) - 1 = m
      BY <1>1, <1>6
    <2>2. Flattens(FlatOf(ss), ss, m) /\ FlattenSeq(ss) = FlatOf(ss)[m]
      BY <1>6, FlatFlattens, FlattenIs
    <2>3. Flattens(FlatOf(more), more, m)
      <3>1. \A k \in 2..m : k \in 2..(m + 1)
        BY <1>1
      <3>. QED BY <1>3, <3>1 DEF Flattens
    <2> HIDE DEF m
    <2>4. FlatOf(ss)[m] = FlatOf(more)[m]
      <3>1. \A k \in 1..m : FlatOf(ss)[k] = FlatOf(more)[k]
        BY <1>1, <2>2, <2>3, FlattensAgree
      <3>. QED BY <2>1, <3>1
    <2>5. FlatOf(more)[m + 1] = FlatOf(more)[m] \o more[m + 1]
      BY <1>3, <2>1 DEF Flattens
    <2>. QED BY <1>1, <1>4, <2>2, <2>4, <2>5 DEF more
  <1>. QED BY <1>5, <1>6

-----------------------------------------------------------------------------
(* The encoding of a string.                                               *)
IsString(str) == str \in Seq(Nat) /\ \A n \in 1..Len(str) : IsScalar(str[n])

LEMMA SeqOfBytes ==
  ASSUME NEW f \in Seq(Nat), \A k \in 1..Len(f) : f[k] \in 0..255
  PROVE  f \in Seq(0..255)
  <1>1. Len(f) \in Nat /\ f \in [1..Len(f) -> Nat]
    OBVIOUS
  <1>2. f \in [1..Len(f) -> 0..255]
    BY <1>1
  <1>. QED BY <1>1, <1>2

LEMMA EncodeBytes ==
  ASSUME NEW ch, IsScalar(ch)
  PROVE  Encode(ch) \in Seq(0..255)
  <1>1. PICK form \in Forms : IsCharacter(Encode(ch), form)
    BY EncodeForm
  <1>2. ch \in Nat /\ (ch < 128 \/ (128 <= ch /\ ch < 2048) \/ (2048 <= ch /\ ch < 65536) \/ 65536 <= ch)
    BY DEF IsScalar
  <1>3. Encode(ch) \in Seq(Nat)
    <2>1. /\ 192 + ch \div 64 \in Nat /\ 224 + ch \div 4096 \in Nat /\ 240 + ch \div 262144 \in Nat
          /\ 128 + (ch % 64) \in Nat /\ 128 + ((ch \div 64) % 64) \in Nat
          /\ 128 + ((ch \div 4096) % 64) \in Nat
      BY <1>2, Digits
    <2>2. CASE ch < 128
      <3>1. <<ch>> \in Seq(Nat)
        BY <1>2
      <3>2. Encode(ch) = <<ch>>
        BY <1>2, <2>2, EncodeCases
      <3>. QED BY ONLY <3>1, <3>2, SMT
    <2>3. CASE 128 <= ch /\ ch < 2048
      <3>1. <<192 + ch \div 64, 128 + (ch % 64)>> \in Seq(Nat)
        BY <2>1
      <3>2. Encode(ch) = <<192 + ch \div 64, 128 + (ch % 64)>>
        BY <1>2, <2>3, EncodeCases
      <3>. QED BY ONLY <3>1, <3>2, SMT
    <2>4. CASE 2048 <= ch /\ ch < 65536
      <3>1. <<224 + ch \div 4096, 128 + ((ch \div 64) % 64), 128 + (ch % 64)>> \in Seq(Nat)
        BY <2>1
      <3>2. Encode(ch) = <<224 + ch \div 4096, 128 + ((ch \div 64) % 64), 128 + (ch % 64)>>
        BY <1>2, <2>4, EncodeCases
      <3>. QED BY ONLY <3>1, <3>2, SMT
    <2>5. CASE 65536 <= ch
      <3>1. <<240 + ch \div 262144, 128 + ((ch \div 4096) % 64),
              128 + ((ch \div 64) % 64), 128 + (ch % 64)>> \in Seq(Nat)
        BY <2>1
      <3>2. Encode(ch) = <<240 + ch \div 262144, 128 + ((ch \div 4096) % 64),
                         128 + ((ch \div 64) % 64), 128 + (ch % 64)>>
        BY <1>2, <2>5, EncodeCases
      <3>. QED BY ONLY <3>1, <3>2, SMT
    <2>. QED BY <1>2, <2>2, <2>3, <2>4, <2>5
  <1>4. ASSUME NEW k \in 1..Len(Encode(ch)) PROVE Encode(ch)[k] \in 0..255
    <2>1. Len(form) \in 1..4 /\ k \in 1..Len(form) /\ Encode(ch)[k] \in form[k]
      BY <1>1, <1>3, FormBytes DEF IsCharacter
    <2>2. form[k] \subseteq 0..255
      BY <2>1, FormBytes
    <2>. QED BY <2>1, <2>2, Zenon
  <1>. QED BY ONLY <1>3, <1>4, SeqOfBytes

LEMMA Strings ==
  ASSUME NEW str, IsString(str), NEW ch, IsScalar(ch)
  PROVE  /\ IsString(<<>>)
         /\ IsString(Append(str, ch))
         /\ \A m \in 0..Len(str) : IsString(SubSeq(str, 1, m))
  <1>1. str \in Seq(Nat) /\ ch \in Nat
    BY DEF IsString, IsScalar
  <1>2. IsString(<<>>)
    BY DEF IsString
  <1>3. IsString(Append(str, ch))
    <2>1. Append(str, ch) \in Seq(Nat) /\ Len(Append(str, ch)) = Len(str) + 1
      BY <1>1
    <2>2. ASSUME NEW n \in 1..(Len(str) + 1) PROVE IsScalar(Append(str, ch)[n])
      <3>1. CASE n = Len(str) + 1
        <4>1. Append(str, ch)[n] = ch
          BY <1>1, <3>1
        <4>. QED BY <4>1
      <3>2. CASE n # Len(str) + 1
        <4>1. n \in 1..Len(str) /\ Append(str, ch)[n] = str[n]
          BY <1>1, <3>2
        <4>. QED BY <4>1 DEF IsString
      <3>. QED BY <3>1, <3>2
    <2>. QED BY <2>1, <2>2 DEF IsString
  <1>4. ASSUME NEW m \in 0..Len(str) PROVE IsString(SubSeq(str, 1, m))
    <2>1. /\ SubSeq(str, 1, m) \in Seq(Nat) /\ Len(SubSeq(str, 1, m)) = m
          /\ \A n \in 1..m : n \in 1..Len(str) /\ SubSeq(str, 1, m)[n] = str[n]
      BY <1>1
    <2>. QED BY <2>1 DEF IsString
  <1>. QED BY <1>2, <1>3, <1>4

LEMMA EncodeStrings ==
  ASSUME NEW str, IsString(str), NEW ch, IsScalar(ch)
  PROVE  /\ EncodeAll(<<>>) = <<>>
         /\ EncodeAll(str) \in Seq(0..255)
         /\ EncodeAll(Append(str, ch)) = EncodeAll(str) \o Encode(ch)
  <1> DEFINE Each(t) == [n \in 1..Len(t) |-> Encode(t[n])]
  <1>1. str \in Seq(Nat) /\ ch \in Nat
    BY DEF IsString, IsScalar
  <1>2. EncodeAll(<<>>) = <<>>
    <2>1. Each(<<>>) = <<>>
      OBVIOUS
    <2>2. FlattenSeq(<<>>) = <<>>
      BY DEF FlattenSeq
    <2>. QED BY <2>1, <2>2 DEF EncodeAll
  <1>3. Each(str) \in Seq(Seq(0..255))
    <2>1. \A n \in 1..Len(str) : Encode(str[n]) \in Seq(0..255)
      BY EncodeBytes DEF IsString
    <2>2. Len(str) \in Nat
      BY <1>1
    <2>. QED BY <2>1, <2>2
  <1>4. Each(Append(str, ch)) = Append(Each(str), Encode(ch))
    <2>1. Len(Append(str, ch)) = Len(str) + 1 /\ Len(str) \in Nat /\ Len(Each(str)) = Len(str)
      BY <1>1
    <2>2. ASSUME NEW n \in 1..(Len(str) + 1)
          PROVE  Encode(Append(str, ch)[n]) = Append(Each(str), Encode(ch))[n]
      <3>1. CASE n = Len(str) + 1
        <4>1. Append(str, ch)[n] = ch
          BY <1>1, <3>1
        <4>2. Append(Each(str), Encode(ch))[n] = Encode(ch)
          BY <1>3, <2>1, <3>1
        <4>. QED BY <4>1, <4>2
      <3>2. CASE n # Len(str) + 1
        <4>1. n \in 1..Len(str) /\ Append(str, ch)[n] = str[n]
          BY <1>1, <3>2
        <4>2. Append(Each(str), Encode(ch))[n] = Each(str)[n]
          BY <1>3, <2>1, <4>1
        <4>. QED BY <4>1, <4>2
      <3>. QED BY <3>1, <3>2
    <2>3. /\ Append(Each(str), Encode(ch)) \in Seq(Seq(0..255))
          /\ Len(Append(Each(str), Encode(ch))) = Len(str) + 1
      BY <1>3, <2>1, EncodeBytes
    <2>. QED BY <2>1, <2>2, <2>3
  <1>5. FlattenSeq(Append(Each(str), Encode(ch))) = FlattenSeq(Each(str)) \o Encode(ch)
    BY <1>3, EncodeBytes, FlattenAppend
  <1>6. FlattenSeq(Each(str)) \in Seq(0..255)
    BY <1>3, FlattenType
  <1>. QED BY <1>2, <1>4, <1>5, <1>6 DEF EncodeAll

-----------------------------------------------------------------------------
(***************************************************************************)
(* Bytes e are the encodings of characters that begin and end at the       *)
(* offsets B: a continuation byte stands exactly where no character        *)
(* begins, and what begins at one of B is whole and ends at one of B.      *)
(***************************************************************************)
WellEncoded(e, B) ==
  /\ e \in Seq(0..255)
  /\ B \subseteq 0..Len(e) /\ 0 \in B /\ Len(e) \in B
  /\ \A i \in 0..(Len(e) - 1) : i \in B <=> ~IsContinuation(e[i + 1])
  /\ \A i \in B : i < Len(e) => \E form \in Forms : /\ i + Len(form) \in B
                                                   /\ Follows(e, i, form, Len(form))

LEMMA NothingEncoded == WellEncoded(<<>>, {0})
  BY DEF WellEncoded

LEMMA FollowsMore ==
  ASSUME NEW e \in Seq(0..255), NEW w \in Seq(0..255), NEW form \in Forms, NEW i \in Nat,
         Follows(e, i, form, Len(form))
  PROVE  Follows(e \o w, i, form, Len(form))
  <1>1. Len(form) \in Nat /\ Len(e) \in Nat /\ Len(w) \in Nat /\ Len(e \o w) = Len(e) + Len(w)
    BY FormBytes
  <1>2. i + Len(form) <= Len(e)
    BY DEF Follows
  <1>3. i + Len(form) <= Len(e) + Len(w)
    BY <1>1, <1>2
  <1>4. ASSUME NEW k \in 1..Len(form) PROVE (e \o w)[i + k] \in form[k]
    <2>1. i + k \in 1..Len(e)
      BY <1>1, <1>2
    <2>2. (e \o w)[i + k] = e[i + k]
      BY <2>1
    <2>. QED BY <2>2 DEF Follows
  <1>. QED BY <1>1, <1>3, <1>4 DEF Follows

LEMMA CharacterMore ==
  ASSUME NEW e, NEW B, WellEncoded(e, B),
         NEW w \in Seq(0..255), NEW form \in Forms, IsCharacter(w, form)
  PROVE  WellEncoded(e \o w, B \cup {Len(e \o w)})
  <1> DEFINE L == Len(e)
             n == Len(w)
             ew == e \o w
             C == B \cup {Len(ew)}
  <1>1. e \in Seq(0..255) /\ B \subseteq 0..L /\ 0 \in B /\ L \in B
    BY DEF WellEncoded
  <1>2. /\ L \in Nat /\ n \in Nat /\ ew \in Seq(0..255) /\ Len(ew) = L + n
        /\ \A i \in 1..L : ew[i] = e[i]
        /\ \A k \in 1..n : ew[L + k] = w[k]
    BY <1>1
  <1>3. /\ n \in 1..4 /\ n = Len(form)
        /\ \A k \in 1..n : w[k] \in form[k]
        /\ ~IsContinuation(w[1])
        /\ \A k \in 2..n : IsContinuation(w[k])
    <2>1. n = Len(form) /\ n \in 1..4 /\ \A k \in 1..n : w[k] \in form[k]
      BY FormBytes DEF IsCharacter
    <2>2. 1 \in 1..n
      BY <2>1
    <2>3. w[1] \in form[1]
      BY <2>1, <2>2
    <2>4. ~IsContinuation(w[1]) /\ \A k \in 2..n : form[k] \subseteq Trailing
      BY <2>1, <2>3, LeadByte
    <2>5. ASSUME NEW k \in 2..n PROVE IsContinuation(w[k])
      <3>1. k \in 1..n
        BY <2>1
      <3>2. w[k] \in Trailing
        BY <2>1, <2>4, <3>1
      <3>. QED BY <3>2 DEF Trailing, IsContinuation
    <2>. QED BY <2>1, <2>4, <2>5
  <1>4. /\ \A i \in 0..(L - 1) : i \in B <=> ~IsContinuation(e[i + 1])
        /\ \A i \in B : i < L => \E f \in Forms : i + Len(f) \in B /\ Follows(e, i, f, Len(f))
    BY DEF WellEncoded
  <1> HIDE DEF L, n, ew
  <1>5. C \subseteq 0..(L + n) /\ 0 \in C /\ L + n \in C /\ L \in C
    BY <1>1, <1>2
  <1>6. ASSUME NEW i \in 0..(L + n - 1)
        PROVE  i \in C <=> ~IsContinuation(ew[i + 1])
    <2>1. CASE i < L
      <3>1. i \in 0..(L - 1) /\ i + 1 \in 1..L /\ i # L + n
        BY <1>2, <2>1
      <3>. QED BY <1>2, <1>4, <3>1
    <2>2. CASE i = L
      <3>1. i + 1 = L + 1 /\ 1 \in 1..n
        BY <1>2, <1>3, <2>2
      <3>2. ew[i + 1] = w[1]
        BY <1>2, <3>1
      <3>. QED BY <1>3, <1>5, <2>2, <3>2
    <2>3. CASE i > L
      <3>1. i + 1 = L + (i - L + 1) /\ i - L + 1 \in 2..n /\ i - L + 1 \in 1..n
        BY <1>2, <2>3
      <3>2. i \notin 0..L /\ i # L + n
        BY <1>2, <2>3
      <3>3. i \notin C
        BY <1>1, <1>2, <3>2
      <3>4. ew[i + 1] = w[i - L + 1]
        BY <1>2, <3>1
      <3>5. IsContinuation(w[i - L + 1])
        BY <1>3, <3>1
      <3>. QED BY <3>3, <3>4, <3>5
    <2>. QED BY <1>2, <2>1, <2>2, <2>3
  <1>7. ASSUME NEW i \in C, i < L + n
        PROVE  \E f \in Forms : i + Len(f) \in C /\ Follows(ew, i, f, Len(f))
    <2>1. i \in B /\ i \in Nat
      BY <1>1, <1>2, <1>7
    <2>2. CASE i < L
      <3>1. PICK f \in Forms : i + Len(f) \in B /\ Follows(e, i, f, Len(f))
        BY <1>4, <2>1, <2>2
      <3>2. Follows(ew, i, f, Len(f))
        BY <1>1, <2>1, <3>1, FollowsMore DEF ew
      <3>. QED BY <3>1, <3>2
    <2>3. CASE i = L
      <3>1. Follows(ew, L, form, n)
        <4>1. \A k \in 1..n : ew[L + k] \in form[k]
          BY <1>2, <1>3, Zenon
        <4>2. n <= Len(form) /\ L + n <= Len(ew)
          BY <1>2, <1>3
        <4>. QED BY <4>1, <4>2, Zenon DEF Follows
      <3>. QED BY <1>3, <1>5, <2>3, <3>1
    <2>4. i < L \/ i = L
      BY <1>1, <1>2, <2>1
    <2>. QED BY <2>2, <2>3, <2>4
  <1> HIDE DEF C
  <1>8. C \subseteq 0..Len(ew) /\ 0 \in C /\ Len(ew) \in C
    BY <1>2, <1>5
  <1>9. \A i \in 0..(Len(ew) - 1) : i \in C <=> ~IsContinuation(ew[i + 1])
    BY <1>2, <1>6
  <1>10. \A i \in C : i < Len(ew) => \E f \in Forms : i + Len(f) \in C /\ Follows(ew, i, f, Len(f))
    BY <1>2, <1>7
  <1>11. WellEncoded(ew, C)
    BY <1>2, <1>8, <1>9, <1>10, Zenon DEF WellEncoded
  <1>. QED BY <1>11 DEF ew, C

(* Where the characters of a string begin, and its end, in its encoding.    *)
BoundariesOf(str) == {Len(EncodeAll(SubSeq(str, 1, n))) : n \in 0..Len(str)}

LEMMA PrefixesMore ==
  ASSUME NEW str \in Seq(Nat), NEW ch \in Nat
  PROVE  /\ Len(Append(str, ch)) = Len(str) + 1
         /\ \A n \in 0..Len(str) : SubSeq(Append(str, ch), 1, n) = SubSeq(str, 1, n)
         /\ SubSeq(Append(str, ch), 1, Len(str) + 1) = Append(str, ch)
  OBVIOUS

LEMMA BoundariesMore ==
  ASSUME NEW str, IsString(str), NEW ch, IsScalar(ch)
  PROVE  BoundariesOf(Append(str, ch))
           = BoundariesOf(str) \cup {Len(EncodeAll(Append(str, ch)))}
  <1>1. str \in Seq(Nat) /\ ch \in Nat /\ Len(str) \in Nat
    BY DEF IsString, IsScalar
  <1> DEFINE more == Append(str, ch)
             m == Len(str)
             P(t, n) == Len(EncodeAll(SubSeq(t, 1, n)))
  <1>2. Len(more) = m + 1 /\ (\A n \in 0..m : P(more, n) = P(str, n)) /\ P(more, m + 1) = Len(EncodeAll(more))
    BY <1>1, PrefixesMore
  <1>3. BoundariesOf(str) = {P(str, n) : n \in 0..m}
    BY DEF BoundariesOf
  <1>4. BoundariesOf(more) = {P(more, n) : n \in 0..(m + 1)}
    BY <1>2 DEF BoundariesOf
  <1>5. m \in Nat
    BY <1>1
  <1> HIDE DEF more, m, P
  <1>6. \A n \in 0..(m + 1) : n \in 0..m \/ n = m + 1
    BY <1>5
  <1>7. \A n \in 0..m : n \in 0..(m + 1)
    BY <1>5
  <1>8. m + 1 \in 0..(m + 1)
    BY <1>5
  <1>9. BoundariesOf(more) = BoundariesOf(str) \cup {Len(EncodeAll(more))}
    BY ONLY <1>2, <1>3, <1>4, <1>6, <1>7, <1>8, Zenon
  <1>. QED BY <1>9 DEF more

(* The encoding of every string is well-formed.                            *)
LEMMA StringsEncoded ==
  ASSUME NEW str, IsString(str)
  PROVE  WellEncoded(EncodeAll(str), BoundariesOf(str))
  <1> DEFINE Bad(n) == \E t \in Seq(Nat) : /\ IsString(t) /\ Len(t) = n
                                           /\ ~WellEncoded(EncodeAll(t), BoundariesOf(t))
             S == {n \in Nat : Bad(n)}
  <1>1. S \in SUBSET Nat
    OBVIOUS
  <1>2. ASSUME NEW t \in Seq(Nat), IsString(t), Len(t) = 0
        PROVE  WellEncoded(EncodeAll(t), BoundariesOf(t))
    <2>1. t = <<>>
      BY <1>2, EmptySeq
    <2>2. IsScalar(0)
      BY DEF IsScalar
    <2>3. EncodeAll(<<>>) = <<>>
      BY <1>2, <2>2, EncodeStrings
    <2>4. SubSeq(<<>>, 1, 0) = <<>> /\ Len(<<>>) = 0 /\ 0..0 = {0}
      OBVIOUS
    <2>5. BoundariesOf(<<>>) = {0}
      BY <2>3, <2>4, Zenon DEF BoundariesOf
    <2>. QED BY <2>1, <2>3, <2>5, NothingEncoded
  <1>3. ASSUME NEW t \in Seq(Nat), IsString(t), Len(t) # 0,
               \A u \in Seq(Nat) : IsString(u) /\ Len(u) = Len(t) - 1
                                     => WellEncoded(EncodeAll(u), BoundariesOf(u))
        PROVE  WellEncoded(EncodeAll(t), BoundariesOf(t))
    <2> DEFINE m == Len(t) - 1
               u == SubSeq(t, 1, m)
               ch == t[m + 1]
    <2>1. m \in 0..Len(t) /\ m + 1 \in 1..Len(t) /\ m \in Nat /\ Len(t) = m + 1
      BY <1>3
    <2>2. IsScalar(ch)
      BY <1>3, <2>1, Zenon DEF IsString
    <2>3. u \in Seq(Nat) /\ Len(u) = m /\ t = Append(u, ch)
      BY <2>1
    <2>4. IsString(u)
      BY <1>3, <2>1, <2>2, Strings, Zenon
    <2> HIDE DEF m, u, ch
    <2>5. WellEncoded(EncodeAll(u), BoundariesOf(u))
      BY <1>3, <2>3, <2>4 DEF m
    <2>6. PICK form \in Forms : IsCharacter(Encode(ch), form)
      BY <2>2, EncodeForm
    <2>7. Encode(ch) \in Seq(0..255)
      BY <2>2, EncodeBytes
    <2>8. EncodeAll(t) = EncodeAll(u) \o Encode(ch)
      BY <2>2, <2>3, <2>4, EncodeStrings
    <2>9. WellEncoded(EncodeAll(t), BoundariesOf(u) \cup {Len(EncodeAll(t))})
      BY <2>5, <2>6, <2>7, <2>8, CharacterMore
    <2>10. BoundariesOf(t) = BoundariesOf(u) \cup {Len(EncodeAll(t))}
      BY <2>2, <2>3, <2>4, BoundariesMore
    <2>. QED BY <2>9, <2>10
  <1>4. S = {}
    <2>1. SUFFICES ASSUME NEW e \in S PROVE FALSE
      OBVIOUS
    <2>2. PICK n \in S : \A k \in S : n <= k
      BY <1>1, <2>1, Least
    <2>3. PICK t \in Seq(Nat) : /\ IsString(t) /\ Len(t) = n
                                /\ ~WellEncoded(EncodeAll(t), BoundariesOf(t))
      BY <2>2
    <2>4. n \in Nat /\ n # 0
      BY <1>2, <2>2, <2>3
    <2>5. n - 1 \in Nat /\ ~(n <= n - 1)
      BY <2>4
    <2>6. ~Bad(n - 1)
      BY <2>2, <2>5
    <2>. QED BY <1>3, <2>3, <2>4, <2>6
  <1>5. str \in Seq(Nat) /\ Len(str) \in Nat
    BY DEF IsString
  <1>6. ~Bad(Len(str))
    BY <1>4, <1>5
  <1>. QED BY <1>5, <1>6

-----------------------------------------------------------------------------
(***************************************************************************)
(* Bytes s, cut anywhere out of an encoding: the characters in them begin  *)
(* at the offsets T.  One that begins in s follows a form; if s holds all  *)
(* of it, it ends at one of T, and otherwise no character ends with s.     *)
(***************************************************************************)
PartEncoded(s, T) ==
  /\ s \in Seq(0..255)
  /\ T \subseteq 0..Len(s)
  /\ \A i \in 0..(Len(s) - 1) : i \in T <=> ~IsContinuation(s[i + 1])
  /\ \A i \in T : i < Len(s) =>
       \E form \in Forms :
         /\ \A k \in 1..Len(form) : i + k <= Len(s) => s[i + k] \in form[k]
         /\ i + Len(form) <= Len(s) => i + Len(form) \in T
         /\ Len(s) < i + Len(form) => Len(s) \notin T

LEMMA BytesAreNumbers ==
  ASSUME NEW e \in Seq(0..255)
  PROVE  e \in Seq(Nat) /\ \A j \in 1..Len(e) : e[j] \in 0..255
  <1>1. 0..255 \subseteq Nat
    OBVIOUS
  <1>2. e \in Seq(Nat)
    BY <1>1, SeqMonotonic
  <1>3. ASSUME NEW j \in 1..Len(e) PROVE e[j] \in 0..255
    BY <1>3, ElementOfSeq
  <1>. QED BY ONLY <1>2, <1>3

(* A sequence of bytes, as one fact.                                        *)
IsBytes(e) == e \in Seq(0..255)

LEMMA Slice ==
  ASSUME NEW e, IsBytes(e), NEW a \in Nat, NEW b \in Nat, a <= b, b <= Len(e)
  PROVE  /\ IsBytes(SubSeq(e, a + 1, b))
         /\ Len(SubSeq(e, a + 1, b)) = b - a
         /\ \A i \in 1..(b - a) : SubSeq(e, a + 1, b)[i] = e[a + i]
  <1> DEFINE n == b - a
             s == SubSeq(e, a + 1, a + n)
  <1>0. e \in Seq(Nat) /\ \A j \in 1..Len(e) : e[j] \in 0..255
    BY BytesAreNumbers DEF IsBytes
  <1>1. Len(e) \in Nat /\ n \in Nat /\ a + n = b /\ a + n <= Len(e)
    BY <1>0
  <1> HIDE DEF n
  <1>2. s \in Seq(Nat) /\ Len(s) = n /\ \A i \in 1..n : s[i] = e[a + i]
    BY <1>0, <1>1, Stretch
  <1> HIDE DEF s
  <1>3. ASSUME NEW i \in 1..n PROVE s[i] \in 0..255
    <2>1. a + i \in 1..Len(e)
      BY <1>1
    <2>2. e[a + i] \in 0..255
      BY <1>0, <2>1
    <2>. QED BY <1>2, <2>2
  <1>4. s \in Seq(0..255)
    BY <1>2, <1>3, SeqOfBytes
  <1>5. s = SubSeq(e, a + 1, b)
    BY <1>1 DEF s
  <1>. QED BY <1>2, <1>4, <1>5 DEF n, IsBytes

LEMMA HeldPart ==
  ASSUME NEW e, NEW B, WellEncoded(e, B), NEW a \in 0..Len(e), NEW b \in a..Len(e)
  PROVE  PartEncoded(SubSeq(e, a + 1, b), {i \in 0..(b - a) : a + i \in B})
  <1> DEFINE s == SubSeq(e, a + 1, b)
             T == {i \in 0..(b - a) : a + i \in B}
             n == b - a
  <1>1. /\ e \in Seq(0..255) /\ B \subseteq 0..Len(e) /\ Len(e) \in B
        /\ \A i \in 0..(Len(e) - 1) : i \in B <=> ~IsContinuation(e[i + 1])
        /\ \A i \in B : i < Len(e) => \E form \in Forms : /\ i + Len(form) \in B
                                                         /\ Follows(e, i, form, Len(form))
    BY DEF WellEncoded
  <1>2. Len(e) \in Nat /\ a \in Nat /\ b \in Nat /\ n \in Nat /\ a + n = b /\ b <= Len(e)
    BY <1>1
  <1>3. s \in Seq(0..255) /\ Len(s) = n /\ \A i \in 1..n : s[i] = e[a + i]
    <2>1. a + n = b /\ a <= b
      BY <1>2
    <2>2. IsBytes(e)
      BY <1>1 DEF IsBytes
    <2>3. IsBytes(s) /\ Len(s) = b - a /\ \A i \in 1..(b - a) : s[i] = e[a + i]
      BY <1>2, <2>1, <2>2, Slice
    <2>. QED BY <2>3 DEF IsBytes
  <1>4. T \subseteq 0..n /\ \A i \in 0..n : i \in T <=> a + i \in B
    OBVIOUS
  <1> HIDE DEF s, T, n
  <1>5. ASSUME NEW i \in 0..(n - 1)
        PROVE  i \in T <=> ~IsContinuation(s[i + 1])
    <2>1. /\ i \in 0..n /\ i + 1 \in 1..n /\ a + i \in 0..(Len(e) - 1)
          /\ a + (i + 1) = (a + i) + 1
      BY <1>2
    <2>2. s[i + 1] = e[(a + i) + 1]
      BY <1>3, <2>1
    <2>3. a + i \in B <=> ~IsContinuation(e[(a + i) + 1])
      BY <1>1, <2>1
    <2>. QED BY <1>4, <2>1, <2>2, <2>3
  <1>6. ASSUME NEW i \in T, i < n
        PROVE  \E form \in Forms :
                 /\ \A k \in 1..Len(form) : i + k <= n => s[i + k] \in form[k]
                 /\ i + Len(form) <= n => i + Len(form) \in T
                 /\ n < i + Len(form) => n \notin T
    <2>1. i \in 0..n /\ a + i \in B /\ a + i < Len(e) /\ i \in Nat
      BY <1>2, <1>4, <1>6
    <2>2. PICK form \in Forms : a + i + Len(form) \in B /\ Follows(e, a + i, form, Len(form))
      BY <1>1, <2>1
    <2>3. Len(form) \in Nat /\ Len(form) >= 1
      BY FormBytes
    <2> DEFINE m == Len(form)
    <2>4. \A k \in 1..m : e[a + i + k] \in form[k]
      BY <2>2 DEF Follows
    <2>5. ASSUME NEW k \in 1..m, i + k <= n PROVE s[i + k] \in form[k]
      <3>1. i + k \in 1..n /\ a + (i + k) = a + i + k
        BY <1>2, <2>1, <2>5
      <3>2. s[i + k] = e[a + i + k]
        BY <1>3, <3>1
      <3>. QED BY <2>4, <3>2
    <2>6. ASSUME i + m <= n PROVE i + m \in T
      <3>1. i + m \in 0..n /\ a + (i + m) = a + i + m
        BY <1>2, <2>1, <2>3, <2>6
      <3>. QED BY <1>4, <2>2, <3>1
    <2>7. ASSUME n < i + m PROVE n \notin T
      <3> DEFINE k == n - i + 1
      <3>1. k \in 2..m /\ k \in 1..m /\ a + i + k = (a + n) + 1 /\ n \in 0..n
        BY <1>2, <1>6, <2>1, <2>3, <2>7
      <3>2. a + i + m \in 0..Len(e)
        BY <1>1, <2>2
      <3>3. a + n \in 0..(Len(e) - 1)
        BY <1>2, <2>1, <2>3, <2>7, <3>2
      <3> HIDE DEF k
      <3>4. form[k] \subseteq Trailing
        <4>1. e[a + i + 1] \in form[1]
          BY <2>3, <2>4
        <4>. QED BY <3>1, <4>1, LeadByte
      <3>5. e[(a + n) + 1] \in Trailing
        BY <2>4, <3>1, <3>4
      <3>6. IsContinuation(e[(a + n) + 1])
        BY <3>5 DEF Trailing, IsContinuation
      <3>7. a + n \notin B
        BY <1>1, <3>3, <3>6
      <3>. QED BY <1>4, <3>1, <3>7
    <2>. QED BY <2>5, <2>6, <2>7
  <1>7. PartEncoded(s, T)
    BY <1>3, <1>4, <1>5, <1>6 DEF PartEncoded
  <1>. QED BY <1>7 DEF s, T

-----------------------------------------------------------------------------
(* Aligning an offset in bytes cut out of an encoding.                      *)
LEMMA ClampedIs ==
  ASSUME NEW s \in Seq(0..255), NEW pos \in 0..Len(s), NEW offset \in Nat
  PROVE  /\ Clamped(s, pos, offset) \in pos..Len(s)
         /\ \A i \in 0..(Len(s) - 1) : Clamped(s, pos, offset) <= i <=> pos <= i /\ offset <= i
         /\ offset <= Len(s) => (Clamped(s, pos, offset) <= Len(s) <=> pos <= Len(s) /\ offset <= Len(s))
         /\ Clamped(s, pos, offset) <= offset \/ Clamped(s, pos, offset) = pos
  <1> DEFINE L == Len(s)
             h == IF offset <= pos THEN pos ELSE offset
             c == IF h <= L THEN h ELSE L
  <1>1. L \in Nat /\ pos \in Nat /\ pos <= L
    OBVIOUS
  <1> HIDE DEF L
  <1>2. Max({offset, pos}) = h
    <2>1. {offset, pos} \in SUBSET Int /\ h \in {offset, pos} /\ \A x \in {offset, pos} : x <= h
      BY <1>1
    <2>. QED BY ONLY <2>1, MaxIs
  <1>3. h \in Nat
    BY <1>1
  <1>4. Min({h, L}) = c
    <2>1. {h, L} \in SUBSET Int /\ c \in {h, L} /\ \A x \in {h, L} : c <= x
      BY <1>1, <1>3
    <2>. QED BY ONLY <2>1, MinIs
  <1>5. Clamped(s, pos, offset) = c
    BY <1>2, <1>4, Zenon DEF Clamped, L
  <1>6. /\ c \in pos..L
        /\ \A i \in 0..(L - 1) : c <= i <=> pos <= i /\ offset <= i
        /\ offset <= L => (c <= L <=> pos <= L /\ offset <= L)
        /\ c <= offset \/ c = pos
    BY <1>1
  <1>. QED BY <1>5, <1>6 DEF L

(* align_pos_to_next_char, of any bytes.                                   *)
LEMMA NextCharIs ==
  ASSUME NEW s \in Seq(0..255), NEW pos \in 0..Len(s), NEW offset \in Nat
  PROVE  LET p == AlignPosToNextChar(s, pos, offset)
             c == Clamped(s, pos, offset)
         IN  /\ p \in c..Len(s)
             /\ p < Len(s) => ~IsContinuation(s[p + 1])
             /\ \A i \in c..(p - 1) : IsContinuation(s[i + 1])
  <1> DEFINE p == AlignPosToNextChar(s, pos, offset)
             c == Clamped(s, pos, offset)
             L == Len(s)
             S == {L} \cup {i \in c..(L - 1) : ~IsContinuation(s[i + 1])}
  <1>0. c \in pos..L
    BY ClampedIs, Zenon
  <1>1. L \in Nat /\ c \in pos..L
    BY <1>0
  <1> HIDE DEF c
  <1>2. S \in SUBSET Nat /\ L \in S /\ \A i \in S : i \in c..L
    BY <1>1
  <1>3. p = Min(S)
    BY DEF AlignPosToNextChar, c
  <1>4. \A i \in S : i < L => ~IsContinuation(s[i + 1])
    BY <1>1
  <1>5. \A i \in c..(L - 1) : ~IsContinuation(s[i + 1]) => i \in S
    OBVIOUS
  <1> HIDE DEF S, p, L
  <1>6. p \in S /\ \A i \in S : p <= i
    BY ONLY <1>2, <1>3, MinExists
  <1>7. ASSUME NEW i \in c..(p - 1) PROVE IsContinuation(s[i + 1])
    <2>1. i \in c..(L - 1) /\ ~(p <= i)
      BY <1>1, <1>2, <1>6
    <2>. QED BY <1>5, <1>6, <2>1
  <1>8. p \in c..L /\ (p < L => ~IsContinuation(s[p + 1]))
    BY <1>2, <1>4, <1>6
  <1>. QED BY <1>7, <1>8 DEF p, c, L

LEMMA AlignsForwardIn ==
  ASSUME NEW s, NEW T, PartEncoded(s, T), NEW pos \in 0..Len(s), NEW offset \in Nat
  PROVE  AlignPosToNextChar(s, pos, offset)
           = Min({Len(s)} \cup {i \in T : Clamped(s, pos, offset) <= i})
  <1> DEFINE c == Clamped(s, pos, offset)
             L == Len(s)
             U == {L} \cup {i \in c..(L - 1) : ~IsContinuation(s[i + 1])}
             V == {L} \cup {i \in T : c <= i}
  <1>1. /\ s \in Seq(0..255) /\ T \subseteq 0..L
        /\ \A i \in 0..(L - 1) : i \in T <=> ~IsContinuation(s[i + 1])
    BY DEF PartEncoded
  <1>0. c \in pos..L
    BY <1>1, ClampedIs, Zenon
  <1>2. L \in Nat /\ c \in 0..L
    BY <1>0, <1>1
  <1> HIDE DEF c, L
  <1>3. ASSUME NEW i \in U PROVE i \in V
    <2>1. CASE i = L
      BY <2>1
    <2>2. CASE i # L
      <3>1. i \in c..(L - 1) /\ ~IsContinuation(s[i + 1])
        BY <2>2
      <3>2. i \in 0..(L - 1) /\ c <= i
        BY <1>2, <3>1
      <3>. QED BY <1>1, <3>1, <3>2
    <2>. QED BY <2>1, <2>2
  <1>4. ASSUME NEW i \in V PROVE i \in U
    <2>1. CASE i = L
      BY <2>1
    <2>2. CASE i # L
      <3>1. i \in T /\ c <= i
        BY <2>2
      <3>2. i \in 0..(L - 1) /\ i \in c..(L - 1)
        BY <1>1, <1>2, <2>2, <3>1
      <3>. QED BY <1>1, <3>1, <3>2
    <2>. QED BY <2>1, <2>2
  <1>5. U = V
    BY <1>3, <1>4
  <1>6. AlignPosToNextChar(s, pos, offset) = Min(U)
    BY DEF AlignPosToNextChar, c, L
  <1>. QED BY <1>5, <1>6 DEF c, L

LEMMA LastStartIs ==
  ASSUME NEW s \in Seq(0..255), NEW pos \in 0..Len(s), NEW to \in 0..Len(s), to < Len(s) \/ pos = Len(s)
  PROVE  LET p == LastStart(s, pos, to)
         IN  /\ p \in pos..Len(s)
             /\ p # pos => p <= to /\ p < Len(s) /\ ~IsContinuation(s[p + 1])
             /\ \A i \in pos..to : ~IsContinuation(s[i + 1]) => i <= p
  <1> DEFINE L == Len(s)
             S == {pos} \cup {i \in pos..to : ~IsContinuation(s[i + 1])}
             p == LastStart(s, pos, to)
  <1>1. L \in Nat /\ pos \in 0..L /\ to \in 0..L /\ (to < L \/ pos = L)
    OBVIOUS
  <1>2. p = Max(S)
    BY DEF LastStart
  <1>3. pos \in S /\ \A i \in pos..to : ~IsContinuation(s[i + 1]) => i \in S
    OBVIOUS
  <1>4. \A i \in S : i = pos \/ (i \in pos..to /\ ~IsContinuation(s[i + 1]))
    OBVIOUS
  <1> HIDE DEF S, p, L
  <1>5. S \in SUBSET (0..L) /\ \A i \in S : pos <= i
    BY <1>1, <1>4
  <1>6. p \in S /\ \A i \in S : i <= p
    BY <1>1, <1>2, <1>3, <1>5, MaxExists
  <1>7. p \in pos..L
    BY <1>1, <1>5, <1>6
  <1>8. ASSUME p # pos PROVE p <= to /\ p < L /\ ~IsContinuation(s[p + 1])
    <2>1. p \in pos..to /\ ~IsContinuation(s[p + 1])
      BY <1>4, <1>6, <1>8
    <2>2. p <= to /\ p < L
      BY <1>1, <1>7, <1>8, <2>1
    <2>. QED BY <2>1, <2>2
  <1>9. \A i \in pos..to : ~IsContinuation(s[i + 1]) => i <= p
    BY <1>3, <1>6
  <1>. QED BY <1>7, <1>8, <1>9 DEF p, L

LEMMA AlignsBackwardIn ==
  ASSUME NEW s, NEW T, PartEncoded(s, T), NEW pos \in 0..Len(s), NEW offset \in Nat,
         NEW e \in T, pos <= e, e <= Clamped(s, pos, offset)
  PROVE  AlignPosToChar(s, pos, offset)
           = Max({i \in T : pos <= i /\ i <= Clamped(s, pos, offset)})
  <1> DEFINE c == Clamped(s, pos, offset)
             L == Len(s)
             before == {i \in T : pos <= i /\ i <= c}
             m == Max(before)
             p == AlignPosToChar(s, pos, offset)
             start == LastStart(s, pos, L - 1)
  <1>1. /\ s \in Seq(0..255) /\ T \subseteq 0..L
        /\ \A i \in 0..(L - 1) : i \in T <=> ~IsContinuation(s[i + 1])
        /\ \A i \in T : i < L =>
             \E form \in Forms :
               /\ \A k \in 1..Len(form) : i + k <= L => s[i + k] \in form[k]
               /\ i + Len(form) <= L => i + Len(form) \in T
               /\ L < i + Len(form) => L \notin T
    BY DEF PartEncoded
  <1>0. c \in pos..L
    BY <1>1, ClampedIs, Zenon
  <1>2. L \in Nat /\ pos \in Nat /\ pos <= L /\ c \in 0..L /\ pos <= c
    BY <1>0, <1>1
  <1>3. e \in before
    OBVIOUS
  <1>4. before \in SUBSET (0..L)
    BY <1>1
  <1>5. m \in before /\ \A i \in before : i <= m
    BY <1>2, <1>3, <1>4, MaxExists
  <1>6. \A i \in T : pos <= i /\ i <= c => i \in before
    OBVIOUS
  <1>7. p = IF c < L THEN LastStart(s, pos, c)
            ELSE IF pos = L \/ start + Expected(s[start + 1]) <= L THEN L
            ELSE start
    BY DEF AlignPosToChar
  <1>8. m \in T /\ pos <= m /\ m <= c
    BY <1>5
  <1> HIDE DEF c, L, before, m, p, start
  <1>9. m \in 0..L
    BY <1>1, <1>8
  <1>10. m < L => m \in 0..(L - 1) /\ ~IsContinuation(s[m + 1])
    BY <1>1, <1>2, <1>8, <1>9
  <1>11. CASE c < L
    <2> DEFINE q == LastStart(s, pos, c)
    <2>1. /\ q \in pos..L
          /\ q # pos => q <= c /\ q < L /\ ~IsContinuation(s[q + 1])
          /\ \A i \in pos..c : ~IsContinuation(s[i + 1]) => i <= q
      BY <1>1, <1>2, <1>11, LastStartIs DEF L
    <2> HIDE DEF q
    <2>2. m \in pos..c /\ m < L
      BY <1>2, <1>8, <1>9, <1>11
    <2>3. m <= q
      BY <1>10, <2>1, <2>2
    <2>4. q <= m
      <3>1. CASE q = pos
        BY <1>8, <3>1
      <3>2. CASE q # pos
        <4>1. q \in 0..(L - 1) /\ pos <= q /\ q <= c
          BY <1>2, <2>1, <3>2
        <4>2. q \in T
          BY <1>1, <2>1, <3>2, <4>1
        <4>. QED BY <1>5, <1>6, <4>1, <4>2
      <3>. QED BY <3>1, <3>2
    <2>5. q = m
      BY <1>9, <2>1, <2>3, <2>4, <1>2
    <2>. QED BY <1>7, <1>11, <2>5 DEF q, p, m, before, c
  <1>12. CASE c = L /\ pos = L
    <2>1. m = L
      BY <1>2, <1>8, <1>9, <1>12
    <2>2. p = L
      BY <1>2, <1>7, <1>12
    <2>. QED BY <2>1, <2>2 DEF p, m, before, c
  <1>13. CASE c = L /\ pos < L
    <2>1. L - 1 \in 0..L /\ L - 1 < L
      BY <1>2, <1>13
    <2>2. /\ start \in pos..L
          /\ start # pos => start <= L - 1 /\ start < L /\ ~IsContinuation(s[start + 1])
          /\ \A i \in pos..(L - 1) : ~IsContinuation(s[i + 1]) => i <= start
      BY <1>1, <1>2, <2>1, LastStartIs DEF L, start
    <2>3. start \in 0..(L - 1) /\ start + 1 \in 1..L /\ start < L
      BY <1>2, <1>13, <2>2
    <2>4. p = IF start + Expected(s[start + 1]) <= L THEN L ELSE start
      BY <1>2, <1>7, <1>13
    <2>5. CASE m < L
      <3>1. m <= start
        BY <1>2, <1>8, <1>10, <2>2, <2>5
      <3>2. start <= m
        <4>1. CASE start = pos
          BY <1>8, <4>1
        <4>2. CASE start # pos
          <5>1. start \in T /\ pos <= start /\ start <= c
            BY <1>1, <1>2, <1>13, <2>2, <2>3, <4>2
          <5>. QED BY <1>5, <1>6, <5>1
        <4>. QED BY <4>1, <4>2
      <3>3. start = m
        BY <1>9, <2>3, <3>1, <3>2
      <3>4. PICK form \in Forms :
              /\ \A k \in 1..Len(form) : m + k <= L => s[m + k] \in form[k]
              /\ m + Len(form) <= L => m + Len(form) \in T
        BY <1>1, <1>8, <2>5
      <3>5. Len(form) \in Nat /\ Len(form) >= 1 /\ 1 \in 1..Len(form)
        BY FormBytes
      <3>6. m + 1 <= L /\ s[m + 1] \in form[1]
        BY <1>2, <1>9, <2>5, <3>4, <3>5
      <3>7. Expected(s[m + 1]) = Len(form)
        BY <3>6, LeadByte
      <3>8. ASSUME m + Len(form) <= L PROVE FALSE
        <4>1. m + Len(form) \in T
          BY <3>4, <3>8
        <4>2. pos <= m + Len(form) /\ m + Len(form) <= c /\ ~(m + Len(form) <= m)
          BY <1>2, <1>8, <1>9, <1>13, <3>5, <3>8
        <4>. QED BY <1>5, <1>6, <4>1, <4>2
      <3>9. p = m
        BY <2>4, <3>3, <3>7, <3>8
      <3>. QED BY <3>9 DEF p, m, before, c
    <2>6. CASE m = L
      <3>1. start + Expected(s[start + 1]) <= L
        <4>1. CASE IsContinuation(s[start + 1])
          <5>1. Expected(s[start + 1]) = 1
            BY <4>1, NoLead
          <5>. QED BY <1>2, <2>3, <5>1
        <4>2. CASE ~IsContinuation(s[start + 1])
          <5>1. start \in T /\ L \in T
            BY <1>1, <1>8, <2>3, <2>6, <4>2
          <5>2. PICK form \in Forms :
                  /\ \A k \in 1..Len(form) : start + k <= L => s[start + k] \in form[k]
                  /\ L < start + Len(form) => L \notin T
            BY <1>1, <2>3, <5>1
          <5>3. Len(form) \in Nat /\ Len(form) >= 1 /\ 1 \in 1..Len(form)
            BY FormBytes
          <5>4. start + 1 <= L
            BY <1>2, <2>3
          <5>5. s[start + 1] \in form[1]
            BY <5>2, <5>3, <5>4
          <5>6. Expected(s[start + 1]) = Len(form)
            BY <5>5, LeadByte
          <5>. QED BY <1>2, <2>3, <5>1, <5>2, <5>3, <5>6
        <4>. QED BY <4>1, <4>2
      <3>2. p = m
        BY <2>4, <2>6, <3>1
      <3>. QED BY <3>2 DEF p, m, before, c
    <2>. QED BY <1>2, <1>9, <2>5, <2>6
  <1>. QED BY <1>2, <1>11, <1>12, <1>13

-----------------------------------------------------------------------------
(* What is decoded: valid_up_to, which is defined by recursion, one         *)
(* character at a time.                                                     *)
Whole(s, i) == {form \in Forms : Follows(s, i, form, Len(form))}

Width(s, i) == Len(CHOOSE form \in Whole(s, i) : TRUE)

IsUpTo(f, s) == f = [i \in 0..Len(s) |-> IF Whole(s, i) = {} THEN i ELSE f[i + Width(s, i)]]

UpToOf(s) == CHOOSE f : IsUpTo(f, s)

LEMMA ValidUpToIs == ASSUME NEW s, NEW from PROVE ValidUpTo(s, from) = UpToOf(s)[from]
  BY DEF ValidUpTo, UpToOf, IsUpTo, Whole, Width

LEMMA WholeFacts ==
  ASSUME NEW s \in Seq(0..255), NEW i \in 0..Len(s), NEW form \in Whole(s, i)
  PROVE  /\ Len(form) \in 1..4 /\ i + Len(form) <= Len(s)
         /\ s[i + 1] \in form[1] /\ Expected(s[i + 1]) = Len(form)
         /\ Width(s, i) = Len(form)
  <1>1. \A f \in Whole(s, i) : /\ Len(f) \in 1..4 /\ i + Len(f) <= Len(s)
                               /\ s[i + 1] \in f[1] /\ Expected(s[i + 1]) = Len(f)
    <2> TAKE f \in Whole(s, i)
    <2>1. f \in Forms /\ Follows(s, i, f, Len(f))
      BY DEF Whole
    <2>2. Len(f) \in 1..4 /\ 1 \in 1..Len(f)
      BY <2>1, FormBytes
    <2>3. i + Len(f) <= Len(s) /\ s[i + 1] \in f[1]
      BY <2>1, <2>2 DEF Follows
    <2>. QED BY <2>1, <2>2, <2>3, LeadByte
  <1>2. (CHOOSE f \in Whole(s, i) : TRUE) \in Whole(s, i)
    OBVIOUS
  <1>. QED BY <1>1, <1>2 DEF Width

LEMMA Advance ==
  ASSUME NEW L \in Nat, NEW i \in 0..L, NEW w \in 1..4, i + w <= L
  PROVE  i + w \in 0..L /\ i < i + w /\ i + w # i
  OBVIOUS

(* A set of offsets is empty if no offset is the last of it.                *)
LEMMA Downwards ==
  ASSUME NEW L \in Nat, NEW S \in SUBSET (0..L),
         \A i \in S : \E j \in S : i < j
  PROVE  S = {}
  <1>1. SUFFICES ASSUME NEW e \in S PROVE FALSE
    OBVIOUS
  <1>2. Max(S) \in S /\ \A x \in S : x <= Max(S)
    BY <1>1, MaxExists
  <1>3. PICK j \in S : Max(S) < j
    BY <1>2
  <1>4. j <= Max(S)
    BY <1>2
  <1>5. \A x \in S : x \in Int
    OBVIOUS
  <1>6. j \in Int /\ Max(S) \in Int
    BY <1>2, <1>5, Zenon
  <1>. QED BY ONLY <1>3, <1>4, <1>6

LEMMA UpToExists ==
  ASSUME NEW s \in Seq(0..255)
  PROVE  IsUpTo(UpToOf(s), s)
  <1> DEFINE L == Len(s)
             R(f, i) == IF Whole(s, i) = {} THEN i ELSE f[i + Width(s, i)]
             P(k) == \E f \in [0..L -> 0..L] : \A i \in k..L : f[i] = R(f, i)
             S == {k \in 0..L : ~P(k)}
  <1>1. L \in Nat
    OBVIOUS
  <1>2. ASSUME NEW i \in 0..L, Whole(s, i) # {}
        PROVE  Width(s, i) \in 1..4 /\ i + Width(s, i) <= L
    <2>1. PICK form \in Whole(s, i) : TRUE
      BY <1>2
    <2>2. Len(form) \in 1..4 /\ i + Len(form) <= L /\ Width(s, i) = Len(form)
      BY WholeFacts
    <2>. QED BY <2>2, Zenon
  <1> HIDE DEF L
  <1>3. P(L)
    <2> DEFINE f == [i \in 0..L |-> i]
    <2>1. f \in [0..L -> 0..L] /\ f[L] = L /\ L \in 0..L
      BY <1>1
    <2>2. Whole(s, L) = {}
      BY <1>1, <1>2, <2>1
    <2>3. \A i \in L..L : i = L
      BY <1>1
    <2> HIDE DEF f
    <2>4. \A i \in L..L : f[i] = R(f, i)
      BY <2>1, <2>2, <2>3
    <2>. QED BY <2>1, <2>4
  <1>4. ASSUME NEW k \in 0..L, k < L, P(k + 1)
        PROVE  P(k)
    <2>1. PICK f \in [0..L -> 0..L] : \A i \in (k + 1)..L : f[i] = R(f, i)
      BY <1>4
    <2> DEFINE v == IF Whole(s, k) = {} THEN k ELSE f[k + Width(s, k)]
               g == [i \in 0..L |-> IF i = k THEN v ELSE f[i]]
    <2>2. v \in 0..L
      <3>1. Whole(s, k) # {} => k + Width(s, k) \in 0..L
        BY <1>1, <1>2, Advance, Zenon
      <3>. QED BY <2>1, <3>1
    <2> HIDE DEF v
    <2>3. g \in [0..L -> 0..L]
      BY <2>1, <2>2
    <2>4. g[k] = v /\ \A i \in 0..L : i # k => g[i] = f[i]
      OBVIOUS
    <2> HIDE DEF g
    <2>5. ASSUME NEW i \in k..L PROVE g[i] = R(g, i)
      <3>1. i \in 0..L
        BY <1>1
      <3>2. ASSUME Whole(s, i) # {}
            PROVE  g[i + Width(s, i)] = f[i + Width(s, i)]
        <4>1. /\ i + Width(s, i) \in 0..L /\ i < i + Width(s, i)
              /\ i + Width(s, i) \in Int /\ k <= i /\ k \in Int /\ i \in Int
          <5>1. i + Width(s, i) \in 0..L /\ i < i + Width(s, i)
            BY <1>1, <1>2, <3>1, <3>2, Advance, Zenon
          <5>2. i + Width(s, i) \in Int
            BY <1>1, <5>1
          <5>. QED BY <1>1, <5>1, <5>2
        <4>2. i + Width(s, i) # k
          BY ONLY <4>1
        <4>. QED BY <2>4, <4>1, <4>2, Zenon
      <3>3. CASE i = k
        BY <2>4, <3>2, <3>3 DEF v
      <3>4. CASE i # k
        <4>1. i \in (k + 1)..L
          BY <1>1, <3>4
        <4>2. g[i] = f[i] /\ f[i] = R(f, i)
          BY <2>1, <2>4, <3>1, <3>4, <4>1
        <4>. QED BY <3>2, <4>2
      <3>. QED BY <3>3, <3>4
    <2>. QED BY <2>3, <2>5
  <1> HIDE DEF P
  <1>5. S = {}
    <2>1. ASSUME NEW i \in S PROVE \E j \in S : i < j
      <3>1. i \in 0..L /\ i # L
        BY <1>3
      <3>2. i < L /\ i + 1 \in 0..L /\ i < i + 1
        BY <1>1, <3>1
      <3>3. ~P(i + 1)
        BY <1>4, <3>1, <3>2
      <3>. QED BY <3>2, <3>3
    <2>2. S \in SUBSET (0..L)
      OBVIOUS
    <2>. QED BY <1>1, <2>1, <2>2, Downwards
  <1>6. P(0)
    BY <1>1, <1>5
  <1>7. PICK f \in [0..L -> 0..L] : \A i \in 0..L : f[i] = R(f, i)
    BY <1>6 DEF P
  <1>8. f = [i \in 0..L |-> R(f, i)]
    BY <1>7
  <1>9. IsUpTo(f, s)
    BY <1>8, Zenon DEF IsUpTo, L
  <1>. QED BY <1>9, Zenon DEF UpToOf

(* One step of the recursion.                                              *)
LEMMA ValidUpToStep ==
  ASSUME NEW s \in Seq(0..255), NEW i \in 0..Len(s)
  PROVE  /\ Whole(s, i) = {} => ValidUpTo(s, i) = i
         /\ \A form \in Whole(s, i) : ValidUpTo(s, i) = ValidUpTo(s, i + Len(form))
  <1> DEFINE u == UpToOf(s)
             L == Len(s)
  <1>1. u = [j \in 0..L |-> IF Whole(s, j) = {} THEN j ELSE u[j + Width(s, j)]]
    BY UpToExists, Zenon DEF IsUpTo
  <1> HIDE DEF u, L
  <1>2. \A j \in 0..L : u[j] = IF Whole(s, j) = {} THEN j ELSE u[j + Width(s, j)]
    BY <1>1, Zenon
  <1>3. u[i] = IF Whole(s, i) = {} THEN i ELSE u[i + Width(s, i)]
    BY <1>2 DEF L
  <1>4. ValidUpTo(s, i) = u[i]
    BY ValidUpToIs DEF u
  <1>5. ASSUME NEW form \in Whole(s, i) PROVE ValidUpTo(s, i) = ValidUpTo(s, i + Len(form))
    <2>1. Width(s, i) = Len(form)
      BY WholeFacts
    <2>2. ValidUpTo(s, i + Len(form)) = u[i + Len(form)]
      BY ValidUpToIs DEF u
    <2>. QED BY <1>3, <1>4, <2>1, <2>2
  <1>. QED BY <1>3, <1>4, <1>5

(* Where the recursion stops.                                              *)
LEMMA ValidUpToStops ==
  ASSUME NEW s \in Seq(0..255), NEW i \in 0..Len(s)
  PROVE  ValidUpTo(s, i) \in i..Len(s) /\ Whole(s, ValidUpTo(s, i)) = {}
  <1> DEFINE L == Len(s)
             Good(j) == ValidUpTo(s, j) \in j..L /\ Whole(s, ValidUpTo(s, j)) = {}
             S == {j \in 0..L : ~Good(j)}
  <1>1. L \in Nat
    OBVIOUS
  <1>2. ASSUME NEW j \in 0..L, Whole(s, j) = {} PROVE Good(j)
    <2>1. ValidUpTo(s, j) = j
      BY <1>2, ValidUpToStep
    <2>2. j \in j..L
      BY <1>1
    <2>. QED BY <1>2, <2>1, <2>2
  <1>3. ASSUME NEW j \in 0..L, NEW form \in Whole(s, j), Good(j + Len(form)) PROVE Good(j)
    <2>1. ValidUpTo(s, j) = ValidUpTo(s, j + Len(form))
      BY ValidUpToStep
    <2>2. Len(form) \in Nat /\ \A x \in (j + Len(form))..L : x \in j..L
      <3>1. Len(form) \in 1..4
        BY WholeFacts
      <3>. QED BY <1>1, <3>1
    <2>. QED BY <1>3, <2>1, <2>2
  <1>4. ASSUME NEW j \in 0..L, NEW form \in Whole(s, j)
        PROVE  j + Len(form) \in 0..L /\ j < j + Len(form)
    <2>1. Len(form) \in 1..4 /\ j + Len(form) <= L
      BY WholeFacts
    <2>. QED BY <1>1, <2>1, Advance, Zenon
  <1> HIDE DEF L, Good
  <1>5. S = {}
    <2>1. ASSUME NEW j \in S PROVE \E m \in S : j < m
      <3>1. j \in 0..L /\ ~Good(j)
        OBVIOUS
      <3>2. PICK form \in Whole(s, j) : TRUE
        BY <1>2, <3>1
      <3>. QED BY <1>3, <1>4, <3>1, <3>2
    <2>2. S \in SUBSET (0..L)
      OBVIOUS
    <2>. QED BY <1>1, <2>1, <2>2, Downwards
  <1>6. Good(i)
    BY <1>5 DEF L
  <1>. QED BY <1>6 DEF Good, L

-----------------------------------------------------------------------------
(* The whole characters in bytes cut out of an encoding.                    *)
LEMMA CharacterEnds ==
  ASSUME NEW s, NEW T, PartEncoded(s, T), NEW i \in T, i < Len(s)
  PROVE  \/ \E form \in Whole(s, i) : i + Len(form) \in T
         \/ /\ Whole(s, i) = {} /\ IsIncomplete(s, i)
            /\ \A j \in T : j <= i
  <1> DEFINE L == Len(s)
  <1>1. /\ s \in Seq(0..255) /\ T \subseteq 0..L /\ L \in Nat
        /\ \A j \in 0..(L - 1) : j \in T <=> ~IsContinuation(s[j + 1])
    BY DEF PartEncoded
  <1>2. PICK form \in Forms :
          /\ \A k \in 1..Len(form) : i + k <= L => s[i + k] \in form[k]
          /\ i + Len(form) <= L => i + Len(form) \in T
          /\ L < i + Len(form) => L \notin T
    BY DEF PartEncoded
  <1> DEFINE n == Len(form)
  <1>3. n \in 1..4 /\ n \in Nat /\ n >= 1 /\ 1 \in 1..n
    BY FormBytes
  <1>4. i \in 0..L /\ i \in Nat /\ i + 1 <= L
    BY <1>1
  <1>5. s[i + 1] \in form[1]
    BY <1>2, <1>3, <1>4
  <1>6. Expected(s[i + 1]) = n
    BY <1>5, LeadByte
  <1> HIDE DEF L
  <1>7. CASE i + n <= L
    <2>1. \A k \in 1..n : s[i + k] \in form[k]
      BY <1>1, <1>2, <1>3, <1>4, <1>7
    <2>2. form \in Whole(s, i)
      <3>1. n <= Len(form) /\ i + n <= Len(s)
        BY <1>3, <1>7 DEF L
      <3>2. Follows(s, i, form, Len(form))
        BY <2>1, <3>1, Zenon DEF Follows
      <3>. QED BY <3>2 DEF Whole
    <2>. QED BY <1>2, <1>7, <2>2
  <1>8. CASE ~(i + n <= L)
    <2>1. L < i + n /\ L - i \in 1..n /\ L - i <= n /\ i + (L - i) <= L
      BY <1>1, <1>3, <1>4, <1>8
    <2>2. Whole(s, i) = {}
      <3>1. ASSUME NEW f \in Whole(s, i) PROVE FALSE
        <4>1. i + Len(f) <= L /\ Expected(s[i + 1]) = Len(f)
          BY <1>1, <1>4, WholeFacts DEF L
        <4>. QED BY <1>6, <1>8, <4>1
      <3>. QED BY <3>1
    <2>3. IsIncomplete(s, i)
      <3>1. ASSUME NEW k \in 1..(L - i) PROVE s[i + k] \in form[k]
        <4>1. k \in 1..n /\ i + k <= L
          BY <1>1, <1>3, <1>4, <2>1
        <4>. QED BY <1>2, <4>1
      <3>2. Follows(s, i, form, L - i)
        BY <2>1, <3>1, Zenon DEF Follows, L
      <3>. QED BY <3>2 DEF IsIncomplete, L
    <2>4. ASSUME NEW j \in T PROVE j <= i
      <3>1. j \in Nat /\ j <= L /\ j # L
        BY <1>1, <1>2, <2>1
      <3>2. ASSUME i < j PROVE FALSE
        <4> DEFINE k == j - i + 1
        <4>1. k \in 2..n /\ k \in 1..n /\ i + k = j + 1 /\ i + k <= L /\ j \in 0..(L - 1)
          BY <1>1, <1>3, <1>4, <2>1, <3>1, <3>2
        <4> HIDE DEF k
        <4>2. form[k] \subseteq Trailing
          BY <1>5, <4>1, LeadByte
        <4>3. s[j + 1] \in form[k]
          BY <1>2, <4>1
        <4>4. IsContinuation(s[j + 1])
          BY <4>2, <4>3 DEF Trailing, IsContinuation
        <4>. QED BY <1>1, <4>1, <4>4
      <3>. QED BY <1>4, <3>1, <3>2
    <2>. QED BY <2>2, <2>3, <2>4
  <1>. QED BY <1>7, <1>8

(* Nothing is decoded at the end.                                           *)
LEMMA DecodesNothing ==
  ASSUME NEW s \in Seq(0..255)
  PROVE  ValidUpTo(s, Len(s)) = Len(s) /\ IsIncomplete(s, Len(s))
  <1> DEFINE L == Len(s)
  <1>0. s \in Seq(0..255) /\ L \in Nat
    OBVIOUS
  <1>1. L \in 0..L
    BY <1>0
  <1>2. Whole(s, L) = {}
    <2>1. ASSUME NEW form \in Whole(s, L) PROVE FALSE
      <3>1. Len(form) \in 1..4 /\ L + Len(form) <= L
        BY <1>0, <1>1, WholeFacts
      <3>2. L < L + Len(form)
        BY <1>0, <1>1, <3>1, Advance, Zenon
      <3>3. Len(form) \in Int
        BY ONLY <3>1
      <3>. QED BY ONLY <1>0, <3>1, <3>2, <3>3
    <2>. QED BY <2>1
  <1>3. ValidUpTo(s, L) = L
    BY <1>0, <1>1, <1>2, ValidUpToStep
  <1>4. IsIncomplete(s, L)
    <2>1. <<0..127>> \in Forms
      BY FormsAre
    <2>2. Len(<<0..127>>) = 1 /\ L - L = 0 /\ 0 <= 1 /\ L + 0 <= L /\ 1..0 = {}
      BY <1>0
    <2>3. Follows(s, L, <<0..127>>, 0)
      BY <2>2 DEF Follows
    <2>. QED BY <2>1, <2>2, <2>3 DEF IsIncomplete
  <1>. QED BY <1>3, <1>4

(* Decoding from the beginning of a character goes to the last one of T.    *)
LEMMA DecodesAll ==
  ASSUME NEW s, NEW T, PartEncoded(s, T), NEW i \in T
  PROVE  /\ ValidUpTo(s, i) \in T /\ \A j \in T : j <= ValidUpTo(s, i)
         /\ IsIncomplete(s, ValidUpTo(s, i))
  <1> DEFINE L == Len(s)
             Good(j) == /\ ValidUpTo(s, j) \in T /\ \A k \in T : k <= ValidUpTo(s, j)
                        /\ IsIncomplete(s, ValidUpTo(s, j))
             S == {j \in T : ~Good(j)}
  <1>1. s \in Seq(0..255) /\ T \subseteq 0..L /\ L \in Nat
    BY DEF PartEncoded
  <1>2. ASSUME L \in T PROVE Good(L)
    BY <1>1, <1>2, DecodesNothing
  <1>3. ASSUME NEW j \in T, j < L, ~Good(j) PROVE \E k \in T : j < k /\ ~Good(k)
    <2>1. j \in 0..L
      BY <1>1
    <2>2. CASE \E form \in Whole(s, j) : j + Len(form) \in T
      <3>1. PICK form \in Whole(s, j) : j + Len(form) \in T
        BY <2>2
      <3>2. ValidUpTo(s, j) = ValidUpTo(s, j + Len(form))
        BY <1>1, <2>1, ValidUpToStep
      <3>3. j < j + Len(form)
        <4>1. Len(form) \in 1..4 /\ j + Len(form) <= L
          BY <1>1, <2>1, WholeFacts
        <4>. QED BY <1>1, <2>1, <4>1, Advance
      <3>. QED BY <1>3, <3>1, <3>2, <3>3
    <2>3. CASE Whole(s, j) = {} /\ IsIncomplete(s, j) /\ \A k \in T : k <= j
      <3>1. ValidUpTo(s, j) = j
        BY <1>1, <2>1, <2>3, ValidUpToStep
      <3>. QED BY <1>3, <2>3, <3>1
    <2>. QED BY <1>3, <2>2, <2>3, CharacterEnds
  <1> HIDE DEF L, Good
  <1>4. S = {}
    <2>1. ASSUME NEW j \in S PROVE \E k \in S : j < k
      <3>1. j \in T /\ ~Good(j) /\ j \in 0..L
        BY <1>1
      <3>2. j < L
        BY <1>1, <1>2, <3>1
      <3>. QED BY <1>3, <3>1, <3>2
    <2>2. S \in SUBSET (0..L)
      BY <1>1
    <2>. QED BY <1>1, <2>1, <2>2, Downwards
  <1>5. Good(i)
    BY <1>4
  <1>. QED BY <1>5 DEF Good

AllDecoded(s, T, pos, offset) ==
  LET t      == AsStrFrom(s, pos, offset)
      starts == {i \in T : pos <= i /\ offset <= i}
  IN  t.ok /\ IF starts = {} THEN t.from = t.to
              ELSE t.from = Min(starts) /\ t.to = Max(starts)

LEMMA WholeCharactersIn ==
  ASSUME NEW s, NEW T, PartEncoded(s, T), NEW pos \in 0..Len(s), NEW offset \in Nat
  PROVE  AllDecoded(s, T, pos, offset)
  <1> DEFINE L == Len(s)
             c == Clamped(s, pos, offset)
             p == AlignPosToNextChar(s, pos, offset)
             v == ValidUpTo(s, p)
             t == AsStrFrom(s, pos, offset)
             starts == {i \in T : pos <= i /\ offset <= i}
  <1>1. /\ s \in Seq(0..255) /\ T \subseteq 0..L /\ L \in Nat
        /\ \A j \in 0..(L - 1) : j \in T <=> ~IsContinuation(s[j + 1])
    BY DEF PartEncoded
  <1>2. c \in pos..L /\ \A i \in 0..(L - 1) : c <= i <=> pos <= i /\ offset <= i
    BY <1>1, ClampedIs, Zenon
  <1>3. /\ p \in c..L
        /\ p < L => ~IsContinuation(s[p + 1])
        /\ \A i \in c..(p - 1) : IsContinuation(s[i + 1])
    BY <1>1, NextCharIs, Zenon
  <1>4. (t.ok <=> ~IsInvalid(s, p)) /\ t.from = p /\ t.to = v
    BY DEF AsStrFrom
  <1>5. t.ok <=> IsIncomplete(s, v)
    BY <1>4, Zenon DEF IsInvalid
  <1>6. \A i \in starts : i \in T /\ pos <= i /\ offset <= i
    OBVIOUS
  <1>7. \A i \in T : pos <= i /\ offset <= i => i \in starts
    OBVIOUS
  <1> HIDE DEF L, c, p, v, t, starts
  <1>8. pos \in Nat /\ c \in Nat /\ p \in 0..L /\ p \in Nat /\ pos <= c /\ c <= p /\ p <= L
    BY <1>1, <1>2, <1>3 DEF L
  <1>9. p < L => p \in starts
    <2> SUFFICES ASSUME p < L PROVE p \in starts
      OBVIOUS
    <2>1. p \in 0..(L - 1)
      BY <1>1, <1>8
    <2>2. p \in T
      BY <1>1, <1>3, <2>1
    <2>3. pos <= p /\ offset <= p
      BY <1>2, <1>8, <2>1
    <2>. QED BY <1>7, <2>2, <2>3
  <1>10. CASE starts = {}
    <2>1. p = L
      BY <1>1, <1>8, <1>9, <1>10
    <2>2. v = L /\ IsIncomplete(s, L)
      BY <1>1, <2>1, DecodesNothing DEF v, L
    <2>3. t.ok /\ t.from = t.to
      BY <1>4, <1>5, <2>1, <2>2
    <2>. QED BY <1>10, <2>3, Zenon DEF starts, t, AllDecoded
  <1>11. ASSUME NEW e \in starts
         PROVE  t.ok /\ t.from = Min(starts) /\ t.to = Max(starts)
    <2>0. \A i \in T : i \in 0..L /\ i \in Nat
      BY <1>1
    <2>1. \A i \in starts : i \in T /\ i \in 0..L /\ i \in Nat /\ pos <= i /\ offset <= i
      BY <1>6, <2>0, Zenon
    <2>2. \A i \in starts : p <= i
      <3> SUFFICES ASSUME NEW i \in starts, i < p PROVE FALSE
        BY <1>8, <2>1
      <3>1. i \in 0..(L - 1) /\ pos <= i /\ offset <= i /\ i \in T
        BY <1>1, <1>8, <2>1
      <3>2. c <= i
        BY <1>2, <3>1
      <3>3. i \in c..(p - 1)
        BY <1>8, <3>1, <3>2
      <3>. QED BY <1>1, <1>3, <3>1, <3>3
    <2>3. p \in starts
      <3>1. CASE p < L
        BY <1>9, <3>1
      <3>2. CASE ~(p < L)
        <4>1. e = p
          BY <1>1, <1>8, <2>1, <2>2, <3>2
        <4>. QED BY <4>1
      <3>. QED BY <3>1, <3>2
    <2>4. p = Min(starts)
      <3>1. starts \in SUBSET Int
        BY <2>1
      <3>. QED BY <2>2, <2>3, <3>1, MinIs
    <2>5. /\ v \in T /\ IsIncomplete(s, v) /\ \A j \in T : j <= v
      BY <2>1, <2>3, DecodesAll DEF v
    <2>6. v \in starts
      <3>1. p <= v /\ v \in 0..L
        BY <1>1, <2>1, <2>3, <2>5
      <3>2. pos <= p /\ offset <= p
        BY <2>1, <2>3
      <3>3. pos <= v /\ offset <= v
        BY <1>8, <3>1, <3>2
      <3>. QED BY <1>7, <2>5, <3>3
    <2>7. v = Max(starts)
      <3>1. starts \in SUBSET Int /\ \A i \in starts : i <= v
        BY <2>1, <2>5
      <3>. QED BY <2>6, <3>1, MaxIs
    <2>. QED BY <1>4, <1>5, <2>4, <2>5, <2>7
  <1>12. CASE starts # {}
    <2>1. PICK e \in starts : TRUE
      BY <1>12
    <2>. QED BY <1>11, <1>12, <2>1, Zenon DEF starts, t, AllDecoded
  <1>. QED BY <1>10, <1>12

-----------------------------------------------------------------------------
(* The sweep: every part of every text.                                    *)
LEMMA SweepStrings == SweepSpec => []IsString(text)
  <1>1. SweepInit => IsString(text)
    BY DEF SweepInit, IsString
  <1>2. IsString(text) /\ [SweepNext]_text => IsString(text)'
    <2> SUFFICES ASSUME IsString(text), [SweepNext]_text PROVE IsString(text')
      BY DEF IsString
    <2>1. CASE UNCHANGED text
      BY <2>1
    <2>2. CASE SweepNext
      <3>1. PICK ch \in Chars : Append1(ch)
        BY <2>2 DEF SweepNext
      <3>2. IsScalar(ch) /\ text' = Append(text, ch)
        BY <3>1, CharsAssumption DEF Append1
      <3>. QED BY <3>2, Strings
    <2>. QED BY <2>1, <2>2
  <1>. QED BY <1>1, <1>2, PTL DEF SweepSpec

LEMMA Parts ==
  ASSUME IsString(text), NEW w \in Windows
  PROVE  PartEncoded(Held(w), Starts(w)) /\ Len(Held(w)) = Size(w)
  <1>1. WellEncoded(Encoded, Boundaries)
    BY StringsEncoded DEF Encoded, Boundaries, BoundariesOf
  <1>2. Encoded \in Seq(0..255)
    BY <1>1 DEF WellEncoded
  <1>3. /\ w[1] \in 0..Len(Encoded) /\ w[2] \in 0..Len(Encoded) /\ w[1] <= w[2]
    BY DEF Windows
  <1>4. w[2] \in w[1]..Len(Encoded)
    BY <1>2, <1>3
  <1>5. PartEncoded(Held(w), Starts(w))
    BY <1>1, <1>3, <1>4, HeldPart DEF Held, Starts, Size
  <1>6. w[1] \in Nat /\ w[2] \in Nat /\ w[2] <= Len(Encoded)
    BY <1>2, <1>3
  <1>7. Len(Held(w)) = Size(w)
    BY <1>2, <1>3, <1>6, Slice DEF Held, Size, IsBytes
  <1>. QED BY <1>5, <1>7

(***************************************************************************)
(* align_pos_to_next_char moves to the first character that begins at or   *)
(* after the offset, in every part of every text.                          *)
(***************************************************************************)
THEOREM AlignsForwardHolds == SweepSpec => []AlignsForward
  <1>1. ASSUME IsString(text) PROVE AlignsForward
    <2> SUFFICES ASSUME NEW w \in Windows,
                        NEW pos \in 0..Size(w), NEW offset \in 0..(Size(w) + 1)
                 PROVE  AlignPosToNextChar(Held(w), pos, offset)
                          = Min({Size(w)} \cup {i \in Starts(w) : Clamped(Held(w), pos, offset) <= i})
      BY DEF AlignsForward
    <2>1. PartEncoded(Held(w), Starts(w)) /\ Len(Held(w)) = Size(w)
      BY <1>1, Parts
    <2>2. pos \in 0..Len(Held(w)) /\ offset \in Nat
      BY <2>1
    <2>3. AlignPosToNextChar(Held(w), pos, offset)
            = Min({Len(Held(w))} \cup {i \in Starts(w) : Clamped(Held(w), pos, offset) <= i})
      BY ONLY <2>1, <2>2, AlignsForwardIn
    <2>. QED BY <2>1, <2>3, Zenon
  <1>. QED BY <1>1, SweepStrings, PTL

(***************************************************************************)
(* align_pos_to_char moves to the last boundary at or before the offset,   *)
(* in every part of every text: it never takes the end of the bytes for    *)
(* the end of a character that they cut.                                   *)
(***************************************************************************)
THEOREM AlignsBackwardHolds == SweepSpec => []AlignsBackward
  <1>1. ASSUME IsString(text) PROVE AlignsBackward
    <2> SUFFICES ASSUME NEW w \in Windows,
                        NEW pos \in 0..Size(w), NEW offset \in 0..(Size(w) + 1),
                        {i \in Starts(w) : pos <= i /\ i <= Clamped(Held(w), pos, offset)} # {}
                 PROVE  AlignPosToChar(Held(w), pos, offset)
                          = Max({i \in Starts(w) : pos <= i /\ i <= Clamped(Held(w), pos, offset)})
      BY DEF AlignsBackward
    <2>1. PartEncoded(Held(w), Starts(w)) /\ Len(Held(w)) = Size(w)
      BY <1>1, Parts
    <2>2. pos \in 0..Len(Held(w)) /\ offset \in Nat
      BY <2>1
    <2>3. PICK e \in Starts(w) : pos <= e /\ e <= Clamped(Held(w), pos, offset)
      OBVIOUS
    <2>. QED BY ONLY <2>1, <2>2, <2>3, AlignsBackwardIn
  <1>. QED BY <1>1, SweepStrings, PTL

(***************************************************************************)
(* as_str and as_str_from answer exactly the whole characters of the       *)
(* unconsumed bytes, in every part of every text, and are never an error.  *)
(***************************************************************************)
THEOREM WholeCharactersHolds == SweepSpec => []WholeCharacters
  <1>1. ASSUME IsString(text) PROVE WholeCharacters
    <2> SUFFICES ASSUME NEW w \in Windows,
                        NEW pos \in 0..Size(w), NEW offset \in 0..(Size(w) + 1)
                 PROVE  AllDecoded(Held(w), Starts(w), pos, offset)
      BY Zenon DEF WholeCharacters, AllDecoded
    <2>1. PartEncoded(Held(w), Starts(w)) /\ Len(Held(w)) = Size(w)
      BY <1>1, Parts
    <2>2. pos \in 0..Len(Held(w)) /\ offset \in Nat
      BY <2>1
    <2>. QED BY ONLY <2>1, <2>2, WholeCharactersIn
  <1>. QED BY <1>1, SweepStrings, PTL

-----------------------------------------------------------------------------
(* What the client does between the searches, Buffer's client may do.       *)
LEMMA ClientSteps == ASSUME Client PROVE Next
<1>1. CASE DiscardCall \/ CompactCall \/ TakeConsumedCall
  BY <1>1 DEF Next, Manage
<1>2. CASE \E amt \in Amounts : UnconsumeCall(amt) \/ (ConsumeInRange(amt) /\ ConsumeCall(amt))
  BY <1>2 DEF Next, Manage
<1>3. CASE StartFill("fill", NoLimit) /\ taken' = NewBuffer
  BY <1>3 DEF Next, Fill, StartCall
<1> QED BY <1>1, <1>2, <1>3 DEF Client

(* A search starts like any fill with a growth limit.                      *)
LEMMA SearchSteps == ASSUME Search PROVE Next
<1>1. PICK limit \in Limits : StartFill("fill_until_str", limit)
  BY DEF Search, FillUntilChar, FillUntilStr
<1>2. "fill_until_str" \in {"fill_while", "fill_until", "fill_until_str"}
  OBVIOUS
<1>3. StartCall
  BY <1>1, <1>2 DEF StartCall
<1> QED BY <1>3 DEF Search, Next, Fill

(* What the search decides between two reads is a step of the loop.         *)
LEMMA TextSteps == ASSUME TextStep PROVE Next
<1>1. FillStep
  BY DEF TextStep, Found, NotText, ReadOn, Reading, FillStep
<1> QED BY <1>1 DEF TextStep, Next, Fill

(***************************************************************************)
(* fill_until_str and fill_until_char change the buffer, the source and    *)
(* the result of the call as some run of the open-ended fill of Buffer     *)
(* does: the text layer implements Buffer.                                 *)
(***************************************************************************)
THEOREM TextFillsLikeBuffer == TextSpec => FillsLikeBuffer
<1>1. TextInit => Init
  BY DEF TextInit
<1>2. [TextNext]_allVars => [Next]_vars
  <2> SUFFICES ASSUME [TextNext]_allVars PROVE [Next]_vars
    OBVIOUS
  <2>1. CASE Client
    BY <2>1, ClientSteps
  <2>2. CASE Search
    BY <2>2, SearchSteps
  <2>3. CASE TextStep
    BY <2>3, TextSteps
  <2>4. CASE UNCHANGED allVars
    BY <2>4 DEF allVars
  <2> QED BY <2>1, <2>2, <2>3, <2>4 DEF TextNext
<1> QED BY <1>1, <1>2, PTL DEF TextSpec, FillsLikeBuffer, Spec

(***************************************************************************)
(* Hence a text fill keeps the storage invariant, never panics, and brings *)
(* the bytes in order, also when it ends for text that is no UTF-8.        *)
(***************************************************************************)
COROLLARY TextStorage == TextSpec => [](StorageInvariant /\ NoPanic /\ BytesInOrder)
BY TextFillsLikeBuffer, StorageInvariantHolds, NoPanicHolds, BytesInOrderHolds, PTL
   DEF FillsLikeBuffer
-----------------------------------------------------------------------------
(* The search: the bytes after offset i are not the needle.                 *)
Differs(s, nd, i) == \E j \in 1..Len(nd) : i + j <= Len(s) /\ s[i + j] # nd[j]

(* The needle is nowhere after pos. *)
Absent(s, nd, pos) == \A i \in pos..(Len(s) - Len(nd)) : Differs(s, nd, i)

LEMMA OccursOrDiffers ==
  ASSUME NEW s \in Seq(0..255), NEW nd \in Seq(0..255), NEW i \in Nat, i + Len(nd) <= Len(s)
  PROVE  Differs(s, nd, i) <=> SubSeq(s, i + 1, i + Len(nd)) # nd
  <1> DEFINE n == Len(nd)
             t == SubSeq(s, i + 1, i + n)
  <1>0. n \in Nat /\ Len(s) \in Nat
    OBVIOUS
  <1> DEFINE to == i + n
  <1> HIDE DEF n
  <1>1. to \in Nat /\ i <= to /\ to - i = n
    BY <1>0
  <1>2. t \in Seq(0..255) /\ Len(t) = n /\ \A j \in 1..n : t[j] = s[i + j]
    <2>1. to <= Len(s)
      BY DEF n
    <2> HIDE DEF to
    <2>2. /\ IsBytes(SubSeq(s, i + 1, to)) /\ Len(SubSeq(s, i + 1, to)) = to - i
          /\ \A j \in 1..(to - i) : SubSeq(s, i + 1, to)[j] = s[i + j]
      <3>1. IsBytes(s)
        BY DEF IsBytes
      <3>. QED BY <1>1, <2>1, <3>1, Slice
    <2>3. SubSeq(s, i + 1, to) = t
      BY DEF to
    <2>. QED BY <1>1, <2>2, <2>3 DEF IsBytes
  <1> HIDE DEF t
  <1>3. ASSUME Differs(s, nd, i), t = nd PROVE FALSE
    <2>1. PICK j \in 1..n : s[i + j] # nd[j]
      BY <1>3 DEF Differs, n
    <2>. QED BY <1>2, <1>3, <2>1
  <1>4. ASSUME ~Differs(s, nd, i) PROVE t = nd
    <2>1. ASSUME NEW j \in 1..n PROVE s[i + j] = nd[j]
      <3>1. i + j <= Len(s)
        BY <1>0, <2>1 DEF n
      <3>. QED BY <1>4, <2>1, <3>1 DEF Differs, n
    <2>2. \A j \in 1..Len(t) : t[j] = nd[j]
      BY <1>2, <2>1
    <2>3. Len(t) = Len(nd)
      BY <1>2 DEF n
    <2>. QED BY <1>2, <2>2, <2>3, SeqEqual
  <1>. QED BY <1>3, <1>4 DEF t, n

(* What is absent does not occur. *)
LEMMA AbsentIs ==
  ASSUME NEW s \in Seq(0..255), NEW nd \in Seq(0..255), NEW pos \in Nat, Absent(s, nd, pos)
  PROVE  ~Occurs(nd, s, pos, Len(s))
  <1> SUFFICES ASSUME NEW i \in pos..(Len(s) - Len(nd)), SubSeq(s, i + 1, i + Len(nd)) = nd
               PROVE  FALSE
    BY DEF Occurs
  <1>1. i \in Nat /\ i + Len(nd) <= Len(s)
    OBVIOUS
  <1>. QED BY <1>1, OccursOrDiffers DEF Absent

LEMMA OccursFurther ==
  ASSUME NEW s \in Seq(0..255), NEW nd \in Seq(0..255), NEW pos \in Nat,
         NEW from \in Nat, NEW to \in Nat, pos <= from, to <= Len(s), Occurs(nd, s, from, to)
  PROVE  Occurs(nd, s, pos, Len(s))
  <1>1. PICK i \in from..(to - Len(nd)) : SubSeq(s, i + 1, i + Len(nd)) = nd
    BY DEF Occurs
  <1>2. i \in pos..(Len(s) - Len(nd))
    OBVIOUS
  <1>. QED BY <1>1, <1>2 DEF Occurs

(* An encoded string begins with the leading byte of a character. *)
LEMMA BeginsCharacter ==
  ASSUME NEW nd, NEW B, WellEncoded(nd, B), nd # <<>>
  PROVE  /\ nd \in Seq(0..255) /\ Len(nd) \in Nat /\ 1 <= Len(nd)
         /\ ~IsContinuation(nd[1])
  <1>1. nd \in Seq(0..255) /\ 0 \in B
        /\ \A i \in 0..(Len(nd) - 1) : i \in B <=> ~IsContinuation(nd[i + 1])
    BY DEF WellEncoded
  <1>2. Len(nd) \in Nat /\ Len(nd) # 0
    BY <1>1, EmptySeq
  <1>3. 0 \in 0..(Len(nd) - 1) /\ 1 <= Len(nd)
    BY <1>2
  <1>4. 0 \in B <=> ~IsContinuation(nd[0 + 1])
    BY <1>1, <1>3
  <1>. QED BY <1>1, <1>2, <1>3, <1>4

(***************************************************************************)
(* One check of fill_until_str decides for all that is there: if it finds  *)
(* no needle in what it decodes, there is none before check_pos, none that *)
(* begins where it decodes, and none that begins in the character that the *)
(* end of the bytes cuts.                                                  *)
(***************************************************************************)
LEMMA CheckDecides ==
  ASSUME NEW s \in Seq(0..255), NEW nd, NEW B, WellEncoded(nd, B), nd # <<>>,
         NEW pos \in 0..Len(s), NEW cp \in pos..Len(s),
         \A i \in pos..(cp - 1) : Differs(s, nd, i),
         NEW from \in cp..Len(s), \A i \in cp..(from - 1) : IsContinuation(s[i + 1]),
         NEW to \in from..Len(s), Whole(s, to) = {}, IsIncomplete(s, to),
         ~Occurs(nd, s, from, to)
  PROVE  Absent(s, nd, pos)
  <1> DEFINE L == Len(s)
             n == Len(nd)
  <1>1. /\ nd \in Seq(0..255) /\ n \in Nat /\ 1 <= n /\ ~IsContinuation(nd[1])
        /\ L \in Nat /\ pos \in Nat /\ cp \in Nat /\ from \in Nat /\ to \in Nat
        /\ pos <= cp /\ cp <= from /\ from <= to /\ to <= L /\ 1 \in 1..n
    BY BeginsCharacter
  <1>2. PICK cut \in Forms : Follows(s, to, cut, L - to)
    BY DEF IsIncomplete
  <1>3. /\ L - to <= Len(cut) /\ \A k \in 1..(L - to) : s[to + k] \in cut[k]
    BY <1>2 DEF Follows
  <1>4. ASSUME NEW k \in 2..(L - to) PROVE IsContinuation(s[to + k])
    <2>1. Len(cut) \in 1..4
      BY FormBytes
    <2>2. k \in 1..(L - to) /\ k \in 2..Len(cut)
      BY <1>1, <1>3, <2>1
    <2>3. s[to + k] \in cut[k]
      BY <1>3, <2>2
    <2>4. s[to + 1] \in cut[1]
      <3>1. 1 \in 1..(L - to)
        BY <1>1, <2>2
      <3>. QED BY <1>3, <3>1
    <2>5. cut[k] \subseteq Trailing
      BY <2>2, <2>4, LeadByte
    <2>. QED BY <2>3, <2>5 DEF IsContinuation, Trailing
  <1>5. ASSUME NEW i \in pos..(L - n), IsContinuation(s[i + 1]) PROVE Differs(s, nd, i)
    <2>1. s[i + 1] # nd[1] /\ i + 1 <= L
      BY <1>1, <1>5
    <2>. QED BY <1>1, <2>1 DEF Differs
  <1>6. ASSUME NEW i \in from..to, i + n <= L, ~(i + n <= to), ~Differs(s, nd, i)
        PROVE  FALSE
    <2> DEFINE d == to - i
    <2>1. /\ d \in Nat /\ d < n /\ i + d = to /\ to + 1 <= L /\ i \in Nat
          /\ d \in 0..(n - 1) /\ d + 1 \in 1..n /\ i + (d + 1) = to + 1 /\ 1 \in 1..(L - to)
      BY <1>1, <1>6
    <2>2. \A j \in 1..n : s[i + j] = nd[j]
      <3> TAKE j \in 1..n
      <3>1. i + j <= L
        BY <1>1, <1>6, <2>1
      <3>. QED BY <1>6, <3>1 DEF Differs
    <2>3. s[to + 1] \in cut[1]
      BY <1>3, <2>1
    <2>4. ~IsContinuation(s[to + 1])
      BY <2>3, LeadByte
    <2> HIDE DEF d
    <2>5. ~IsContinuation(nd[d + 1])
      BY <2>1, <2>2, <2>4
    <2>6. d \in B
      BY <2>1, <2>5 DEF WellEncoded
    <2>7. PICK form \in Forms : Follows(nd, d, form, Len(form))
      BY <2>1, <2>6 DEF WellEncoded
    <2>8. Len(form) \in 1..4 /\ d + Len(form) <= n /\ \A k \in 1..Len(form) : nd[d + k] \in form[k]
      BY <2>7, FormBytes DEF Follows
    <2>9. to + Len(form) <= L
      BY <1>1, <1>6, <2>1, <2>8
    <2>10. ASSUME NEW k \in 1..Len(form) PROVE s[to + k] \in form[k]
      <3>1. d + k \in 1..n /\ i + (d + k) = to + k
        BY <1>1, <2>1, <2>8
      <3>2. s[to + k] = nd[d + k]
        BY <2>2, <3>1
      <3>. QED BY <2>8, <3>2
    <2>11. Follows(s, to, form, Len(form))
      BY <2>8, <2>9, <2>10 DEF Follows
    <2>. QED BY <2>11 DEF Whole
  <1> HIDE DEF L, n
  <1>7. ASSUME NEW i \in pos..(L - n) PROVE Differs(s, nd, i)
    <2>1. i \in Nat /\ i + n <= L /\ pos <= i
      BY <1>1
    <2>2. CASE i < cp
      BY <1>1, <2>1, <2>2
    <2>3. CASE cp <= i /\ i < from
      <3>1. i \in cp..(from - 1)
        BY <1>1, <2>1, <2>3
      <3>. QED BY <1>5, <3>1
    <2>4. CASE from <= i /\ i + n <= to
      <3>1. i \in from..(to - n)
        BY <1>1, <2>1, <2>4
      <3>2. SubSeq(s, i + 1, i + n) # nd
        BY <3>1 DEF Occurs, n
      <3>. QED BY <1>1, <2>1, <3>2, OccursOrDiffers DEF n, L
    <2>5. CASE from <= i /\ i <= to /\ ~(i + n <= to)
      <3>1. i \in from..to
        BY <1>1, <2>1, <2>5
      <3>. QED BY <1>6, <2>1, <2>5, <3>1
    <2>6. CASE to < i
      <3>1. (i - to) + 1 \in 2..(L - to) /\ to + ((i - to) + 1) = i + 1
        BY <1>1, <2>1, <2>6
      <3>2. IsContinuation(s[i + 1])
        BY <1>4, <3>1
      <3>. QED BY <1>5, <3>2
    <2>. QED BY <1>1, <2>1, <2>2, <2>3, <2>4, <2>5, <2>6
  <1>. QED BY <1>7 DEF Absent, L, n

(* Going back to a character ends between pos and the offset, clamped.      *)
LEMMA AlignsBefore ==
  ASSUME NEW s \in Seq(0..255), NEW pos \in 0..Len(s), NEW offset \in Nat
  PROVE  AlignPosToChar(s, pos, offset) \in pos..Clamped(s, pos, offset)
  <1> DEFINE L == Len(s)
             c == Clamped(s, pos, offset)
             start == LastStart(s, pos, L - 1)
  <1>1. L \in Nat /\ pos \in Nat /\ pos <= L
    OBVIOUS
  <1>2. c \in pos..L
    BY ClampedIs, Zenon
  <1>3. c \in Nat /\ pos <= c /\ c <= L
    BY <1>1, <1>2
  <1> HIDE DEF c
  <1>4. CASE c < L
    <2> DEFINE p == LastStart(s, pos, c)
    <2>1. c \in 0..L
      BY <1>1, <1>3
    <2>2. p \in pos..L /\ (p # pos => p <= c)
      BY <1>4, <2>1, LastStartIs
    <2> HIDE DEF p
    <2>3. p \in pos..c
      BY <1>1, <1>3, <2>2
    <2>. QED BY <1>4, <2>3 DEF AlignPosToChar, c, p
  <1>5. CASE c = L
    <2>1. L \in pos..L
      BY <1>1
    <2>2. ASSUME pos # L PROVE start \in pos..L
      <3>1. L - 1 \in 0..L /\ L - 1 < L
        BY <1>1, <2>2
      <3>. QED BY <3>1, LastStartIs
    <2> HIDE DEF start
    <2>3. AlignPosToChar(s, pos, offset) = L \/ (pos # L /\ AlignPosToChar(s, pos, offset) = start)
      <3>1. ~(c < L)
        BY <1>1, <1>5
      <3>. QED BY <3>1 DEF AlignPosToChar, c, start
    <2>. QED BY <1>5, <2>1, <2>2, <2>3 DEF c
  <1>. QED BY <1>1, <1>3, <1>4, <1>5

(***************************************************************************)
(* The new check_pos leaves out no place at which the needle may begin     *)
(* when more bytes arrive: what is before it lies whole in the bytes that  *)
(* were searched, and differs.                                             *)
(***************************************************************************)
LEMMA GoesBack ==
  ASSUME NEW s \in Seq(0..255), NEW nd \in Seq(0..255), NEW pos \in 0..Len(s),
         NEW end \in 0..Len(s), Absent(s, nd, pos)
  PROVE  LET p == AlignPosToChar(s, pos, Larger(end + 1 - Len(nd), 0))
         IN  p \in pos..Len(s) /\ \A i \in pos..(p - 1) : Differs(s, nd, i)
  <1> DEFINE L == Len(s)
             n == Len(nd)
             offset == Larger(end + 1 - n, 0)
             c == Clamped(s, pos, offset)
             p == AlignPosToChar(s, pos, offset)
  <1>1. L \in Nat /\ n \in Nat
    OBVIOUS
  <1>2. pos \in Nat /\ pos <= L /\ end \in Nat /\ end <= L
    BY <1>1
  <1> HIDE DEF L, n
  <1>3. offset \in Nat /\ (offset = end + 1 - n \/ offset = 0)
    BY <1>1, <1>2 DEF Larger
  <1> HIDE DEF offset
  <1>4. c \in pos..L /\ (c <= offset \/ c = pos)
    BY <1>3, ClampedIs, Zenon DEF L
  <1>5. p \in pos..c
    BY <1>3, AlignsBefore, Zenon
  <1> HIDE DEF c, p
  <1>6. p \in pos..L /\ (p <= offset \/ p = pos)
    BY <1>1, <1>2, <1>3, <1>4, <1>5
  <1>7. ASSUME NEW i \in pos..(p - 1) PROVE Differs(s, nd, i)
    <2>1. i \in pos..(L - n)
      BY <1>1, <1>2, <1>3, <1>6
    <2>. QED BY <2>1 DEF Absent, L, n
  <1>. QED BY <1>6, <1>7 DEF p, offset, n, L

(* Bytes that more bytes follow differ from the needle as before. *)
LEMMA DiffersStill ==
  ASSUME NEW s \in Seq(0..255), NEW t \in Seq(0..255), NEW nd, NEW i \in Nat,
         Len(s) <= Len(t), \A k \in 1..Len(s) : t[k] = s[k],
         Len(nd) \in Nat, Differs(s, nd, i)
  PROVE  Differs(t, nd, i)
  <1>1. PICK j \in 1..Len(nd) : i + j <= Len(s) /\ s[i + j] # nd[j]
    BY DEF Differs
  <1>2. Len(s) \in Nat /\ Len(t) \in Nat /\ j \in Nat /\ 1 <= j
    OBVIOUS
  <1>3. i + j \in 1..Len(s) /\ i + j <= Len(t)
    BY <1>1, <1>2
  <1>. QED BY <1>1, <1>3 DEF Differs

(* What as_str_from decodes begins at the next character and stops where    *)
(* none is whole.                                                           *)
LEMMA DecodedFrom ==
  ASSUME NEW s \in Seq(0..255), NEW pos \in 0..Len(s), NEW cp \in pos..Len(s)
  PROVE  LET t == AsStrFrom(s, pos, cp)
         IN  /\ t.from = AlignPosToNextChar(s, pos, cp)
             /\ t.to = ValidUpTo(s, t.from)
             /\ t.ok <=> IsIncomplete(s, t.to)
             /\ t.from \in cp..Len(s)
             /\ t.from < Len(s) => ~IsContinuation(s[t.from + 1])
             /\ \A i \in cp..(t.from - 1) : IsContinuation(s[i + 1])
             /\ t.to \in t.from..Len(s) /\ Whole(s, t.to) = {}
  <1> DEFINE L == Len(s)
             c == Clamped(s, pos, cp)
             t == AsStrFrom(s, pos, cp)
             p == AlignPosToNextChar(s, pos, cp)
  <1>1. L \in Nat /\ pos \in Nat /\ cp \in Nat /\ pos <= cp /\ cp <= L
    OBVIOUS
  <1>2. c \in pos..L /\ (c <= cp \/ c = pos) /\ \A i \in 0..(L - 1) : c <= i <=> pos <= i /\ cp <= i
    BY <1>1, ClampedIs, Zenon
  <1> HIDE DEF c
  <1>3. c = cp
    <2>1. c \in Nat /\ c <= cp
      BY <1>1, <1>2
    <2>2. ASSUME c < cp PROVE FALSE
      <3>1. c \in 0..(L - 1) /\ c <= c
        BY <1>1, <2>1, <2>2
      <3>2. cp <= c
        BY <1>2, <3>1, Zenon
      <3>. QED BY <1>1, <2>1, <2>2, <3>2
    <2>. QED BY <1>1, <2>1, <2>2
  <1>4. /\ p \in c..L
        /\ p < L => ~IsContinuation(s[p + 1])
        /\ \A i \in c..(p - 1) : IsContinuation(s[i + 1])
    BY <1>1, NextCharIs, Zenon DEF c
  <1>5. t.from = p /\ t.to = ValidUpTo(s, t.from) /\ (t.ok <=> ~IsInvalid(s, p))
    BY DEF AsStrFrom
  <1> HIDE DEF t, p
  <1>6. p \in 0..L
    BY <1>1, <1>3, <1>4
  <1>7. t.to \in p..L /\ Whole(s, t.to) = {}
    BY <1>5, <1>6, ValidUpToStops
  <1>8. t.ok <=> IsIncomplete(s, t.to)
    BY <1>5 DEF IsInvalid
  <1>. QED BY <1>3, <1>4, <1>5, <1>7, <1>8 DEF t, p

(***************************************************************************)
(* The bytes that the buffer retains are bytes of what the source holds.   *)
(***************************************************************************)
Legible == /\ buf.pos \in Nat /\ buf.len \in Nat /\ buf.pos <= buf.len
           /\ Bytes(buf) \in Seq(0..255) /\ Len(Bytes(buf)) = buf.len
           /\ \A i \in 1..buf.len : Bytes(buf)[i] = content[buf.vec[i]]

LEMMA LegibleIs ==
  ASSUME Inductive, BytesInOrder, TypeOK, content \in Contents
  PROVE  Legible
  <1>1. buf.pos \in Nat /\ buf.len \in Nat /\ buf.pos <= buf.len
    BY StateFacts
  <1>2. content \in [1..StreamLen -> 0..255]
    BY TextAssumption
  <1>3. inner \in 0..StreamLen /\ StreamLen \in Nat
    BY SourceAssumption DEF TypeOK
  <1>4. ASSUME NEW i \in 1..buf.len PROVE content[buf.vec[i]] \in 0..255
    <2>1. buf.vec[i] \in 1..inner
      BY DEF BytesInOrder
    <2>2. 1..inner \subseteq 1..StreamLen
      BY <1>3
    <2>. QED BY <1>2, <2>1, <2>2, Zenon
  <1>5. Bytes(buf) \in [1..buf.len -> 0..255]
    BY <1>4 DEF Bytes
  <1>6. Bytes(buf) \in Seq(0..255) /\ Len(Bytes(buf)) = buf.len
    <2> DEFINE n == buf.len
               s == Bytes(buf)
    <2>1. n \in Nat /\ s \in [1..n -> 0..255]
      BY <1>1, <1>5
    <2> HIDE DEF n, s
    <2>2. s \in Seq(0..255)
      BY <2>1
    <2>3. Len(s) = n
      BY <2>1
    <2>. QED BY <2>2, <2>3 DEF n, s
  <1>8. \A i \in 1..buf.len : Bytes(buf)[i] = content[buf.vec[i]]
    BY DEF Bytes
  <1>. QED BY <1>1, <1>6, <1>8 DEF Legible

(* A fill adds bytes after these. *)
LEMMA KeptBytes ==
  ASSUME Legible, Legible', Appended, content' = content
  PROVE  /\ Len(Bytes(buf)) <= Len(Bytes(buf)')
         /\ \A k \in 1..Len(Bytes(buf)) : Bytes(buf)'[k] = Bytes(buf)[k]
         /\ buf'.len = buf.len => Bytes(buf)' = Bytes(buf)
  <1>1. /\ buf.len \in Nat /\ buf'.len \in Nat /\ buf.len <= buf'.len
        /\ \A i \in 1..buf.len : buf'.vec[i] = buf.vec[i]
    BY DEF Legible, Appended
  <1>2. /\ Len(Bytes(buf)) = buf.len /\ Len(Bytes(buf)') = buf'.len
        /\ Bytes(buf) \in Seq(0..255) /\ Bytes(buf)' \in Seq(0..255)
    BY DEF Legible
  <1>3. ASSUME NEW k \in 1..buf.len PROVE Bytes(buf)'[k] = Bytes(buf)[k]
    <2>1. k \in 1..buf'.len
      BY <1>1
    <2>2. Bytes(buf)'[k] = content'[buf'.vec[k]]
      BY <2>1 DEF Legible
    <2>3. Bytes(buf)[k] = content[buf.vec[k]]
      BY DEF Legible
    <2>. QED BY <1>1, <2>2, <2>3
  <1>. QED BY <1>1, <1>2, <1>3

(***************************************************************************)
(* What is known of a search in every state: check_pos leaves out no place *)
(* at which the needle may still be found, and once a check has let the    *)
(* search read on, or it has ended without the needle, the needle is       *)
(* nowhere in the unconsumed bytes.                                        *)
(***************************************************************************)
Sought ==
  call.op = "fill_until_str" =>
    /\ \E B : WellEncoded(needle, B)
    /\ call.pc # "idle" =>
         /\ checkPos \in buf.pos..buf.len
         /\ needle # <<>> => \A i \in buf.pos..(checkPos - 1) : Differs(Bytes(buf), needle, i)
    /\ call.pc = "read" => Absent(Bytes(buf), needle, buf.pos)
    /\ call.pc = "idle" =>
         /\ call.result \in {"eof", "capped"} => Absent(Bytes(buf), needle, buf.pos)
         /\ call.result = "complete" => Occurs(needle, Bytes(buf), buf.pos, buf.len)

SearchTypes == needle \in Seq(0..255) /\ checkPos \in Nat

(* A search begins with nothing passed over but continuation bytes. *)
LEMMA SearchBegins ==
  ASSUME NEW s \in Seq(0..255), NEW pos \in 0..Len(s), NEW nd, NEW B, WellEncoded(nd, B)
  PROVE  LET p == AlignPosToNextChar(s, pos, pos)
         IN  /\ p \in pos..Len(s)
             /\ p < Len(s) => ~IsContinuation(s[p + 1])
             /\ \A i \in pos..(p - 1) : IsContinuation(s[i + 1])
             /\ nd # <<>> => \A i \in pos..(p - 1) : Differs(s, nd, i)
  <1> DEFINE p == AlignPosToNextChar(s, pos, pos)
  <1>1. Len(s) \in Nat /\ pos \in Nat /\ pos <= Len(s) /\ pos \in pos..Len(s)
    OBVIOUS
  <1>2. /\ AsStrFrom(s, pos, pos).from = p
        /\ AsStrFrom(s, pos, pos).from \in pos..Len(s)
        /\ AsStrFrom(s, pos, pos).from < Len(s) => ~IsContinuation(s[AsStrFrom(s, pos, pos).from + 1])
        /\ \A i \in pos..(AsStrFrom(s, pos, pos).from - 1) : IsContinuation(s[i + 1])
    BY <1>1, DecodedFrom
  <1> HIDE DEF p
  <1>3. /\ p \in pos..Len(s) /\ (p < Len(s) => ~IsContinuation(s[p + 1]))
        /\ \A i \in pos..(p - 1) : IsContinuation(s[i + 1])
    BY <1>2
  <1>4. ASSUME nd # <<>>, NEW i \in pos..(p - 1) PROVE Differs(s, nd, i)
    <2>1. Len(nd) \in Nat /\ 1 <= Len(nd) /\ ~IsContinuation(nd[1])
      BY <1>4, BeginsCharacter
    <2>2. i + 1 <= Len(s) /\ 1 \in 1..Len(nd)
      BY <1>1, <1>3, <2>1
    <2>3. s[i + 1] # nd[1]
      BY <1>3, <2>1
    <2>. QED BY <2>2, <2>3 DEF Differs
  <1>. QED BY <1>3, <1>4 DEF p

(* What a check that does not end the search has found out. *)
LEMMA SearchGoesOn ==
  ASSUME Legible, NEW B, WellEncoded(needle, B), checkPos \in buf.pos..buf.len,
         needle # <<>> => \A i \in buf.pos..(checkPos - 1) : Differs(Bytes(buf), needle, i),
         IsText, ~IsThere
  PROVE  /\ needle # <<>>
         /\ Absent(Bytes(buf), needle, buf.pos)
         /\ NextCheckPos \in buf.pos..buf.len
         /\ \A i \in buf.pos..(NextCheckPos - 1) : Differs(Bytes(buf), needle, i)
  <1> DEFINE s == Bytes(buf)
             L == buf.len
             pos == buf.pos
             from == Unchecked.from
             to == Unchecked.to
             end == checkPos + (to - from)
  <1>1. /\ needle # <<>> /\ Unchecked.ok
        /\ ~Occurs(needle, s, from, to)
    BY DEF IsText, IsThere
  <1>2. /\ s \in Seq(0..255) /\ Len(s) = L /\ L \in Nat /\ pos \in Nat /\ pos <= L
        /\ needle \in Seq(0..255)
    BY DEF Legible, WellEncoded
  <1>3. Unchecked = AsStrFrom(s, pos, checkPos)
    BY DEF Unchecked
  <1> HIDE DEF s, L, pos
  <1>4. pos \in 0..Len(s) /\ checkPos \in pos..Len(s) /\ checkPos \in Nat
    BY <1>2 DEF L, pos
  <1>5. /\ IsIncomplete(s, to)
        /\ from \in checkPos..Len(s)
        /\ \A i \in checkPos..(from - 1) : IsContinuation(s[i + 1])
        /\ to \in from..Len(s) /\ Whole(s, to) = {}
    BY <1>1, <1>2, <1>3, <1>4, DecodedFrom
  <1> HIDE DEF from, to
  <1>6. \A i \in pos..(checkPos - 1) : Differs(s, needle, i)
    BY <1>1 DEF s, pos
  <1>7. Absent(s, needle, pos)
    BY <1>1, <1>2, <1>4, <1>5, <1>6, CheckDecides
  <1>8. end \in 0..Len(s)
    BY <1>2, <1>4, <1>5
  <1> HIDE DEF end
  <1>9. NextCheckPos = AlignPosToChar(s, pos, Larger(end + 1 - Len(needle), 0))
    BY DEF NextCheckPos, s, pos, end, from, to
  <1>10. NextCheckPos \in pos..Len(s) /\ \A i \in pos..(NextCheckPos - 1) : Differs(s, needle, i)
    BY <1>2, <1>4, <1>7, <1>8, <1>9, GoesBack
  <1>. QED BY <1>1, <1>2, <1>7, <1>10 DEF s, L, pos

(* A step of a fill stays in the fill. *)
LEMMA FillStepKeepsOp ==
  ASSUME call \in CallType, FillStep
  PROVE  call'.op = call.op
  <1>1. \A r \in Results : Returned(call, r).op = call.op
    BY ReturnedFields
  <1>2. {"complete", "error", "panic", "capped", "eof"} \subseteq Results
    BY DEF Results
  <1>3. CASE Finish \/ Abandoned \/ Capped \/ ReadFailed \/ ReadNothing
    BY <1>1, <1>2, <1>3 DEF Finish, Abandoned, Capped, ReadFailed, ReadNothing
  <1>4. CASE PrepareRead
    BY <1>1, <1>2, <1>4 DEF PrepareRead, CallType
  <1>5. CASE ReadInterrupted
    BY <1>5 DEF ReadInterrupted, fillVars
  <1>6. ASSUME NEW n \in 1..StreamLen, ReadBytes(n) PROVE call'.op = call.op
    <2> DEFINE c == [call EXCEPT !.total = call.total + n, !.pc = "check"]
    <2>1. c.op = call.op /\ Returned(c, "complete").op = c.op
      BY DEF CallType, Returned
    <2>. QED BY <1>6, <2>1 DEF ReadBytes
  <1>. QED BY <1>3, <1>4, <1>5, <1>6 DEF FillStep

(* The client, and any other fill, has no search. *)
LEMMA ClientSeeks ==
  ASSUME Client
  PROVE  Sought' /\ SearchTypes'
  <1>1. call'.op # "fill_until_str"
    <2>1. CASE call' = NoCall
      BY <2>1 DEF NoCall
    <2>2. CASE StartFill("fill", NoLimit)
      BY <2>2 DEF StartFill, Called
    <2>. QED BY <2>1, <2>2 DEF Client, DiscardCall, CompactCall, TakeConsumedCall, UnconsumeCall,
                                ConsumeCall, Becomes
  <1>2. needle' = <<>> /\ checkPos' = 0
    BY DEF Client
  <1>. QED BY <1>1, <1>2 DEF Sought, SearchTypes

LEMMA SearchSeeks ==
  ASSUME Legible, Search
  PROVE  Sought' /\ SearchTypes'
  <1>1. PICK str, limit : IsString(str) /\ FillUntilStr(str, limit)
    <2>1. PICK limit \in Limits : \/ \E str \in Needles : FillUntilStr(str, limit)
                                  \/ \E ch \in NeedleChars : FillUntilChar(ch, limit)
      BY DEF Search
    <2>2. ASSUME NEW str \in Needles PROVE IsString(str)
      BY TextAssumption DEF IsString
    <2>3. ASSUME NEW ch \in NeedleChars PROVE IsString(<<ch>>)
      <3>1. IsScalar(ch) /\ ch \in Nat
        BY TextAssumption DEF IsScalar
      <3>2. IsString(Append(<<>>, ch))
        <4>1. IsString(<<>>)
          BY DEF IsString
        <4>. QED BY <3>1, <4>1, Strings
      <3>. QED BY <3>2
    <2>. QED BY <2>1, <2>2, <2>3 DEF FillUntilChar
  <1> DEFINE e == EncodeAll(str)
             B == BoundariesOf(str)
             s == Bytes(buf)
             p == AlignPosToNextChar(s, buf.pos, buf.pos)
  <1>2. /\ call' = Called(buf, "fill_until_str", 0, limit)
        /\ buf' = buf /\ needle' = e /\ checkPos' = p /\ content' = content
    BY <1>1 DEF FillUntilStr, StartFill
  <1>3. call'.op = "fill_until_str" /\ call'.pc = "check"
    BY <1>2 DEF Called
  <1>4. WellEncoded(e, B)
    BY <1>1, StringsEncoded
  <1> HIDE DEF e, B
  <1>5. s \in Seq(0..255) /\ Len(s) = buf.len /\ buf.pos \in 0..Len(s) /\ buf.pos \in Nat
    BY DEF Legible
  <1>6. Bytes(buf)' = s
    BY <1>2 DEF Bytes
  <1> HIDE DEF s
  <1>7. p \in buf.pos..Len(s) /\ (e # <<>> => \A i \in buf.pos..(p - 1) : Differs(s, e, i))
    BY <1>4, <1>5, SearchBegins
  <1> HIDE DEF p
  <1>8. checkPos' \in Nat /\ needle' \in Seq(0..255)
    BY <1>2, <1>4, <1>5, <1>7 DEF WellEncoded
  <1>9. /\ checkPos' \in buf'.pos..buf'.len
        /\ needle' # <<>> => \A i \in buf'.pos..(checkPos' - 1) : Differs(Bytes(buf)', needle', i)
    BY <1>2, <1>5, <1>6, <1>7
  <1>10. \E C : WellEncoded(needle', C)
    BY <1>2, <1>4
  <1>. QED BY <1>3, <1>8, <1>9, <1>10 DEF Sought, SearchTypes

(* The search goes on with what it knows when the bytes stay. *)
LEMMA FoundSeeks ==
  ASSUME Inductive, Legible, Legible', SearchTypes, Sought, Found
  PROVE  Sought' /\ SearchTypes'
  <1> DEFINE s == Bytes(buf)
  <1>1. /\ call.op = "fill_until_str" /\ call.pc = "check" /\ Finish /\ FillStep
        /\ needle' = needle /\ checkPos' = checkPos /\ content' = content
    BY DEF Found, Searching, textVars, FillStep
  <1>2. Appended
    BY <1>1, FillStepAppends
  <1>3. buf'.len = buf.len
    <2>1. buf' = ShrinkTargeted(buf, call.start)
      BY <1>1 DEF Finish
    <2>. QED BY <1>1, <2>1, ShrinkAfterFill DEF Inductive, Idle
  <1>4. Bytes(buf)' = s /\ buf'.pos = buf.pos
    BY <1>1, <1>2, <1>3, KeptBytes DEF Appended
  <1>5. call'.op = "fill_until_str" /\ call'.pc = "idle" /\ call'.result = "complete"
    <2>1. call \in CallType /\ call' = Returned(call, "complete") /\ "complete" \in Results
      BY <1>1, StateFacts DEF Finish, Results
    <2>. QED BY <1>1, <2>1, ReturnedFields
  <1>6. /\ s \in Seq(0..255) /\ Len(s) = buf.len /\ buf.pos \in Nat /\ buf.len \in Nat
        /\ buf.pos <= buf.len /\ needle \in Seq(0..255) /\ checkPos \in buf.pos..buf.len
    BY <1>1 DEF Legible, SearchTypes, Sought
  <1> HIDE DEF s
  <1>7. Occurs(needle, s, buf.pos, buf.len)
    <2>1. CASE needle = <<>>
      <3>1. Len(needle) = 0 /\ buf.pos \in buf.pos..(buf.len - Len(needle))
        BY <1>6, <2>1
      <3>2. SubSeq(s, buf.pos + 1, buf.pos + 0) = <<>>
        BY <1>6
      <3>. QED BY <2>1, <3>1, <3>2 DEF Occurs
    <2>2. CASE needle # <<>>
      <3> DEFINE from == Unchecked.from
                 to == Unchecked.to
      <3>1. Occurs(needle, s, from, to)
        BY <2>2 DEF Found, IsThere, s
      <3>2. Unchecked = AsStrFrom(s, buf.pos, checkPos)
        BY DEF Unchecked, s
      <3>3. buf.pos \in 0..Len(s) /\ checkPos \in buf.pos..Len(s)
        BY <1>6
      <3>4. from \in checkPos..Len(s) /\ to \in from..Len(s)
        BY <1>6, <3>2, <3>3, DecodedFrom
      <3> HIDE DEF from, to
      <3>5. from \in Nat /\ to \in Nat /\ buf.pos <= from /\ to <= Len(s)
        BY <1>6, <3>4
      <3>. QED BY <1>6, <3>1, <3>5, OccursFurther
    <2>. QED BY <2>1, <2>2
  <1>8. \E B : WellEncoded(needle', B)
    BY <1>1 DEF Sought
  <1>9. Occurs(needle', Bytes(buf)', buf'.pos, buf'.len)
    BY <1>1, <1>3, <1>4, <1>7
  <1>10. SearchTypes'
    BY <1>1 DEF SearchTypes
  <1>. QED BY <1>5, <1>8, <1>9, <1>10 DEF Sought

LEMMA NotTextSeeks ==
  ASSUME Inductive, SearchTypes, Sought, NotText
  PROVE  Sought' /\ SearchTypes'
  <1>1. /\ call.op = "fill_until_str" /\ Abandoned /\ needle' = needle /\ checkPos' = checkPos
    BY DEF NotText, Searching, textVars
  <1>2. call'.pc = "idle" /\ call'.result = "error"
    <2>1. call \in CallType /\ call' = Returned(call, "error") /\ "error" \in Results
      BY <1>1, StateFacts DEF Abandoned, Results
    <2>. QED BY <1>1, <2>1, ReturnedFields
  <1>3. \E B : WellEncoded(needle', B)
    BY <1>1 DEF Sought
  <1>4. SearchTypes'
    BY <1>1 DEF SearchTypes
  <1>. QED BY <1>2, <1>3, <1>4 DEF Sought

LEMMA ReadOnSeeks ==
  ASSUME Inductive, Legible, Legible', SearchTypes, Sought, ReadOn
  PROVE  Sought' /\ SearchTypes'
  <1> DEFINE s == Bytes(buf)
  <1>1. /\ call.op = "fill_until_str" /\ call.pc = "check" /\ (Capped \/ PrepareRead) /\ FillStep
        /\ needle' = needle /\ checkPos' = NextCheckPos /\ content' = content
        /\ IsText /\ ~IsThere
    BY DEF ReadOn, Searching, FillStep
  <1>2. Appended
    BY <1>1, FillStepAppends
  <1>3. buf'.len = buf.len
    <2>1. CASE Capped
      BY <2>1 DEF Capped
    <2>2. CASE PrepareRead
      <3>1. buf' = GrownForRead(buf, GrowthLimit)
        BY <2>2 DEF PrepareRead
      <3>. QED BY <3>1, StateFacts, LimitType, GrownWellFormed DEF Inductive
    <2>. QED BY <1>1, <2>1, <2>2
  <1>4. Bytes(buf)' = s /\ buf'.pos = buf.pos
    BY <1>1, <1>2, <1>3, KeptBytes DEF Appended
  <1>5. call'.pc \in {"idle", "read"} /\ (call'.pc = "idle" => call'.result # "complete")
    <2>1. call \in CallType /\ "capped" \in Results /\ "panic" \in Results
      BY StateFacts DEF Results
    <2>2. CASE Capped
      <3>1. call' = Returned(call, "capped")
        BY <1>1, <2>2 DEF Capped
      <3>. QED BY <2>1, <3>1, ReturnedFields
    <2>3. CASE PrepareRead
      <3>1. CASE call' = Returned(call, "panic")
        BY <2>1, <3>1, ReturnedFields
      <3>2. CASE call' # Returned(call, "panic")
        BY <2>1, <2>3, <3>2 DEF PrepareRead, CallType
      <3>. QED BY <3>1, <3>2
    <2>. QED BY <1>1, <2>2, <2>3
  <1>6. PICK B : WellEncoded(needle, B)
    BY <1>1 DEF Sought
  <1>7. /\ Absent(s, needle, buf.pos)
        /\ NextCheckPos \in buf.pos..buf.len
        /\ \A i \in buf.pos..(NextCheckPos - 1) : Differs(s, needle, i)
    <2>1. /\ checkPos \in buf.pos..buf.len
          /\ needle # <<>> => \A i \in buf.pos..(checkPos - 1) : Differs(Bytes(buf), needle, i)
      BY <1>1 DEF Sought
    <2>. QED BY <1>1, <1>6, <2>1, SearchGoesOn
  <1> HIDE DEF s
  <1>8. /\ Absent(Bytes(buf)', needle', buf'.pos)
        /\ checkPos' \in buf'.pos..buf'.len
        /\ \A i \in buf'.pos..(checkPos' - 1) : Differs(Bytes(buf)', needle', i)
    BY <1>1, <1>3, <1>4, <1>7
  <1>9. SearchTypes'
    BY <1>1, <1>7 DEF SearchTypes, Legible
  <1>10. \E C : WellEncoded(needle', C)
    BY <1>1, <1>6
  <1>. QED BY <1>5, <1>8, <1>9, <1>10 DEF Sought

(* The answer of the source: the bytes stay, and more may follow them. *)
LEMMA ReadingSeeks ==
  ASSUME Inductive, Legible, Legible', SearchTypes, Sought, Reading
  PROVE  Sought' /\ SearchTypes'
  <1>1. FillStep /\ ~Searching /\ needle' = needle /\ checkPos' = checkPos /\ content' = content
    BY DEF Reading, textVars
  <1>2. call \in CallType /\ call'.op = call.op /\ Appended /\ SearchTypes'
    BY <1>1, StateFacts, FillStepKeepsOp, FillStepAppends DEF SearchTypes
  <1>3. SUFFICES ASSUME call.op = "fill_until_str" PROVE Sought'
    BY <1>2 DEF Sought
  <1>4. PICK B : WellEncoded(needle, B)
    BY <1>3 DEF Sought
  <1> DEFINE s == Bytes(buf)
             t == Bytes(buf)'
  <1>5. call.pc = "read"
    <2>1. call.pc # "check"
      BY <1>1, <1>3 DEF Searching
    <2>. QED BY <1>1, <2>1 DEF FillStep, Finish, Abandoned, Capped, PrepareRead,
                ReadInterrupted, ReadFailed, ReadNothing, ReadBytes
  <1>6. /\ checkPos \in buf.pos..buf.len /\ Absent(s, needle, buf.pos)
        /\ needle # <<>> => \A i \in buf.pos..(checkPos - 1) : Differs(s, needle, i)
    BY <1>3, <1>5 DEF Sought
  <1>7. \E C : WellEncoded(needle', C)
    BY <1>1, <1>4
  <1>8. CASE ReadInterrupted
    <2>1. buf' = buf /\ call' = call
      BY <1>8 DEF ReadInterrupted, fillVars
    <2>2. t = s
      BY <1>1, <2>1 DEF Bytes
    <2>. QED BY <1>1, <1>5, <1>6, <1>7, <2>1, <2>2 DEF Sought
  <1>9. CASE ReadFailed
    <2>1. call' = Returned(call, "error") /\ "error" \in Results
      BY <1>9 DEF ReadFailed, Results
    <2>2. call'.pc = "idle" /\ call'.result = "error"
      BY <1>2, <2>1, ReturnedFields
    <2>. QED BY <1>7, <2>2 DEF Sought
  <1>10. CASE ReadNothing
    <2>1. call' = Returned(call, "eof") /\ buf' = ShrinkTargeted(buf, call.start) /\ "eof" \in Results
      BY <1>3, <1>10 DEF ReadNothing, Results
    <2>2. call'.pc = "idle" /\ call'.result = "eof"
      BY <1>2, <2>1, ReturnedFields
    <2>3. buf'.len = buf.len
      BY <1>5, <2>1, ShrinkAfterFill DEF Inductive, Idle
    <2>4. t = s /\ buf'.pos = buf.pos
      BY <1>1, <1>2, <2>3, KeptBytes DEF Appended
    <2> HIDE DEF s, t
    <2>5. Absent(t, needle', buf'.pos)
      BY <1>1, <1>6, <2>4
    <2>. QED BY <1>7, <2>2, <2>5 DEF Sought, t
  <1>11. ASSUME NEW n \in 1..StreamLen, ReadBytes(n) PROVE Sought'
    <2>1. call'.pc = "check"
      <3> DEFINE c == [call EXCEPT !.total = call.total + n, !.pc = "check"]
      <3>1. c.pc = "check"
        BY <1>2 DEF CallType
      <3>. QED BY <1>3, <1>11, <3>1 DEF ReadBytes
    <2>2. /\ s \in Seq(0..255) /\ t \in Seq(0..255) /\ buf.pos \in Nat /\ buf.len \in Nat
          /\ buf'.len \in Nat /\ buf.len <= buf'.len /\ buf'.pos = buf.pos /\ checkPos \in Nat
      BY <1>2 DEF Legible, Appended, SearchTypes
    <2>3. Len(s) <= Len(t) /\ \A k \in 1..Len(s) : t[k] = s[k]
      BY <1>1, <1>2, KeptBytes
    <2> HIDE DEF s, t
    <2>4. checkPos' \in buf'.pos..buf'.len
      BY <1>1, <1>6, <2>2
    <2>5. ASSUME needle # <<>>, NEW i \in buf.pos..(checkPos - 1) PROVE Differs(t, needle, i)
      <3>1. i \in Nat /\ Differs(s, needle, i)
        BY <1>6, <2>2, <2>5
      <3>2. Len(needle) \in Nat
        BY DEF SearchTypes
      <3>. QED BY <2>2, <2>3, <3>1, <3>2, DiffersStill
    <2>6. needle' # <<>> => \A i \in buf'.pos..(checkPos' - 1) : Differs(t, needle', i)
      BY <1>1, <2>2, <2>5
    <2>. QED BY <1>7, <2>1, <2>4, <2>6 DEF Sought, t
  <1>. QED
    <2>1. ~Finish /\ ~Abandoned /\ ~Capped /\ ~PrepareRead
      BY <1>5 DEF Finish, Abandoned, Capped, PrepareRead
    <2>. QED BY <1>1, <1>8, <1>9, <1>10, <1>11, <2>1 DEF FillStep

LEMMA StepSeeks ==
  ASSUME Inductive, Legible, Legible', SearchTypes, Sought, [TextNext]_allVars
  PROVE  Sought' /\ SearchTypes'
  <1>1. CASE Client
    BY <1>1, ClientSeeks
  <1>2. CASE Search
    BY <1>2, SearchSeeks
  <1>3. CASE Found
    BY <1>3, FoundSeeks
  <1>4. CASE NotText
    BY <1>4, NotTextSeeks
  <1>5. CASE ReadOn
    BY <1>5, ReadOnSeeks
  <1>6. CASE Reading
    BY <1>6, ReadingSeeks
  <1>7. CASE UNCHANGED allVars
    <2>1. buf' = buf /\ call' = call /\ content' = content /\ needle' = needle /\ checkPos' = checkPos
      BY <1>7 DEF allVars, vars, textVars
    <2>2. Bytes(buf)' = Bytes(buf)
      BY <2>1 DEF Bytes
    <2>. QED BY <2>1, <2>2 DEF Sought, SearchTypes
  <1>. QED BY <1>1, <1>2, <1>3, <1>4, <1>5, <1>6, <1>7 DEF TextNext, TextStep

LEMMA SoughtHolds == TextSpec => [](Inductive /\ Legible /\ SearchTypes /\ Sought /\ content \in Contents)
  <1>1. TextSpec => [](Inductive /\ BytesInOrder /\ TypeOK)
    BY TextFillsLikeBuffer, InductiveHolds, BytesInOrderHolds, TypeOKHolds, PTL DEF FillsLikeBuffer
  <1>2. TextSpec => [](content \in Contents)
    <2>1. TextInit => content \in Contents
      BY DEF TextInit
    <2>2. content \in Contents /\ [TextNext]_allVars => (content \in Contents)'
      BY DEF TextNext, Client, Search, FillUntilChar, FillUntilStr, TextStep, Found, NotText,
             ReadOn, Reading, allVars, textVars
    <2>. QED BY <2>1, <2>2, PTL DEF TextSpec
  <1>3. TextSpec => []Legible
    <2>1. Inductive /\ BytesInOrder /\ TypeOK /\ content \in Contents => Legible
      BY LegibleIs
    <2>. QED BY <1>1, <1>2, <2>1, PTL
  <1>4. TextInit => Sought /\ SearchTypes
    BY DEF TextInit, Init, NoCall, Sought, SearchTypes
  <1>5. Inductive /\ Legible /\ Legible' /\ SearchTypes /\ Sought /\ [TextNext]_allVars
          => Sought' /\ SearchTypes'
    BY StepSeeks
  <1>. QED BY <1>1, <1>2, <1>3, <1>4, <1>5, PTL DEF TextSpec

(***************************************************************************)
(* The variables of a search keep to their types, and check_pos, at every  *)
(* check, to the unconsumed bytes.                                         *)
(***************************************************************************)
THEOREM TextTypeOKHolds == TextSpec => []TextTypeOK
  <1>1. TextSpec => []TypeOK
    BY TextFillsLikeBuffer, TypeOKHolds, PTL DEF FillsLikeBuffer
  <1>2. TypeOK /\ Legible /\ SearchTypes /\ Sought /\ content \in Contents => TextTypeOK
    <2> SUFFICES ASSUME TypeOK, Legible, SearchTypes, Sought, content \in Contents PROVE TextTypeOK
      OBVIOUS
    <2>1. ASSUME Searching PROVE buf.pos <= checkPos /\ checkPos <= buf.len
      <3>1. checkPos \in buf.pos..buf.len
        BY <2>1 DEF Searching, Sought
      <3>. QED BY <3>1 DEF Legible
    <2>. QED BY <2>1 DEF TextTypeOK, SearchTypes
  <1>. QED BY <1>1, <1>2, SoughtHolds, PTL

(***************************************************************************)
(* fill_until_str answers Complete if and only if the needle is in the     *)
(* unconsumed bytes, for every stream, needle, cut and consumption before: *)
(* the bytes that a check does not decode again, the characters that two   *)
(* reads share and the continuation bytes it skips hide no occurrence.     *)
(***************************************************************************)
THEOREM SearchVerdictHolds == TextSpec => []SearchVerdict
  <1>1. Legible /\ SearchTypes /\ Sought => SearchVerdict
    <2> SUFFICES ASSUME Legible, SearchTypes, Sought, Answered
                 PROVE  call.result = "complete" <=> Occurs(needle, Bytes(buf), buf.pos, buf.len)
      BY DEF SearchVerdict
    <2>1. call.op = "fill_until_str" /\ call.pc = "idle" /\ call.result \in {"complete", "eof", "capped"}
      BY DEF Answered
    <2>2. CASE call.result = "complete"
      BY <2>1, <2>2 DEF Sought
    <2>3. CASE call.result \in {"eof", "capped"}
      <3>1. Absent(Bytes(buf), needle, buf.pos)
        BY <2>1, <2>3 DEF Sought
      <3>2. ~Occurs(needle, Bytes(buf), buf.pos, Len(Bytes(buf)))
        BY <3>1, AbsentIs DEF Legible, SearchTypes
      <3>. QED BY <2>3, <3>2 DEF Legible
    <2>. QED BY <2>1, <2>2, <2>3
  <1>. QED BY <1>1, SoughtHolds, PTL

-----------------------------------------------------------------------------
(***************************************************************************)
(* What the checks have decoded.  Whole characters lead from offset i to   *)
(* offset k when the offsets of some set do.                               *)
(***************************************************************************)
Links(C, s, k) == \A c \in C : c < k => \E form \in Whole(s, c) : c + Len(form) \in C

Chain(s, i, k) == \E C \in SUBSET (i..k) : i \in C /\ k \in C /\ Links(C, s, k)

LEMMA ChainOfNothing ==
  ASSUME NEW s, NEW i \in Nat
  PROVE  Chain(s, i, i)
  <1>1. {i} \in SUBSET (i..i) /\ i \in {i}
    OBVIOUS
  <1>2. Links({i}, s, i)
    BY DEF Links
  <1>. QED BY <1>1, <1>2 DEF Chain

(* Decoding from either end of such characters gets equally far. *)
LEMMA ChainValid ==
  ASSUME NEW s \in Seq(0..255), NEW k \in 0..Len(s), NEW i \in 0..k, Chain(s, i, k)
  PROVE  ValidUpTo(s, i) = ValidUpTo(s, k)
  <1>1. PICK C \in SUBSET (i..k) : i \in C /\ k \in C /\ Links(C, s, k)
    BY DEF Chain
  <1> DEFINE S == {c \in C : ValidUpTo(s, c) # ValidUpTo(s, k)}
  <1>2. Len(s) \in Nat /\ C \in SUBSET (0..Len(s)) /\ \A c \in C : c \in 0..Len(s) /\ c <= k
    OBVIOUS
  <1>3. ASSUME NEW c \in S PROVE \E d \in S : c < d
    <2>1. c \in C /\ c \in 0..Len(s) /\ c < k
      BY <1>2
    <2>2. PICK form \in Whole(s, c) : c + Len(form) \in C
      BY <1>1, <2>1 DEF Links
    <2>3. Len(form) \in 1..4 /\ c + Len(form) <= Len(s)
      BY <2>1, WholeFacts
    <2>4. c < c + Len(form)
      BY <1>2, <2>1, <2>3, Advance
    <2>5. ValidUpTo(s, c) = ValidUpTo(s, c + Len(form))
      BY <2>1, ValidUpToStep
    <2>. QED BY <2>2, <2>4, <2>5
  <1>4. S \in SUBSET (0..Len(s))
    BY <1>2
  <1>5. S = {}
    BY <1>2, <1>3, <1>4, Downwards
  <1>. QED BY <1>1, <1>5

(* What is decoded is whole characters. *)
LEMMA ChainToEnd ==
  ASSUME NEW s \in Seq(0..255), NEW i \in 0..Len(s)
  PROVE  Chain(s, i, ValidUpTo(s, i))
  <1> DEFINE L == Len(s)
             V(j) == ValidUpTo(s, j)
             Good(j) == Chain(s, j, V(j))
             S == {j \in 0..L : ~Good(j)}
  <1>1. L \in Nat
    OBVIOUS
  <1>2. ASSUME NEW j \in 0..L, ~Good(j) PROVE \E d \in 0..L : j < d /\ ~Good(d)
    <2>1. CASE Whole(s, j) = {}
      <3>1. V(j) = j /\ j \in Nat
        BY <2>1, ValidUpToStep
      <3>. QED BY <1>2, <3>1, ChainOfNothing
    <2>2. CASE Whole(s, j) # {}
      <3>1. PICK form \in Whole(s, j) : TRUE
        BY <2>2
      <3> DEFINE d == j + Len(form)
      <3>2. Len(form) \in 1..4 /\ d <= L
        BY WholeFacts
      <3>3. d \in 0..L /\ j < d
        BY <1>1, <3>2, Advance
      <3>4. V(j) = V(d)
        BY ValidUpToStep
      <3> HIDE DEF d
      <3>5. V(d) \in d..L
        BY <3>3, ValidUpToStops
      <3> HIDE DEF V
      <3>6. ASSUME Good(d) PROVE FALSE
        <4>1. PICK C \in SUBSET (d..V(d)) : d \in C /\ V(d) \in C /\ Links(C, s, V(d))
          BY <3>6 DEF Chain
        <4>2. {j} \cup C \in SUBSET (j..V(d)) /\ j \in {j} \cup C /\ V(d) \in {j} \cup C
          BY <3>3, <3>5, <4>1
        <4>3. Links({j} \cup C, s, V(d))
          <5> SUFFICES ASSUME NEW c \in {j} \cup C, c < V(d)
                       PROVE  \E f \in Whole(s, c) : c + Len(f) \in {j} \cup C
            BY DEF Links
          <5>1. CASE c = j
            BY <4>1, <5>1 DEF d
          <5>2. CASE c \in C
            BY <4>1, <5>2 DEF Links
          <5>. QED BY <5>1, <5>2
        <4>4. Chain(s, j, V(d))
          BY <4>2, <4>3 DEF Chain
        <4>. QED BY <1>2, <3>4, <4>4
      <3>. QED BY <3>3, <3>6
    <2>. QED BY <2>1, <2>2
  <1> HIDE DEF L, Good
  <1>3. ASSUME NEW j \in S PROVE \E d \in S : j < d
    BY <1>2
  <1>4. S = {}
    BY <1>1, <1>3, Downwards
  <1>5. Good(i)
    BY <1>4 DEF L
  <1>. QED BY <1>5 DEF Good

LEMMA ChainJoin ==
  ASSUME NEW s, NEW k \in Nat, NEW j \in 0..k, NEW i \in 0..j, Chain(s, i, j), Chain(s, j, k)
  PROVE  Chain(s, i, k)
  <1>1. PICK C \in SUBSET (i..j) : i \in C /\ j \in C /\ Links(C, s, j)
    BY DEF Chain
  <1>2. PICK D \in SUBSET (j..k) : j \in D /\ k \in D /\ Links(D, s, k)
    BY DEF Chain
  <1>3. C \cup D \in SUBSET (i..k) /\ i \in C \cup D /\ k \in C \cup D
    BY <1>1, <1>2
  <1>4. Links(C \cup D, s, k)
    <2> SUFFICES ASSUME NEW c \in C \cup D, c < k
                 PROVE  \E form \in Whole(s, c) : c + Len(form) \in C \cup D
      BY DEF Links
    <2>1. CASE c \in D
      BY <1>2, <2>1 DEF Links
    <2>2. CASE c \in C /\ c < j
      BY <1>1, <2>2 DEF Links
    <2>3. c \in D \/ (c \in C /\ c < j)
      BY <1>1, <1>2
    <2>. QED BY <2>1, <2>2, <2>3
  <1>. QED BY <1>3, <1>4 DEF Chain

(* No character is cut at an offset at which one begins or all of them end. *)
LEMMA ChainPart ==
  ASSUME NEW s \in Seq(0..255), NEW k \in 0..Len(s), NEW i \in 0..k, NEW p \in i..k,
         p = k \/ ~IsContinuation(s[p + 1]), Chain(s, i, k)
  PROVE  Chain(s, i, p)
  <1>1. PICK C \in SUBSET (i..k) : i \in C /\ k \in C /\ Links(C, s, k)
    BY DEF Chain
  <1>2. /\ Len(s) \in Nat /\ k \in Nat /\ i \in Nat /\ p \in Nat /\ i <= p /\ p <= k /\ k <= Len(s)
        /\ \A c \in C : c \in 0..Len(s) /\ c <= k /\ i <= c
    OBVIOUS
  <1>3. ASSUME NEW c \in C, c < p
        PROVE  \E form \in Whole(s, c) : c + Len(form) \in C /\ c + Len(form) <= p /\ c < c + Len(form)
    <2>1. c \in 0..Len(s) /\ c < k
      BY <1>2, <1>3
    <2>2. PICK form \in Whole(s, c) : c + Len(form) \in C
      BY <1>1, <2>1 DEF Links
    <2>3. Len(form) \in 1..4 /\ c + Len(form) <= Len(s) /\ s[c + 1] \in form[1] /\ form \in Forms
      BY <2>1, WholeFacts DEF Whole
    <2>4. ASSUME p < c + Len(form) PROVE FALSE
      <3>1. p # k
        BY <1>2, <2>1, <2>2, <2>3, <2>4
      <3> DEFINE m == (p - c) + 1
      <3>2. m \in 2..Len(form) /\ c + m = p + 1
        BY <1>2, <1>3, <2>1, <2>3, <2>4
      <3> HIDE DEF m
      <3>3. form[m] \subseteq Trailing
        BY <2>3, <3>2, LeadByte
      <3>4. m \in 1..Len(form)
        BY <2>3, <3>2
      <3>5. s[c + m] \in form[m]
        BY <3>4 DEF Whole, Follows
      <3>. QED BY <3>1, <3>2, <3>3, <3>5 DEF IsContinuation, Trailing
    <2>5. c < c + Len(form) /\ c + Len(form) \in Int
      BY <1>2, <2>1, <2>3
    <2>. QED BY <1>2, <2>2, <2>4, <2>5
  <1> DEFINE S == {c \in C : c < p}
             D == {c \in C : c <= p}
  <1>4. p \in C
    <2> SUFFICES ASSUME p \notin C PROVE FALSE
      OBVIOUS
    <2>1. ASSUME NEW c \in S PROVE \E d \in S : c < d
      <3>1. PICK form \in Whole(s, c) : c + Len(form) \in C /\ c + Len(form) <= p /\ c < c + Len(form)
        BY <1>3
      <3>2. c + Len(form) # p /\ c + Len(form) \in Int
        BY <1>2, <3>1
      <3>3. c + Len(form) < p
        <4> DEFINE d == c + Len(form)
        <4>1. d \in Int /\ d <= p /\ d # p
          BY <3>1, <3>2
        <4>2. p \in Int
          BY <1>2
        <4> HIDE DEF d
        <4>3. d < p
          BY ONLY <4>1, <4>2
        <4>. QED BY <4>3 DEF d
      <3>. QED BY <3>1, <3>3
    <2>2. S \in SUBSET (0..Len(s))
      BY <1>2
    <2>3. S = {}
      BY <1>2, <2>1, <2>2, Downwards
    <2>4. i < p
      BY <1>1, <1>2
    <2>. QED BY <1>1, <2>3, <2>4
  <1>5. D \in SUBSET (i..p) /\ i \in D /\ p \in D
    <2>1. ASSUME NEW c \in D PROVE c \in i..p
      BY <1>2
    <2>2. p <= p
      BY <1>2
    <2>. QED BY <1>1, <1>2, <1>4, <2>1, <2>2
  <1>6. Links(D, s, p)
    BY <1>3 DEF Links
  <1>. QED BY <1>5, <1>6 DEF Chain

(* More bytes take no character away. *)
LEMMA ChainMore ==
  ASSUME NEW s \in Seq(0..255), NEW t \in Seq(0..255), Len(s) <= Len(t),
         \A n \in 1..Len(s) : t[n] = s[n],
         NEW k \in 0..Len(s), NEW i \in 0..k, Chain(s, i, k)
  PROVE  Chain(t, i, k)
  <1>1. PICK C \in SUBSET (i..k) : i \in C /\ k \in C /\ Links(C, s, k)
    BY DEF Chain
  <1>2. ASSUME NEW c \in C, NEW form \in Whole(s, c) PROVE form \in Whole(t, c)
    <2>1. c \in 0..Len(s)
      OBVIOUS
    <2>2. Len(form) \in 1..4 /\ c + Len(form) <= Len(s) /\ form \in Forms
      BY <2>1, WholeFacts DEF Whole
    <2>3. c + Len(form) <= Len(t)
      BY <2>1, <2>2
    <2>4. ASSUME NEW n \in 1..Len(form) PROVE t[c + n] \in form[n]
      <3>1. c + n \in 1..Len(s)
        BY <2>1, <2>2
      <3>2. s[c + n] \in form[n]
        BY DEF Whole, Follows
      <3>. QED BY <3>1, <3>2
    <2>5. Len(form) <= Len(form)
      BY <2>2
    <2>. QED BY <2>2, <2>3, <2>4, <2>5 DEF Whole, Follows
  <1>3. Links(C, t, k)
    BY <1>1, <1>2 DEF Links
  <1>. QED BY <1>1, <1>3 DEF Chain

(***************************************************************************)
(* From pos to cp the bytes are continuation bytes, cut off their          *)
(* character, and then whole characters; or else, after these, a           *)
(* continuation byte stands where a character should begin.                *)
(***************************************************************************)
CutOff(s, pos, start) == \A i \in pos..(start - 1) : IsContinuation(s[i + 1])

Broken(s, start) ==
  \E k \in (start + 1)..(Len(s) - 1) : Chain(s, start, k) /\ IsContinuation(s[k + 1])

Decoded(s, pos, cp) ==
  \E start \in pos..cp : CutOff(s, pos, start) /\ (Chain(s, start, cp) \/ Broken(s, start))

(* Only one offset is the first at which no continuation byte stands. *)
LEMMA CutOffOnce ==
  ASSUME NEW s \in Seq(0..255), NEW pos \in 0..Len(s), NEW a \in pos..Len(s), NEW b \in pos..Len(s),
         CutOff(s, pos, a), a < Len(s) => ~IsContinuation(s[a + 1]),
         CutOff(s, pos, b), b < Len(s) => ~IsContinuation(s[b + 1])
  PROVE  a = b
  <1>1. /\ Len(s) \in Nat /\ pos \in Nat /\ a \in Nat /\ b \in Nat
        /\ pos <= a /\ a <= Len(s) /\ pos <= b /\ b <= Len(s)
    OBVIOUS
  <1>2. ASSUME a < b PROVE FALSE
    <2>1. a \in pos..(b - 1) /\ a < Len(s)
      BY <1>1, <1>2
    <2>. QED BY <2>1 DEF CutOff
  <1>3. ASSUME b < a PROVE FALSE
    <2>1. b \in pos..(a - 1) /\ b < Len(s)
      BY <1>1, <1>3
    <2>. QED BY <2>1 DEF CutOff
  <1>. QED BY <1>1, <1>2, <1>3

(* A chain of characters begins with a leading byte, and a continuation     *)
(* byte after it is invalid.                                                *)
LEMMA ChainLeads ==
  ASSUME NEW s \in Seq(0..255), NEW k \in 0..Len(s), NEW i \in 0..k, i < k, Chain(s, i, k)
  PROVE  ~IsContinuation(s[i + 1])
  <1>1. PICK C \in SUBSET (i..k) : i \in C /\ k \in C /\ Links(C, s, k)
    BY DEF Chain
  <1>2. PICK form \in Whole(s, i) : TRUE
    BY <1>1 DEF Links
  <1>3. i \in 0..Len(s)
    OBVIOUS
  <1>4. s[i + 1] \in form[1] /\ form \in Forms
    BY <1>3, WholeFacts DEF Whole
  <1>. QED BY <1>4, LeadByte

LEMMA BreaksText ==
  ASSUME NEW s \in Seq(0..255), NEW k \in 0..Len(s), k < Len(s), IsContinuation(s[k + 1]),
         NEW i \in 0..k, Chain(s, i, k)
  PROVE  IsInvalid(s, i)
  <1>1. Len(s) \in Nat /\ k \in Nat /\ 1 <= Len(s) - k /\ Len(s) - k \in Nat
    OBVIOUS
  <1>2. Whole(s, k) = {}
    <2> SUFFICES ASSUME NEW form \in Whole(s, k) PROVE FALSE
      OBVIOUS
    <2>1. s[k + 1] \in form[1] /\ form \in Forms
      BY WholeFacts DEF Whole
    <2>. QED BY <2>1, LeadByte
  <1>3. ValidUpTo(s, i) = k
    BY <1>2, ChainValid, ValidUpToStep
  <1>4. ~IsIncomplete(s, k)
    <2> SUFFICES ASSUME NEW form \in Forms, Follows(s, k, form, Len(s) - k) PROVE FALSE
      BY DEF IsIncomplete
    <2>1. 1 \in 1..(Len(s) - k)
      BY <1>1
    <2>2. s[k + 1] \in form[1]
      BY <2>1 DEF Follows
    <2>. QED BY <2>2, LeadByte
  <1>. QED BY <1>3, <1>4 DEF IsInvalid

LEMMA BrokenIs ==
  ASSUME NEW s \in Seq(0..255), NEW i \in 0..Len(s), Broken(s, i)
  PROVE  IsInvalid(s, i) /\ i < Len(s) /\ ~IsContinuation(s[i + 1])
  <1>1. PICK k \in (i + 1)..(Len(s) - 1) : Chain(s, i, k) /\ IsContinuation(s[k + 1])
    BY DEF Broken
  <1>2. k \in 0..Len(s) /\ i \in 0..k /\ i < k /\ k < Len(s) /\ i < Len(s)
    OBVIOUS
  <1>. QED BY <1>1, <1>2, BreaksText, ChainLeads

(* What was decoded stays decoded. *)
LEMMA DecodedMore ==
  ASSUME NEW s \in Seq(0..255), NEW t \in Seq(0..255), Len(s) <= Len(t),
         \A n \in 1..Len(s) : t[n] = s[n],
         NEW pos \in 0..Len(s), NEW cp \in pos..Len(s), Decoded(s, pos, cp)
  PROVE  Decoded(t, pos, cp)
  <1>1. /\ Len(s) \in Nat /\ Len(t) \in Nat /\ pos \in Nat /\ cp \in Nat
        /\ pos <= cp /\ cp <= Len(s) /\ cp \in 0..Len(s)
    OBVIOUS
  <1>2. PICK start \in pos..cp : CutOff(s, pos, start) /\ (Chain(s, start, cp) \/ Broken(s, start))
    BY DEF Decoded
  <1>3. CutOff(t, pos, start)
    <2> SUFFICES ASSUME NEW i \in pos..(start - 1) PROVE IsContinuation(t[i + 1])
      BY DEF CutOff
    <2>1. i + 1 \in 1..Len(s)
      BY <1>1
    <2>. QED BY <1>2, <2>1 DEF CutOff
  <1>4. CASE Chain(s, start, cp)
    <2>1. start \in 0..cp
      BY <1>1
    <2>2. Chain(t, start, cp)
      BY <1>1, <1>4, <2>1, ChainMore
    <2>. QED BY <1>3, <2>2 DEF Decoded
  <1>5. CASE Broken(s, start)
    <2>1. PICK k \in (start + 1)..(Len(s) - 1) : Chain(s, start, k) /\ IsContinuation(s[k + 1])
      BY <1>5 DEF Broken
    <2>2. k \in 0..Len(s) /\ start \in 0..k /\ k + 1 \in 1..Len(s) /\ k \in (start + 1)..(Len(t) - 1)
      BY <1>1
    <2>3. Chain(t, start, k) /\ IsContinuation(t[k + 1])
      BY <2>1, <2>2, ChainMore
    <2>4. Broken(t, start)
      BY <2>2, <2>3 DEF Broken
    <2>. QED BY <1>3, <2>4 DEF Decoded
  <1>. QED BY <1>2, <1>4, <1>5

(***************************************************************************)
(* A check that ends at valid_up_to has decoded everything up to each      *)
(* character, of what it decoded, that the search goes back to.            *)
(***************************************************************************)
LEMMA DecodesFurther ==
  ASSUME NEW s \in Seq(0..255), NEW pos \in 0..Len(s), NEW cp \in pos..Len(s), Decoded(s, pos, cp),
         NEW from \in cp..Len(s), \A i \in cp..(from - 1) : IsContinuation(s[i + 1]),
         NEW to \in from..Len(s), to = ValidUpTo(s, from),
         NEW p \in pos..Len(s), p = pos \/ p <= to,
         p = pos \/ p = Len(s) \/ ~IsContinuation(s[p + 1])
  PROVE  Decoded(s, pos, p)
  <1>1. /\ Len(s) \in Nat /\ pos \in Nat /\ cp \in Nat /\ from \in Nat /\ to \in Nat /\ p \in Nat
        /\ pos <= cp /\ cp <= from /\ from <= to /\ to <= Len(s) /\ pos <= p /\ p <= Len(s)
        /\ cp \in 0..Len(s) /\ from \in 0..Len(s) /\ to \in 0..Len(s)
    OBVIOUS
  <1>2. CASE p = pos
    <2>1. Chain(s, pos, pos) /\ pos \in pos..pos
      BY <1>1, ChainOfNothing
    <2>2. CutOff(s, pos, pos)
      BY <1>1 DEF CutOff
    <2>. QED BY <1>2, <2>1, <2>2 DEF Decoded
  <1>3. CASE p # pos
    <2>1. p <= to /\ (p = Len(s) \/ ~IsContinuation(s[p + 1]))
      BY <1>3
    <2>2. PICK start \in pos..cp : CutOff(s, pos, start) /\ (Chain(s, start, cp) \/ Broken(s, start))
      BY DEF Decoded
    <2>3. start \in Nat /\ pos <= start /\ start <= cp
      BY <1>1
    <2>4. start <= p
      <3> SUFFICES ASSUME p < start PROVE FALSE
        BY <1>1, <2>3
      <3>1. p \in pos..(start - 1) /\ p # Len(s)
        BY <1>1, <2>3
      <3>. QED BY <2>1, <2>2, <3>1 DEF CutOff
    <2>5. start \in pos..p
      BY <1>1, <2>3, <2>4
    <2>6. CASE Broken(s, start)
      BY <2>2, <2>5, <2>6 DEF Decoded
    <2>7. ASSUME Chain(s, start, cp), p <= cp PROVE Decoded(s, pos, p)
      <3>1. start \in 0..cp /\ p \in start..cp /\ (p = cp \/ ~IsContinuation(s[p + 1]))
        BY <1>1, <2>1, <2>3, <2>4, <2>7
      <3>2. Chain(s, start, p)
        BY <1>1, <2>7, <3>1, ChainPart
      <3>. QED BY <2>2, <2>5, <3>2 DEF Decoded
    <2>8. Chain(s, from, to)
      BY <1>1, ChainToEnd
    <2>9. ASSUME Chain(s, start, cp), cp < p, from = cp PROVE Decoded(s, pos, p)
      <3>1. to \in Nat /\ from \in 0..to /\ start \in 0..from /\ start \in 0..to
        BY <1>1, <2>3, <2>9
      <3>2. Chain(s, start, from)
        BY <2>9
      <3>3. Chain(s, start, to)
        BY <2>8, <3>1, <3>2, ChainJoin
      <3>4. p \in start..to /\ (p = to \/ ~IsContinuation(s[p + 1]))
        BY <1>1, <2>1, <2>3, <2>4
      <3>5. Chain(s, start, p)
        BY <1>1, <3>1, <3>3, <3>4, ChainPart
      <3>. QED BY <2>2, <2>5, <3>5 DEF Decoded
    <2>10. ASSUME Chain(s, start, cp), cp < from, start < cp PROVE Decoded(s, pos, p)
      <3>1. cp \in (start + 1)..(Len(s) - 1) /\ cp \in cp..(from - 1)
        BY <1>1, <2>3, <2>10
      <3>2. Broken(s, start)
        BY <2>10, <3>1 DEF Broken
      <3>. QED BY <2>2, <2>5, <3>2 DEF Decoded
    <2>11. ASSUME cp < from, cp < p, start = cp PROVE Decoded(s, pos, p)
      <3>1. from <= p
        <4> SUFFICES ASSUME p < from PROVE FALSE
          BY <1>1
        <4>1. p \in cp..(from - 1) /\ p # Len(s)
          BY <1>1, <2>11
        <4>. QED BY <2>1, <4>1
      <3>2. from \in 0..to /\ p \in from..to /\ (p = to \/ ~IsContinuation(s[p + 1])) /\ from \in pos..p
        BY <1>1, <2>1, <3>1
      <3>3. Chain(s, from, p)
        BY <1>1, <2>8, <3>2, ChainPart
      <3>4. CutOff(s, pos, from)
        <4> SUFFICES ASSUME NEW i \in pos..(from - 1) PROVE IsContinuation(s[i + 1])
          BY DEF CutOff
        <4>1. i \in pos..(start - 1) \/ i \in cp..(from - 1)
          BY <1>1, <2>11
        <4>. QED BY <2>2, <4>1 DEF CutOff
      <3>. QED BY <3>2, <3>3, <3>4 DEF Decoded
    <2>12. ASSUME Chain(s, start, cp), ~(p <= cp) PROVE Decoded(s, pos, p)
      <3>1. cp < p /\ (from = cp \/ cp < from) /\ (start = cp \/ start < cp)
        BY <1>1, <2>3, <2>12
      <3>. QED BY <2>9, <2>10, <2>11, <2>12, <3>1
    <2>. QED BY <2>2, <2>6, <2>7, <2>12
  <1>. QED BY <1>2, <1>3

(* What a check finds invalid makes all the unconsumed bytes invalid. *)
LEMMA RejectsAll ==
  ASSUME NEW s \in Seq(0..255), NEW pos \in 0..Len(s), NEW cp \in pos..Len(s), Decoded(s, pos, cp),
         NEW from \in cp..Len(s), \A i \in cp..(from - 1) : IsContinuation(s[i + 1]),
         from < Len(s) => ~IsContinuation(s[from + 1]),
         IsInvalid(s, from),
         NEW a \in pos..Len(s), CutOff(s, pos, a), a < Len(s) => ~IsContinuation(s[a + 1])
  PROVE  IsInvalid(s, a)
  <1>1. /\ Len(s) \in Nat /\ pos \in Nat /\ cp \in Nat /\ from \in Nat
        /\ pos <= cp /\ cp <= from /\ from <= Len(s) /\ cp \in 0..Len(s)
    OBVIOUS
  <1>2. PICK start \in pos..cp : CutOff(s, pos, start) /\ (Chain(s, start, cp) \/ Broken(s, start))
    BY DEF Decoded
  <1>3. start \in pos..Len(s) /\ start \in 0..Len(s) /\ start \in 0..cp /\ start \in Nat /\ start <= cp
    BY <1>1
  <1>4. CASE Broken(s, start)
    <2>1. IsInvalid(s, start) /\ ~IsContinuation(s[start + 1])
      BY <1>3, <1>4, BrokenIs
    <2>2. a = start
      BY <1>2, <1>3, <2>1, CutOffOnce
    <2>. QED BY <2>1, <2>2
  <1>5. CASE Chain(s, start, cp) /\ start < cp
    <2>1. ~IsContinuation(s[start + 1])
      BY <1>1, <1>3, <1>5, ChainLeads
    <2>2. a = start
      BY <1>2, <1>3, <2>1, CutOffOnce
    <2>3. CASE from = cp
      <3>1. ValidUpTo(s, start) = ValidUpTo(s, cp)
        BY <1>1, <1>3, <1>5, ChainValid
      <3>. QED BY <2>2, <2>3, <3>1 DEF IsInvalid
    <2>4. CASE cp < from
      <3>1. cp \in cp..(from - 1) /\ cp < Len(s)
        BY <1>1, <2>4
      <3>2. IsContinuation(s[cp + 1])
        BY <3>1
      <3>. QED BY <1>1, <1>3, <1>5, <2>2, <3>1, <3>2, BreaksText
    <2>. QED BY <1>1, <2>3, <2>4
  <1>6. CASE start = cp
    <2>1. CutOff(s, pos, from)
      <3> SUFFICES ASSUME NEW i \in pos..(from - 1) PROVE IsContinuation(s[i + 1])
        BY DEF CutOff
      <3>1. i \in pos..(start - 1) \/ i \in cp..(from - 1)
        BY <1>1, <1>6
      <3>. QED BY <1>2, <3>1 DEF CutOff
    <2>2. from \in pos..Len(s)
      BY <1>1
    <2>3. a = from
      BY <2>1, <2>2, CutOffOnce
    <2>. QED BY <2>3
  <1>. QED BY <1>1, <1>2, <1>3, <1>4, <1>5, <1>6

(* The search goes back to pos, to the end, or to where a character begins. *)
LEMMA AlignsAtStart ==
  ASSUME NEW s \in Seq(0..255), NEW pos \in 0..Len(s), NEW offset \in Nat
  PROVE  LET p == AlignPosToChar(s, pos, offset)
         IN  /\ p \in pos..Len(s) /\ (p = pos \/ p <= offset)
             /\ p = pos \/ p = Len(s) \/ ~IsContinuation(s[p + 1])
  <1> DEFINE L == Len(s)
             c == Clamped(s, pos, offset)
             p == AlignPosToChar(s, pos, offset)
             start == LastStart(s, pos, L - 1)
             back == LastStart(s, pos, c)
  <1>1. L \in Nat /\ pos \in Nat /\ pos <= L
    OBVIOUS
  <1>2. c \in pos..L /\ (c <= offset \/ c = pos)
    BY ClampedIs, Zenon
  <1>3. p \in pos..c
    BY AlignsBefore, Zenon
  <1> HIDE DEF c
  <1>4. c \in Nat /\ pos <= c /\ c <= L /\ c \in 0..L
    BY <1>1, <1>2
  <1>5. ASSUME c < L, back # pos PROVE ~IsContinuation(s[back + 1])
    BY <1>4, <1>5, LastStartIs
  <1>6. ASSUME pos # L, start # pos PROVE ~IsContinuation(s[start + 1])
    <2>1. L - 1 \in 0..L /\ L - 1 < L
      BY <1>1, <1>6
    <2>. QED BY <1>6, <2>1, LastStartIs
  <1> HIDE DEF start, back
  <1>7. (c < L /\ p = back) \/ p = L \/ (pos # L /\ p = start)
    BY DEF AlignPosToChar, c, start, back
  <1> HIDE DEF p
  <1>8. p \in pos..L /\ (p = pos \/ p <= offset)
    BY <1>1, <1>2, <1>3, <1>4
  <1>9. p = pos \/ p = L \/ ~IsContinuation(s[p + 1])
    BY <1>5, <1>6, <1>7
  <1>. QED BY <1>8, <1>9 DEF p

LEMMA NextDecoded ==
  ASSUME Legible, NEW B, WellEncoded(needle, B), needle # <<>>, checkPos \in buf.pos..buf.len,
         Decoded(Bytes(buf), buf.pos, checkPos)
  PROVE  /\ NextCheckPos \in buf.pos..buf.len
         /\ Decoded(Bytes(buf), buf.pos, NextCheckPos)
  <1> DEFINE s == Bytes(buf)
             L == buf.len
             pos == buf.pos
             from == Unchecked.from
             to == Unchecked.to
             end == checkPos + (to - from)
             offset == Larger(end + 1 - Len(needle), 0)
             p == NextCheckPos
  <1>1. /\ s \in Seq(0..255) /\ Len(s) = L /\ L \in Nat /\ pos \in Nat /\ pos <= L
    BY DEF Legible
  <1>2. Len(needle) \in Nat /\ 1 <= Len(needle)
    BY BeginsCharacter
  <1>3. Unchecked = AsStrFrom(s, pos, checkPos)
    BY DEF Unchecked
  <1>4. p = AlignPosToChar(s, pos, offset)
    BY DEF NextCheckPos
  <1>5. Decoded(s, pos, checkPos)
    OBVIOUS
  <1> HIDE DEF s, L, pos, p
  <1>6. pos \in 0..Len(s) /\ checkPos \in pos..Len(s) /\ checkPos \in Nat
    BY <1>1 DEF L, pos
  <1>7. /\ from = AlignPosToNextChar(s, pos, checkPos)
        /\ to = ValidUpTo(s, from)
        /\ from \in checkPos..Len(s)
        /\ \A i \in checkPos..(from - 1) : IsContinuation(s[i + 1])
        /\ to \in from..Len(s)
    <2>1. /\ AsStrFrom(s, pos, checkPos).from = AlignPosToNextChar(s, pos, checkPos)
          /\ AsStrFrom(s, pos, checkPos).to = ValidUpTo(s, AsStrFrom(s, pos, checkPos).from)
          /\ AsStrFrom(s, pos, checkPos).from \in checkPos..Len(s)
          /\ AsStrFrom(s, pos, checkPos).to \in AsStrFrom(s, pos, checkPos).from..Len(s)
      BY <1>1, <1>6, DecodedFrom
    <2>2. \A i \in checkPos..(AsStrFrom(s, pos, checkPos).from - 1) : IsContinuation(s[i + 1])
      BY <1>1, <1>6, DecodedFrom
    <2>. QED BY <1>3, <2>1, <2>2
  <1> HIDE DEF from, to
  <1>8. from \in Nat /\ to \in Nat /\ checkPos <= from /\ from <= to
    BY <1>1, <1>6, <1>7
  <1>9. offset \in Nat /\ offset <= to
    BY <1>2, <1>6, <1>8 DEF Larger
  <1> HIDE DEF offset
  <1>10. /\ p \in pos..Len(s) /\ (p = pos \/ p <= offset)
         /\ p = pos \/ p = Len(s) \/ ~IsContinuation(s[p + 1])
    BY <1>1, <1>4, <1>6, <1>9, AlignsAtStart
  <1>11. p = pos \/ p <= to
    <2>1. p \in Int
      BY <1>1, <1>10
    <2>. QED BY <1>8, <1>9, <1>10, <2>1
  <1>12. Decoded(s, pos, p)
    BY <1>1, <1>5, <1>6, <1>7, <1>10, <1>11, DecodesFurther
  <1>. QED BY <1>1, <1>10, <1>12 DEF s, L, pos, p

(* At every check and every read, what is before check_pos was decoded.     *)
Understood ==
  call.op = "fill_until_str" /\ call.pc # "idle" /\ needle # <<>> =>
    Decoded(Bytes(buf), buf.pos, checkPos)

LEMMA SearchUnderstands ==
  ASSUME Legible, Search
  PROVE  Understood'
  <1>1. PICK str, limit : FillUntilStr(str, limit)
    BY DEF Search, FillUntilChar
  <1> DEFINE s == Bytes(buf)
             p == AlignPosToNextChar(s, buf.pos, buf.pos)
  <1>2. buf' = buf /\ checkPos' = p /\ content' = content
    BY <1>1 DEF FillUntilStr, StartFill
  <1>3. s \in Seq(0..255) /\ Len(s) = buf.len /\ buf.pos \in 0..Len(s) /\ buf.pos \in Nat
    BY DEF Legible
  <1>4. Bytes(buf)' = s
    BY <1>2 DEF Bytes
  <1> HIDE DEF s
  <1>5. p \in buf.pos..Len(s) /\ \A i \in buf.pos..(p - 1) : IsContinuation(s[i + 1])
    BY <1>3, NothingEncoded, SearchBegins
  <1> HIDE DEF p
  <1>6. p \in Nat /\ p \in buf.pos..p
    BY <1>3, <1>5
  <1>7. CutOff(s, buf.pos, p) /\ Chain(s, p, p)
    BY <1>5, <1>6, ChainOfNothing DEF CutOff
  <1>8. Decoded(s, buf.pos, p)
    BY <1>6, <1>7 DEF Decoded
  <1>. QED BY <1>2, <1>4, <1>8 DEF Understood

LEMMA StepUnderstands ==
  ASSUME Inductive, Legible, Legible', SearchTypes, Sought, Understood, TextStep
  PROVE  Understood'
  <1>1. FillStep /\ needle' = needle /\ content' = content
    BY DEF TextStep, Found, NotText, ReadOn, Reading, textVars, FillStep
  <1>2. call'.op = call.op /\ Appended
    BY <1>1, StateFacts, FillStepKeepsOp, FillStepAppends
  <1>3. ~Idle
    BY <1>1 DEF FillStep, Finish, Abandoned, Capped, PrepareRead, ReadInterrupted, ReadFailed,
                ReadNothing, ReadBytes, Idle
  <1>4. SUFFICES ASSUME call.op = "fill_until_str", needle # <<>>
                 PROVE  Decoded(Bytes(buf)', buf'.pos, checkPos')
    BY <1>1, <1>2 DEF Understood
  <1> DEFINE s == Bytes(buf)
             t == Bytes(buf)'
  <1>5. /\ s \in Seq(0..255) /\ t \in Seq(0..255) /\ buf'.pos = buf.pos /\ buf.pos \in 0..Len(s)
        /\ Len(s) = buf.len
    BY <1>2 DEF Legible, Appended
  <1>6. Len(s) <= Len(t) /\ \A k \in 1..Len(s) : t[k] = s[k]
    BY <1>1, <1>2, KeptBytes
  <1>7. checkPos \in buf.pos..buf.len /\ Decoded(s, buf.pos, checkPos)
    BY <1>3, <1>4 DEF Sought, Understood, Idle
  <1>8. checkPos' \in buf.pos..buf.len /\ Decoded(s, buf.pos, checkPos')
    <2>1. CASE ReadOn
      <3>1. PICK B : WellEncoded(needle, B)
        BY <1>4 DEF Sought
      <3>2. checkPos' = NextCheckPos
        BY <2>1 DEF ReadOn
      <3>. QED BY <1>4, <1>7, <3>1, <3>2, NextDecoded
    <2>2. CASE ~ReadOn
      <3>1. checkPos' = checkPos
        BY <2>2 DEF TextStep, Found, NotText, Reading, textVars
      <3>. QED BY <1>7, <3>1
    <2>. QED BY <2>1, <2>2
  <1> HIDE DEF s, t
  <1>9. Decoded(t, buf.pos, checkPos')
    BY <1>5, <1>6, <1>8, DecodedMore
  <1>. QED BY <1>5, <1>9 DEF t

(* The rejection itself. *)
LEMMA RejectsNonText ==
  ASSUME Legible, Sought, Understood, NotText
  PROVE  LET s == Bytes(buf)
             start == Min({buf.len} \cup {i \in buf.pos..(buf.len - 1) : s[i + 1] \notin 128..191})
         IN  IsInvalid(s, start)
  <1> DEFINE s == Bytes(buf)
             pos == buf.pos
             start == Min({buf.len} \cup {i \in pos..(buf.len - 1) : s[i + 1] \notin 128..191})
             from == Unchecked.from
             a == AlignPosToNextChar(s, pos, pos)
             U == {Len(s)} \cup {i \in pos..(Len(s) - 1) : ~IsContinuation(s[i + 1])}
  <1>1. /\ call.op = "fill_until_str" /\ call.pc = "check" /\ needle # <<>> /\ ~Unchecked.ok
    BY DEF NotText, Searching, IsText
  <1>2. /\ s \in Seq(0..255) /\ Len(s) = buf.len /\ pos \in Nat /\ pos <= buf.len /\ buf.len \in Nat
        /\ checkPos \in pos..buf.len /\ Decoded(s, pos, checkPos)
    BY <1>1 DEF Legible, Sought, Understood
  <1>3. Unchecked = AsStrFrom(s, pos, checkPos)
    BY DEF Unchecked
  <1>4. start = Min(U)
    BY <1>2 DEF IsContinuation
  <1> HIDE DEF s, start, a
  <1>5. pos \in 0..Len(s) /\ checkPos \in pos..Len(s)
    BY <1>2
  <1>6. /\ from \in checkPos..Len(s)
        /\ from < Len(s) => ~IsContinuation(s[from + 1])
        /\ \A i \in checkPos..(from - 1) : IsContinuation(s[i + 1])
    BY <1>2, <1>3, <1>5, DecodedFrom
  <1>7. IsInvalid(s, from)
    BY <1>1, <1>3 DEF AsStrFrom
  <1> HIDE DEF from
  <1>8. /\ a \in pos..Len(s) /\ (a < Len(s) => ~IsContinuation(s[a + 1]))
        /\ \A i \in pos..(a - 1) : IsContinuation(s[i + 1])
    BY <1>2, <1>5, NothingEncoded, SearchBegins DEF a
  <1>9. IsInvalid(s, a)
    BY <1>2, <1>5, <1>6, <1>7, <1>8, RejectsAll DEF CutOff
  <1>10. start = a
    <2>1. a \in Nat /\ Len(s) \in Nat /\ a <= Len(s)
      BY <1>2, <1>8
    <2>2. a \in U
      <3>1. a = Len(s) \/ a \in pos..(Len(s) - 1)
        BY <1>2, <1>8, <2>1
      <3>. QED BY <1>8, <2>1, <3>1
    <2>3. ASSUME NEW x \in U PROVE a <= x
      <3>1. CASE x = Len(s)
        BY <2>1, <3>1
      <3>2. CASE x \in pos..(Len(s) - 1) /\ ~IsContinuation(s[x + 1])
        <4>1. x \notin pos..(a - 1)
          BY <1>8, <3>2
        <4>. QED BY <1>2, <2>1, <3>2, <4>1
      <3>. QED BY <2>3, <3>1, <3>2
    <2>4. U \in SUBSET Int
      BY <1>2
    <2>5. Min(U) = a
      BY <2>2, <2>3, <2>4, MinIs
    <2>. QED BY <1>4, <2>5
  <1>. QED BY <1>9, <1>10 DEF s, start

(***************************************************************************)
(* A search fails for its text only when the unconsumed bytes really are   *)
(* no text, whatever the reads cut and however often the overlap of two    *)
(* checks is decoded again.                                                *)
(***************************************************************************)
THEOREM RejectsOnlyNonTextHolds == TextSpec => RejectsOnlyNonText
  <1>1. TextInit => Understood
    BY DEF TextInit, Init, NoCall, Understood
  <1>2. Inductive /\ Legible /\ Legible' /\ SearchTypes /\ Sought /\ Understood /\ [TextNext]_allVars
          => Understood'
    <2> SUFFICES ASSUME Inductive, Legible, Legible', SearchTypes, Sought, Understood,
                        [TextNext]_allVars
                 PROVE  Understood'
      OBVIOUS
    <2>1. CASE Client
      <3>1. needle' = <<>>
        BY <2>1 DEF Client
      <3>. QED BY <3>1 DEF Understood
    <2>2. CASE Search
      BY <2>2, SearchUnderstands
    <2>3. CASE TextStep
      BY <2>3, StepUnderstands
    <2>4. CASE UNCHANGED allVars
      <3>1. buf' = buf /\ call' = call /\ content' = content /\ needle' = needle /\ checkPos' = checkPos
        BY <2>4 DEF allVars, vars, textVars
      <3>2. Bytes(buf)' = Bytes(buf)
        BY <3>1 DEF Bytes
      <3>. QED BY <3>1, <3>2 DEF Understood
    <2>. QED BY <2>1, <2>2, <2>3, <2>4 DEF TextNext
  <1>3. Legible /\ Sought /\ Understood
          => [NotText => LET s == Bytes(buf)
                             start == Min({buf.len}
                                            \cup {i \in buf.pos..(buf.len - 1) : s[i + 1] \notin 128..191})
                         IN  IsInvalid(s, start)]_allVars
    BY RejectsNonText
  <1>4. TextSpec => [](Legible /\ Sought /\ Understood)
    BY <1>1, <1>2, SoughtHolds, PTL DEF TextSpec
  <1>. QED BY <1>3, <1>4, PTL DEF RejectsOnlyNonText
=============================================================================
