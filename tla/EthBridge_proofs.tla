--------------------------- MODULE EthBridge_proofs -------------------------
(***************************************************************************)
(* Theorems about the ethbridge module and its clients, for every set of   *)
(* validators, accounts, nonces and senders, every stake and proportion.   *)
(*                                                                         *)
(* A transaction is a sequence of messages that run on a copy of the       *)
(* chain.  What holds of the chain is first shown to survive one message   *)
(* (HandlerKeepsSound), then every sequence of them (TxKeeps: there is no  *)
(* first message at which it stops to hold), then every step.              *)
(*                                                                         *)
(* That queries tell about the lock they ask about, and no other, rests on *)
(* OneIdPerLock: an id is a number and an address run together, and they   *)
(* can be told apart.                                                      *)
(***************************************************************************)
EXTENDS Client, OracleKeeper_proofs, Sums_proofs, SequenceTheorems

-----------------------------------------------------------------------------
(* Ids.  Itoa is a recursive function: that it has digits only, and other   *)
(* digits for another number, holds because there is no least number of     *)
(* which it does not.                                                       *)

\* One step of the recursion of Itoa.
ItoaStep(g, n) ==
  IF n < 0 THEN <<"-">> \o g[-n]
  ELSE IF n < 10 THEN <<Digit[n + 1]>>
  ELSE g[n \div 10] \o <<Digit[(n % 10) + 1]>>

\* Ten times the tens of a number and its units make the number.
LEMMA TensAndUnits ==
  ASSUME NEW n \in Nat
  PROVE  /\ n \div 10 \in Nat /\ n % 10 \in 0..9 /\ n = 10 * (n \div 10) + (n % 10)
         /\ n >= 10 => n \div 10 < n /\ n \div 10 # 0
OBVIOUS

\* The recursion of Itoa has a solution: there is no least number whose digits
\* could not be written down.
LEMMA ItoaStepByStep == \A n \in Int : Itoa[n] = ItoaStep(Itoa, n)
<1> DEFINE rule(g, k) == [i \in 0..k |-> ItoaStep(g, i)]
           runs(k)    == \E g : g = rule(g, k)
           upTo(k)    == CHOOSE g : g = rule(g, k)
<1>1. ASSUME NEW k \in Nat, \A j \in Nat : j < k => runs(j)
      PROVE  runs(k)
  <2>1. CASE k = 0
    <3> DEFINE g == [i \in 0..0 |-> <<Digit[1]>>]
    <3>1. g = rule(g, 0)
      BY DEF ItoaStep
    <3> HIDE DEF rule
    <3> QED
      BY <2>1, <3>1
  <2>2. CASE k # 0
    <3>1. k - 1 \in Nat /\ k - 1 < k
      BY <2>2
    <3>2. PICK g : g = rule(g, k - 1)
      BY <1>1, <3>1
    <3> DEFINE h == rule(g, k)
    <3>3. \A i \in 0..k - 1 : h[i] = g[i]
      <4>1. \A i \in 0..k - 1 : rule(g, k - 1)[i] = rule(g, k)[i]
        BY <3>1
      <4> HIDE DEF rule
      <4> QED
        BY <3>2, <4>1
    <3>4. \A i \in 0..k : ItoaStep(h, i) = ItoaStep(g, i)
      <4> SUFFICES ASSUME NEW i \in 0..k PROVE ItoaStep(h, i) = ItoaStep(g, i)
        OBVIOUS
      <4>1. i \in Nat /\ (i >= 10 => i \div 10 \in 0..k - 1)
        BY TensAndUnits
      <4> HIDE DEF h
      <4> QED
        BY <3>3, <4>1 DEF ItoaStep
    <3>5. h = rule(h, k)
      BY <3>4
    <3> HIDE DEF rule, h
    <3> QED
      BY <3>5
  <2> QED
    BY <2>1, <2>2
<1>2. \A k \in Nat : runs(k)
  <2> DEFINE T == {k \in Nat : ~runs(k)}
  <2> SUFFICES ASSUME T # {} PROVE FALSE
    OBVIOUS
  <2>1. T \in SUBSET Nat
    OBVIOUS
  <2>2. PICK k \in T : \A j \in Nat : j < k => j \notin T
    <3> HIDE DEF T
    <3> QED
      BY <2>1, LeastNumber
  <2>3. k \in Nat /\ ~runs(k) /\ \A j \in Nat : j < k => runs(j)
    BY <2>2
  <2> HIDE DEF runs
  <2> QED
    BY <1>1, <2>3
<1>3. \A k \in Nat : \A i \in 0..k : upTo(k)[i] = ItoaStep(upTo(k), i)
  <2> SUFFICES ASSUME NEW k \in Nat, NEW i \in 0..k
               PROVE  upTo(k)[i] = ItoaStep(upTo(k), i)
    OBVIOUS
  <2> DEFINE g == upTo(k)
  <2>1. g = rule(g, k)
    <3> HIDE DEF rule
    <3> QED
      BY <1>2
  <2>2. rule(g, k)[i] = ItoaStep(g, i)
    OBVIOUS
  <2> HIDE DEF g, rule
  <2>3. g[i] = ItoaStep(g, i)
    BY <2>1, <2>2
  <2> QED
    BY <2>3 DEF g
<1> HIDE DEF upTo
<1>4. \A i \in Nat : \A k \in Nat : i <= k => upTo(k)[i] = upTo(i)[i]
  <2> DEFINE T == {i \in Nat : \E k \in Nat : i <= k /\ upTo(k)[i] # upTo(i)[i]}
  <2> SUFFICES ASSUME T # {} PROVE FALSE
    OBVIOUS
  <2>1. T \in SUBSET Nat
    OBVIOUS
  <2>2. PICK i \in T : \A j \in Nat : j < i => j \notin T
    <3> HIDE DEF T
    <3> QED
      BY <2>1, LeastNumber
  <2>3. PICK k \in Nat : i <= k /\ upTo(k)[i] # upTo(i)[i]
    OBVIOUS
  <2>4. i \in Nat /\ i \in 0..k /\ i \in 0..i
    BY <2>3
  <2>5. upTo(k)[i] = ItoaStep(upTo(k), i) /\ upTo(i)[i] = ItoaStep(upTo(i), i)
    BY <1>3, <2>4
  <2>6. i >= 10 => upTo(k)[i \div 10] = upTo(i)[i \div 10]
    <3> SUFFICES ASSUME i >= 10 PROVE upTo(k)[i \div 10] = upTo(i)[i \div 10]
      OBVIOUS
    <3> DEFINE j == i \div 10
    <3>1. j \in Nat /\ j < i /\ j <= k
      BY <2>4, TensAndUnits
    <3>2. j \notin T
      BY <2>2, <3>1
    <3>3. upTo(k)[j] = upTo(j)[j] /\ upTo(i)[j] = upTo(j)[j]
      BY <2>4, <3>1, <3>2
    <3> QED
      BY <3>3
  <2>7. ItoaStep(upTo(k), i) = ItoaStep(upTo(i), i)
    BY <2>4, <2>6 DEF ItoaStep
  <2> QED
    BY <2>3, <2>5, <2>7
<1> DEFINE all == [n \in Int |-> IF n >= 0 THEN upTo(n)[n] ELSE <<"-">> \o upTo(-n)[-n]]
<1>5. \A n \in Int : all[n] = ItoaStep(all, n)
  <2> SUFFICES ASSUME NEW n \in Int PROVE all[n] = ItoaStep(all, n)
    OBVIOUS
  <2>1. /\ \A m \in Nat : all[m] = upTo(m)[m]
        /\ \A m \in Int : m < 0 => all[m] = <<"-">> \o upTo(-m)[-m]
    OBVIOUS
  <2> HIDE DEF all
  <2>2. CASE n < 0
    <3>1. -n \in Nat
      BY <2>2
    <3>2. all[-n] = upTo(-n)[-n]
      BY <2>1, <3>1
    <3> QED
      BY <2>1, <2>2, <3>2 DEF ItoaStep
  <2>3. CASE n >= 0
    <3>1. n \in Nat /\ n \in 0..n
      BY <2>3
    <3>2. all[n] = ItoaStep(upTo(n), n)
      BY <1>3, <2>1, <3>1
    <3>3. n >= 10 => upTo(n)[n \div 10] = all[n \div 10]
      <4> SUFFICES ASSUME n >= 10 PROVE upTo(n)[n \div 10] = all[n \div 10]
        OBVIOUS
      <4> DEFINE j == n \div 10
      <4>1. j \in Nat /\ j <= n
        BY <3>1, TensAndUnits
      <4> HIDE DEF j
      <4>2. upTo(n)[j] = all[j]
        BY <1>4, <2>1, <3>1, <4>1
      <4> QED
        BY <4>2 DEF j
    <3>4. ItoaStep(upTo(n), n) = ItoaStep(all, n)
      BY <2>3, <3>3 DEF ItoaStep
    <3> QED
      BY <3>2, <3>4
  <2> QED
    BY <2>2, <2>3
<1>6. all = [n \in Int |-> ItoaStep(all, n)]
  BY <1>5
<1> DEFINE good(g) == g = [n \in Int |-> ItoaStep(g, n)]
<1>7. Itoa = CHOOSE g : good(g)
  BY DEF Itoa, ItoaStep
<1>8. good(Itoa)
  <2>1. \E g : good(g)
    BY <1>6
  <2> HIDE DEF good
  <2> QED
    BY <1>7, <2>1
<1> QED
  <2> DEFINE val(n) == ItoaStep(Itoa, n)
  <2>1. Itoa = [n \in Int |-> val(n)]
    BY <1>8
  <2> HIDE DEF val
  <2>2. \A n \in Int : Itoa[n] = val(n)
    BY <2>1
  <2> QED
    BY <2>2 DEF val

\* The characters a number is written with.
Numerals == {Digit[i] : i \in 1..10}

\* The digits are different characters, and none of them is a sign or an x.
LEMMA DigitCharacters ==
  /\ \A i \in 1..10 : Digit[i] # "-" /\ Digit[i] # "x" /\ Digit[i] # "X"
  /\ \A i, j \in 1..10 : Digit[i] = Digit[j] => i = j
<1>1. /\ Digit[1] = "0" /\ Digit[2] = "1" /\ Digit[3] = "2" /\ Digit[4] = "3" /\ Digit[5] = "4"
      /\ Digit[6] = "5" /\ Digit[7] = "6" /\ Digit[8] = "7" /\ Digit[9] = "8" /\ Digit[10] = "9"
  BY DEF Digit
<1>2. \A i \in 1..10 : i = 1 \/ i = 2 \/ i = 3 \/ i = 4 \/ i = 5 \/ i = 6 \/ i = 7 \/ i = 8 \/ i = 9 \/ i = 10
  OBVIOUS
<1>3. \A i \in 1..10 : Digit[i] # "-" /\ Digit[i] # "x" /\ Digit[i] # "X"
  BY <1>1, <1>2
<1>4. \A i, j \in 1..10 : Digit[i] = Digit[j] => i = j
  BY <1>1, <1>2
<1> QED
  BY <1>3, <1>4

\* The digits of a number, one after the other.
LEMMA ItoaDigits ==
  ASSUME NEW n \in Nat
  PROVE  /\ n < 10 => Itoa[n] = <<Digit[n + 1]>> /\ n + 1 \in 1..10
         /\ n >= 10 => Itoa[n] = Itoa[n \div 10] \o <<Digit[(n % 10) + 1]>> /\ (n % 10) + 1 \in 1..10
<1>1. Itoa[n] = ItoaStep(Itoa, n)
  BY ItoaStepByStep
<1>2. (n % 10) + 1 \in 1..10
  BY TensAndUnits
<1> QED
  BY <1>1, <1>2 DEF ItoaStep

\* A natural number is written with one digit at least, and with digits only.
LEMMA ItoaIsDigits ==
  ASSUME NEW n \in Nat
  PROVE  Itoa[n] \in Seq(Numerals) /\ Len(Itoa[n]) \in Nat \ {0}
<1> DEFINE good(k) == Itoa[k] \in Seq(Numerals) /\ Len(Itoa[k]) \in Nat \ {0}
           T       == {k \in Nat : ~good(k)}
<1> SUFFICES ASSUME T # {} PROVE FALSE
  OBVIOUS
<1>1. T \in SUBSET Nat
  OBVIOUS
<1>2. PICK k \in T : \A j \in Nat : j < k => j \notin T
  <2> HIDE DEF T
  <2> QED
    BY <1>1, LeastNumber
<1>3. k \in Nat /\ ~good(k) /\ \A j \in Nat : j < k => good(j)
  BY <1>2
<1>4. good(k)
  <2>1. CASE k < 10
    <3>1. Itoa[k] = <<Digit[k + 1]>> /\ Digit[k + 1] \in Numerals
      BY <1>3, <2>1, ItoaDigits DEF Numerals
    <3> QED
      BY <3>1
  <2>2. CASE k >= 10
    <3> DEFINE s == Itoa[k \div 10]
               d == Digit[(k % 10) + 1]
    <3>1. Itoa[k] = s \o <<d>> /\ d \in Numerals
      BY <1>3, <2>2, ItoaDigits DEF Numerals
    <3>2. s \in Seq(Numerals) /\ Len(s) \in Nat \ {0}
      BY <1>3, <2>2, TensAndUnits
    <3> HIDE DEF s, d
    <3>3. <<d>> \in Seq(Numerals) /\ Len(<<d>>) = 1
      BY <3>1
    <3>4. s \o <<d>> \in Seq(Numerals) /\ Len(s \o <<d>>) = Len(s) + 1
      BY <3>2, <3>3, ConcatProperties
    <3> QED
      BY <3>1, <3>2, <3>4
  <2> QED
    BY <1>3, <2>1, <2>2
<1> HIDE DEF good
<1> QED
  BY <1>3, <1>4

\* Two numbers are not written alike.
LEMMA ItoaIsInjective ==
  ASSUME NEW m \in Nat, NEW n \in Nat, Itoa[m] = Itoa[n]
  PROVE  m = n
<1> DEFINE good(k) == \A j \in Nat : Itoa[k] = Itoa[j] => k = j
           T       == {k \in Nat : ~good(k)}
<1> SUFFICES ASSUME T # {} PROVE FALSE
  OBVIOUS
<1>1. T \in SUBSET Nat
  OBVIOUS
<1>2. PICK k \in T : \A j \in Nat : j < k => j \notin T
  <2> HIDE DEF T
  <2> QED
    BY <1>1, LeastNumber
<1>3. k \in Nat /\ ~good(k) /\ \A j \in Nat : j < k => good(j)
  BY <1>2
<1>4. PICK j \in Nat : Itoa[k] = Itoa[j] /\ k # j
  BY <1>3
<1>5. \A i \in Nat : i >= 10 => Len(Itoa[i]) >= 2
  <2> SUFFICES ASSUME NEW i \in Nat, i >= 10 PROVE Len(Itoa[i]) >= 2
    OBVIOUS
  <2> DEFINE s == Itoa[i \div 10]
             d == Digit[(i % 10) + 1]
  <2>1. Itoa[i] = s \o <<d>> /\ d \in Numerals
    BY ItoaDigits DEF Numerals
  <2>2. s \in Seq(Numerals) /\ Len(s) \in Nat \ {0}
    BY TensAndUnits, ItoaIsDigits
  <2> HIDE DEF s, d
  <2>3. <<d>> \in Seq(Numerals) /\ Len(<<d>>) = 1
    BY <2>1
  <2>4. Len(s \o <<d>>) = Len(s) + 1
    BY <2>2, <2>3, ConcatProperties
  <2> QED
    BY <2>1, <2>2, <2>4
<1>6. \A i \in Nat : i < 10 => Len(Itoa[i]) = 1
  <2>1. \A d : Len(<<d>>) = 1
    OBVIOUS
  <2> QED
    BY <2>1, ItoaDigits
<1>7. CASE k < 10
  <2>1. j < 10
    <3>1. Len(Itoa[k]) = 1 /\ Len(Itoa[j]) = 1
      BY <1>3, <1>4, <1>6, <1>7
    <3>2. j >= 10 => Len(Itoa[j]) >= 2
      BY <1>4, <1>5
    <3> QED
      BY <1>4, <3>1, <3>2
  <2>2. <<Digit[k + 1]>> = <<Digit[j + 1]>> /\ k + 1 \in 1..10 /\ j + 1 \in 1..10
    <3>1. Itoa[k] = <<Digit[k + 1]>> /\ k + 1 \in 1..10
      BY <1>3, <1>7, ItoaDigits
    <3>2. Itoa[j] = <<Digit[j + 1]>> /\ j + 1 \in 1..10
      BY <1>4, <2>1, ItoaDigits
    <3> QED
      BY <1>4, <3>1, <3>2
  <2>3. k + 1 = j + 1
    <3>1. Digit[k + 1] = Digit[j + 1]
      BY <2>2
    <3> QED
      BY <2>2, <3>1, DigitCharacters
  <2> QED
    BY <1>4, <2>3
<1>8. CASE k >= 10
  <2>1. j >= 10
    <3>1. Len(Itoa[k]) >= 2
      BY <1>3, <1>5, <1>8
    <3>2. j < 10 => Len(Itoa[k]) = 1
      BY <1>4, <1>6
    <3> QED
      BY <1>4, <3>1, <3>2
  <2> DEFINE s == Itoa[k \div 10]
             d == Digit[(k % 10) + 1]
             t == Itoa[j \div 10]
             e == Digit[(j % 10) + 1]
  <2>2. s \o <<d>> = t \o <<e>> /\ d \in Numerals /\ e \in Numerals
    BY <1>4, <1>8, <2>1, ItoaDigits DEF Numerals
  <2>3. s \in Seq(Numerals) /\ t \in Seq(Numerals)
    BY TensAndUnits, ItoaIsDigits
  <2>4. s = t /\ d = e
    <3> HIDE DEF s, d, t, e
    <3>1. <<d>> \in Seq(Numerals) /\ Len(<<d>>) = 1 /\ <<e>> \in Seq(Numerals) /\ Len(<<e>>) = 1
      BY <2>2
    <3>2. Append(s, d) = s \o <<d>> /\ Append(t, e) = t \o <<e>>
      BY <2>2, <2>3, AppendIsConcat
    <3>3. Append(s, d) = Append(t, e)
      BY <2>2, <3>2
    <3> QED
      BY <2>2, <2>3, <3>3, AppendInjective
  <2>5. k \div 10 = j \div 10
    BY <1>3, <1>8, <2>4, TensAndUnits
  <2>6. (k % 10) + 1 = (j % 10) + 1
    BY <1>8, <2>1, <2>4, ItoaDigits, DigitCharacters
  <2> QED
    BY <1>4, <2>5, <2>6, TensAndUnits
<1> QED
  BY <1>3, <1>7, <1>8

\* An address has as many characters as it has digits, or two more, and then the
\* second is an x.
LEMMA AddressShape ==
  ASSUME NEW s \in EthAddresses
  PROVE  /\ s \in Seq(STRING)
         /\ Len(s) = AddressLength \/ (Len(s) = AddressLength + 2 /\ s[2] \in {"x", "X"})
<1>1. s \in Seq(STRING) /\ Len(HexPart(s)) = AddressLength /\ Len(s) \in Nat
  BY AddressAssumption DEF EthAddresses, IsValidEthAddress
<1>2. CASE Len(s) >= 2 /\ s[1] = "0" /\ s[2] \in {"x", "X"}
  <2>1. HexPart(s) = SubSeq(s, 3, Len(s))
    BY <1>2 DEF HexPart
  <2>2. \A i \in 3..Len(s) : s[i] \in STRING
    BY <1>1, ElementOfSeq
  <2>3. Len(SubSeq(s, 3, Len(s))) = IF 3 <= Len(s) THEN Len(s) - 3 + 1 ELSE 0
    BY <1>1, <2>2, SubSeqProperties
  <2> QED
    BY <1>1, <1>2, <2>1, <2>3, AddressAssumption
<1>3. CASE ~(Len(s) >= 2 /\ s[1] = "0" /\ s[2] \in {"x", "X"})
  <2>1. HexPart(s) = s
    BY <1>3 DEF HexPart
  <2> QED
    BY <1>1, <2>1
<1> QED
  BY <1>2, <1>3

\* The characters of an id.
LEMMA IdCharacters ==
  ASSUME NEW n \in Nat, NEW s \in EthAddresses
  PROVE  LET id == Itoa[n] \o s
             k  == Len(Itoa[n])
         IN /\ k \in Nat \ {0} /\ Len(s) \in Nat /\ Len(id) = k + Len(s)
            /\ \A i \in 1..k : id[i] = Itoa[n][i] /\ Itoa[n][i] \in Numerals
            /\ \A i \in 1..Len(s) : id[k + i] = s[i]
<1> DEFINE S == Numerals \cup STRING
           d == Itoa[n]
<1>1. d \in Seq(Numerals) /\ Len(d) \in Nat \ {0} /\ s \in Seq(STRING) /\ Len(s) \in Nat
  BY ItoaIsDigits, AddressShape
<1>2. d \in Seq(S) /\ s \in Seq(S)
  BY <1>1, SeqMonotonic
<1>3. \A i \in 1..Len(d) : d[i] \in Numerals
  BY <1>1, ElementOfSeq
<1> HIDE DEF S, d
<1>4. /\ Len(d \o s) = Len(d) + Len(s)
      /\ \A i \in 1..Len(d) + Len(s) : (d \o s)[i] = IF i <= Len(d) THEN d[i] ELSE s[i - Len(d)]
  BY <1>2, ConcatProperties
<1>5. \A i \in 1..Len(d) : (d \o s)[i] = d[i]
  BY <1>1, <1>4
<1>6. \A i \in 1..Len(s) : (d \o s)[Len(d) + i] = s[i]
  <2> SUFFICES ASSUME NEW i \in 1..Len(s) PROVE (d \o s)[Len(d) + i] = s[i]
    OBVIOUS
  <2>1. Len(d) + i \in 1..Len(d) + Len(s) /\ ~(Len(d) + i <= Len(d)) /\ (Len(d) + i) - Len(d) = i
    BY <1>1
  <2> QED
    BY <1>4, <2>1
<1> QED
  BY <1>1, <1>3, <1>4, <1>5, <1>6 DEF d

\* Two ids of the same number of digits before the address.
LEMMA SplitAlike ==
  ASSUME NEW m \in Nat, NEW n \in Nat, NEW s \in EthAddresses, NEW t \in EthAddresses,
         Itoa[m] \o s = Itoa[n] \o t, Len(Itoa[m]) = Len(Itoa[n])
  PROVE  m = n /\ s = t
<1> DEFINE d == Itoa[m]
           e == Itoa[n]
           x == d \o s
           y == e \o t
<1>1. /\ Len(d) \in Nat \ {0} /\ Len(s) \in Nat /\ Len(x) = Len(d) + Len(s)
      /\ \A i \in 1..Len(d) : x[i] = d[i]
      /\ \A i \in 1..Len(s) : x[Len(d) + i] = s[i]
  BY IdCharacters
<1>2. /\ Len(t) \in Nat /\ Len(y) = Len(e) + Len(t)
      /\ \A i \in 1..Len(e) : y[i] = e[i]
      /\ \A i \in 1..Len(t) : y[Len(e) + i] = t[i]
  BY IdCharacters
<1>3. d \in Seq(Numerals) /\ e \in Seq(Numerals) /\ s \in Seq(STRING) /\ t \in Seq(STRING)
  BY ItoaIsDigits, AddressShape
<1>4. x = y /\ Len(d) = Len(e)
  OBVIOUS
<1> HIDE DEF d, e, x, y
<1>5. Len(s) = Len(t)
  BY <1>1, <1>2, <1>4
<1>6. d = e
  <2>1. \A i \in 1..Len(d) : d[i] = e[i]
    BY <1>1, <1>2, <1>4
  <2> QED
    BY <1>3, <1>4, <2>1, SeqEqual
<1>7. s = t
  <2>1. \A i \in 1..Len(s) : s[i] = t[i]
    BY <1>1, <1>2, <1>4, <1>5
  <2> QED
    BY <1>3, <1>5, <2>1, SeqEqual
<1>8. m = n
  BY <1>6, ItoaIsInjective DEF d, e
<1> QED
  BY <1>7, <1>8

\* An id with a longer address cannot be one with a shorter address: its x would
\* be a digit of the other nonce.
LEMMA NoDigitIsX ==
  ASSUME NEW m \in Nat, NEW n \in Nat, NEW s \in EthAddresses, NEW t \in EthAddresses,
         Itoa[m] \o s = Itoa[n] \o t, Len(s) = AddressLength + 2, Len(t) = AddressLength,
         s[2] \in {"x", "X"}
  PROVE  FALSE
<1> DEFINE d == Itoa[m]
           e == Itoa[n]
           x == d \o s
           y == e \o t
<1>1. /\ Len(d) \in Nat \ {0} /\ Len(x) = Len(d) + Len(s)
      /\ \A i \in 1..Len(s) : x[Len(d) + i] = s[i]
  BY IdCharacters
<1>2. /\ Len(e) \in Nat \ {0} /\ Len(y) = Len(e) + Len(t)
      /\ \A i \in 1..Len(e) : y[i] = e[i] /\ e[i] \in Numerals
  BY IdCharacters
<1>3. x = y
  OBVIOUS
<1> HIDE DEF d, e, x, y
<1>4. Len(e) = Len(d) + 2 /\ 2 \in 1..Len(s) /\ Len(d) + 2 \in 1..Len(e)
  BY <1>1, <1>2, <1>3, AddressAssumption
<1>5. s[2] \in Numerals
  BY <1>1, <1>2, <1>3, <1>4
<1> QED
  BY <1>5, DigitCharacters DEF Numerals

SameId(m, s, n, t) == Itoa[m] \o s = Itoa[n] \o t

\* The id tells the nonce and the address apart, although it runs them together.
LEMMA OneIdPerLock ==
  ASSUME NEW m \in Nat, NEW n \in Nat, NEW s \in EthAddresses, NEW t \in EthAddresses,
         SameId(m, s, n, t)
  PROVE  m = n /\ s = t
<1>0. Itoa[m] \o s = Itoa[n] \o t
  BY DEF SameId
<1>1. /\ Len(s) = AddressLength \/ (Len(s) = AddressLength + 2 /\ s[2] \in {"x", "X"})
      /\ Len(t) = AddressLength \/ (Len(t) = AddressLength + 2 /\ t[2] \in {"x", "X"})
  BY AddressShape
<1>2. CASE Len(s) = Len(t)
  <2>1. /\ Len(Itoa[m]) \in Nat /\ Len(s) \in Nat
        /\ Len(Itoa[m] \o s) = Len(Itoa[m]) + Len(s)
    BY IdCharacters
  <2>2. Len(Itoa[n]) \in Nat /\ Len(Itoa[n] \o t) = Len(Itoa[n]) + Len(t)
    BY IdCharacters
  <2>3. Len(Itoa[m]) = Len(Itoa[n])
    BY <1>0, <1>2, <2>1, <2>2
  <2> QED
    BY <1>0, <2>3, SplitAlike
<1>3. CASE Len(s) # Len(t)
  <2>1. Itoa[n] \o t = Itoa[m] \o s
    BY <1>0
  <2>2. CASE Len(s) = AddressLength /\ Len(t) = AddressLength + 2 /\ t[2] \in {"x", "X"}
    BY <2>1, <2>2, NoDigitIsX, Zenon
  <2>3. CASE Len(t) = AddressLength /\ Len(s) = AddressLength + 2 /\ s[2] \in {"x", "X"}
    BY <1>0, <2>3, NoDigitIsX, Zenon
  <2> QED
    BY <1>1, <1>3, <2>2, <2>3
<1> QED
  BY <1>2, <1>3

\* No lock has the id of a negative nonce: it would begin with a sign.
LEMMA NoIdHasSign ==
  ASSUME NEW n \in Int, n < 0, NEW m \in Nat, NEW s \in EthAddresses, NEW t \in EthAddresses
  PROVE  Itoa[n] \o s # Itoa[m] \o t
<1> SUFFICES ASSUME Itoa[n] \o s = Itoa[m] \o t PROVE FALSE
  OBVIOUS
<1> DEFINE k == -n
           d == Itoa[k]
           S == Numerals \cup {"-"} \cup STRING
<1>1. k \in Nat
  OBVIOUS
<1>2. Itoa[n] = <<"-">> \o d
  BY ItoaStepByStep DEF ItoaStep
<1>3. /\ d \in Seq(S) /\ s \in Seq(S) /\ <<"-">> \in Seq(S) /\ Len(<<"-">>) = 1
      /\ Len(d) \in Nat /\ Len(s) \in Nat
  <2>1. d \in Seq(Numerals) /\ s \in Seq(STRING) /\ Len(d) \in Nat /\ Len(s) \in Nat
    BY <1>1, ItoaIsDigits, AddressShape
  <2>2. d \in Seq(S) /\ s \in Seq(S)
    BY <2>1, SeqMonotonic
  <2>3. "-" \in S
    OBVIOUS
  <2> HIDE DEF S
  <2> QED
    BY <2>1, <2>2, <2>3
<1> HIDE DEF S, d
<1>4. /\ <<"-">> \o d \in Seq(S) /\ Len(<<"-">> \o d) = 1 + Len(d)
      /\ (<<"-">> \o d)[1] = "-"
  <2>1. \A i \in 1..1 + Len(d) : (<<"-">> \o d)[i] = IF i <= 1 THEN <<"-">>[i] ELSE d[i - 1]
    BY <1>3, ConcatProperties
  <2>2. 1 \in 1..1 + Len(d) /\ <<"-">>[1] = "-"
    BY <1>3
  <2>3. (<<"-">> \o d)[1] = "-"
    BY <2>1, <2>2
  <2> QED
    BY <1>3, <2>3, ConcatProperties
<1> DEFINE a == <<"-">> \o d
<1>5. (a \o s)[1] = "-"
  <2>1. a \in Seq(S) /\ Len(a) = 1 + Len(d) /\ a[1] = "-"
    BY <1>4
  <2> HIDE DEF a
  <2>2. \A i \in 1..Len(a) + Len(s) : (a \o s)[i] = IF i <= Len(a) THEN a[i] ELSE s[i - Len(a)]
    BY <1>3, <2>1, ConcatProperties
  <2>3. 1 \in 1..Len(a) + Len(s) /\ 1 <= Len(a)
    BY <1>3, <2>1
  <2> QED
    BY <2>1, <2>2, <2>3
<1>6. (Itoa[m] \o t)[1] \in Numerals
  <2>1. /\ Len(Itoa[m]) \in Nat \ {0}
        /\ \A i \in 1..Len(Itoa[m]) : (Itoa[m] \o t)[i] = Itoa[m][i] /\ Itoa[m][i] \in Numerals
    BY IdCharacters
  <2>2. 1 \in 1..Len(Itoa[m])
    BY <2>1
  <2> QED
    BY <2>1, <2>2
<1>7. "-" \in Numerals
  BY <1>2, <1>5, <1>6
<1> QED
  BY <1>7, DigitCharacters DEF Numerals
-----------------------------------------------------------------------------
(* Transactions.                                                            *)

\* The states a message leads to from any of a set of states.
StatesAfter(X, m) == UNION {handleMsgMakeEthBridgeClaim(s, m) : s \in X}

\* The recursion of TxOutcomes has a solution: there is no first message beyond
\* which it could not be continued.
LEMMA TxOutcomesStepByStep ==
  ASSUME NEW msgs, Len(msgs) \in Nat
  PROVE  \E after :
           /\ after = [i \in 0..Len(msgs) |->
                         IF i = 0 THEN {ChainState} ELSE StatesAfter(after[i - 1], msgs[i])]
           /\ TxOutcomes(msgs) = after[Len(msgs)]
<1> DEFINE n          == Len(msgs)
           rule(g, k) == [i \in 0..k |->
                            IF i = 0 THEN {ChainState} ELSE StatesAfter(g[i - 1], msgs[i])]
           runs(k)    == \E g : g = rule(g, k)
           after      == CHOOSE g : g = rule(g, n)
<1>1. ASSUME NEW k \in Nat, \A j \in 0..k - 1 : runs(j)
      PROVE  runs(k)
  <2>1. CASE k = 0
    <3> DEFINE g == [i \in 0..0 |-> {ChainState}]
    <3>1. g = rule(g, 0)
      OBVIOUS
    <3> HIDE DEF rule
    <3> QED
      BY <2>1, <3>1
  <2>2. CASE k # 0
    <3>1. k - 1 \in Nat /\ k - 1 \in 0..k - 1
      BY <2>2
    <3>2. PICK g : g = rule(g, k - 1)
      BY <1>1, <3>1
    <3> DEFINE h == rule(g, k)
    <3>3. \A i \in 0..k - 1 : h[i] = g[i]
      <4>1. \A i \in 0..k - 1 : rule(g, k - 1)[i] = rule(g, k)[i]
        BY <3>1
      <4> HIDE DEF rule
      <4> QED
        BY <3>2, <4>1
    <3>4. \A i \in 0..k : i # 0 => h[i - 1] = g[i - 1]
      <4>1. \A i \in 0..k : i # 0 => i - 1 \in 0..k - 1
        BY <3>1
      <4> HIDE DEF h
      <4> QED
        BY <3>3, <4>1
    <3>5. h = rule(h, k)
      BY <3>4
    <3> HIDE DEF rule, h
    <3> QED
      BY <3>5
  <2> QED
    BY <2>1, <2>2
<1>2. runs(n)
  <2> DEFINE T == {k \in Nat : ~runs(k)}
  <2> SUFFICES ASSUME T # {} PROVE FALSE
    OBVIOUS
  <2>1. T \in SUBSET Nat
    OBVIOUS
  <2>2. PICK k \in T : \A j \in Nat : j < k => j \notin T
    <3> HIDE DEF T
    <3> QED
      BY <2>1, LeastNumber
  <2>3. k \in Nat /\ ~runs(k)
    OBVIOUS
  <2>4. \A j \in 0..k - 1 : j \in Nat /\ j < k
    BY <2>3
  <2> HIDE DEF runs
  <2>5. \A j \in 0..k - 1 : runs(j)
    BY <2>2, <2>4
  <2> QED
    BY <1>1, <2>3, <2>5
<1>3. after = rule(after, n)
  <2> HIDE DEF rule
  <2> QED
    BY <1>2
<1>4. TxOutcomes(msgs) = after[n]
  BY DEF TxOutcomes, StatesAfter
<1> QED
  BY <1>3, <1>4

\* What the chain is before a transaction and every message preserves, it is
\* after the transaction.
LEMMA TxKeeps ==
  ASSUME NEW msgs, Len(msgs) \in Nat, NEW Good, ChainState \in Good,
         \A i \in 1..Len(msgs) : \A s \in Good : handleMsgMakeEthBridgeClaim(s, msgs[i]) \subseteq Good
  PROVE  TxOutcomes(msgs) \subseteq Good
<1> DEFINE n == Len(msgs)
<1>1. PICK after :
        /\ after = [i \in 0..n |->
                      IF i = 0 THEN {ChainState} ELSE StatesAfter(after[i - 1], msgs[i])]
        /\ TxOutcomes(msgs) = after[n]
  BY TxOutcomesStepByStep
<1>2. \A i \in 0..n : after[i] = IF i = 0 THEN {ChainState} ELSE StatesAfter(after[i - 1], msgs[i])
  <2> DEFINE val(i) == IF i = 0 THEN {ChainState} ELSE StatesAfter(after[i - 1], msgs[i])
  <2>1. after = [i \in 0..n |-> val(i)]
    BY <1>1
  <2> HIDE DEF val
  <2>2. \A i \in 0..n : after[i] = val(i)
    BY <2>1
  <2> QED
    BY <2>2 DEF val
<1>3. \A i \in 0..n : after[i] \subseteq Good
  <2> DEFINE T == {i \in Nat : i <= n /\ ~(after[i] \subseteq Good)}
  <2> SUFFICES ASSUME T # {} PROVE FALSE
    OBVIOUS
  <2>1. T \in SUBSET Nat
    OBVIOUS
  <2>2. PICK k \in T : \A j \in Nat : j < k => j \notin T
    <3> HIDE DEF T
    <3> QED
      BY <2>1, LeastNumber
  <2>3. k \in Nat /\ k <= n /\ ~(after[k] \subseteq Good)
    OBVIOUS
  <2>4. k \in 0..n /\ k # 0
    BY <1>2, <2>3
  <2>5. k - 1 \in Nat /\ k - 1 <= n /\ k - 1 < k /\ k \in 1..n
    BY <2>3, <2>4
  <2>6. after[k - 1] \subseteq Good
    BY <2>2, <2>5
  <2>7. StatesAfter(after[k - 1], msgs[k]) \subseteq Good
    BY <2>5, <2>6 DEF StatesAfter
  <2> QED
    BY <1>2, <2>3, <2>4, <2>7
<1> QED
  BY <1>1, <1>3

-----------------------------------------------------------------------------
(* One message.                                                             *)

\* The states of the chain, as the handler sees them.
ChainStates ==
  [store : UNION {[D -> Prophecies] : D \in SUBSET Ids}, balances : [Accounts -> Nat],
   credits : [Ids -> Nat], delivered : SUBSET Messages]

IsVotedFor(p) == \E v \in Validators : p.validatorClaims[v] = p.finalClaim

\* What TypeOK and LedgersAgree say of the store, and that a success names a
\* claim that somebody made and that could be paid.
Payable(p) ==
  p.statusText = SuccessStatusText =>
    /\ p.finalClaim \in Claims /\ p.finalClaim.amount \in Nat
    /\ IsVotedFor(p)

StoreIsSound(st) ==
  /\ IsFiniteSet(DOMAIN st)
  /\ \A id \in DOMAIN st : IndexesAgree(st[id]) /\ Payable(st[id])

\* BalancesAreVerdicts, of any state of the chain.
SucceededIn(st) == {id \in DOMAIN st : st[id].statusText = SuccessStatusText}
AmountsIn(st)   == [id \in SucceededIn(st) |-> st[id].finalClaim.amount]
PaidTo(st, a)   == {id \in SucceededIn(st) : st[id].finalClaim.cosmos_receiver = a}
IsPaidUp(s)     == \A a \in Accounts :
                     s.balances[a] = SumFunctionOnSet(AmountsIn(s.store), PaidTo(s.store, a))

\* PaidOnSuccessOnly, between two states of the chain; and no success is undone.
PaidBetween(r, s) ==
  /\ SucceededIn(r.store) \subseteq SucceededIn(s.store)
  /\ \A id \in Ids :
       s.credits[id] = r.credits[id] +
         IF id \in SucceededIn(s.store) /\ id \notin SucceededIn(r.store) THEN 1 ELSE 0

Sound == {s \in ChainStates : StoreIsSound(s.store) /\ IsPaidUp(s)}

\* The votes in the store are the messages that went through.
IsReported(s) ==
  /\ \A m \in s.delivered :
       /\ ValidateBasic(m)
       /\ oracleId(m) \in DOMAIN s.store
       /\ s.store[oracleId(m)].validatorClaims[m.validator] = oracleClaim(m)
  /\ \A id \in DOMAIN s.store : \A v \in Validators :
       s.store[id].validatorClaims[v] # EmptyString =>
         \E m \in s.delivered : oracleId(m) = id /\ m.validator = v

\* What the checks of a message establish.
LEMMA ValidParts ==
  ASSUME NEW m \in Messages, ValidateBasic(m)
  PROVE  /\ m.nonce \in Nonces /\ m.nonce \in Nat
         /\ m.ethereum_sender \in EthAddresses
         /\ m.cosmos_receiver \in Accounts /\ m.amount \in Amounts /\ m.validator \in Validators
<1>1. m.nonce \in Nonces
  BY NonceAssumption DEF ValidateBasic, Messages
<1>2. m.nonce \in Nat
  BY <1>1, NonceAssumption
<1>3. m.ethereum_sender \in EthAddresses
  BY DEF ValidateBasic, EthAddresses, Messages
<1>4. m.cosmos_receiver \in Accounts /\ m.amount \in Amounts /\ m.validator \in Validators
  BY DEF ValidateBasic, Messages
<1> QED
  BY <1>1, <1>2, <1>3, <1>4

\* A message that passes the checks is about a lock and a payment the module
\* knows.
LEMMA ValidMessage ==
  ASSUME NEW m \in Messages, ValidateBasic(m)
  PROVE  oracleId(m) \in Ids /\ oracleClaim(m) \in Claims /\ m.validator \in Validators
<1>1. m.nonce \in Nonces
  BY ValidParts
<1>2. m.ethereum_sender \in EthAddresses
  BY ValidParts
<1>3. m.cosmos_receiver \in Accounts /\ m.amount \in Amounts /\ m.validator \in Validators
  BY ValidParts
<1>4. oracleId(m) \in Ids
  <2> DEFINE n == m.nonce
             a == m.ethereum_sender
             S == {Itoa[k] \o b : k \in Nonces, b \in EthAddresses}
  <2>1. n \in Nonces /\ a \in EthAddresses
    BY <1>1, <1>2
  <2>2. Ids = S /\ oracleId(m) = Itoa[n] \o a
    BY EncodingAssumption DEF oracleId
  <2>3. \A x : x \in S <=> \E k \in Nonces, b \in EthAddresses : x = Itoa[k] \o b
    OBVIOUS
  <2> HIDE DEF n, a, S
  <2>4. \E k \in Nonces, b \in EthAddresses : Itoa[n] \o a = Itoa[k] \o b
    BY <2>1, Zenon
  <2>5. Itoa[n] \o a \in S
    BY <2>3, <2>4, Zenon
  <2> QED
    BY <2>2, <2>5, Zenon
<1>5. oracleClaim(m) \in Claims
  BY <1>3, EncodingAssumption DEF oracleClaim
<1> QED
  BY <1>3, <1>4, <1>5

\* What the oracle does with an accepted claim, on any store.
LEMMA AcceptedClaim ==
  ASSUME NEW D \in SUBSET Ids, NEW st \in [D -> Prophecies], StoreIsSound(st),
         NEW id \in Ids, NEW v \in Validators, NEW c \in Claims,
         AcceptsClaim(st, id, v, c), NEW q \in ClaimResults(st, id, v, c)
  PROVE  /\ GetProphecy(st, id) \in Prophecies
         /\ ~IsFinal(GetProphecy(st, id))
         /\ GetProphecy(st, id).validatorClaims[v] = EmptyString
         /\ q \in Prophecies
         /\ IndexesAgree(q)
         /\ q.validatorClaims = [GetProphecy(st, id).validatorClaims EXCEPT ![v] = c]
         /\ q.statusText = SuccessStatusText =>
              /\ q.finalClaim \in Claims
              /\ IsVotedFor(q)
<1> DEFINE p == GetProphecy(st, id)
           a == AddClaim(p, v, c)
<1>1. p \in Prophecies /\ IndexesAgree(p)
  BY NewProphecyType, NewProphecyIndexes DEF GetProphecy, StoreIsSound
<1>2. ~IsFinal(p) /\ p.validatorClaims[v] = EmptyString
  BY DEF AcceptsClaim, GetProphecy, NewProphecy, IsFinal,
     PendingStatusText, SuccessStatusText, FailedStatusText
<1>3. a \in Prophecies /\ IndexesAgree(a)
  BY <1>1, <1>2, AddClaimType, AddClaimIndexes DEF ClaimStrings
<1>4. /\ q \in Prophecies
      /\ q.claimValidators = a.claimValidators
      /\ q.validatorClaims = a.validatorClaims
      /\ \/ q = a
         \/ q.statusText = FailedStatusText /\ q.finalClaim = a.finalClaim
         \/ q.statusText = SuccessStatusText /\ q.finalClaim \in ClaimsMade(a)
  BY <1>3, CompletionShape DEF ClaimResults
<1>5. IndexesAgree(q)
  BY <1>3, <1>4, IndexesAgreeDependsOnIndexes
<1>6. a.validatorClaims = [p.validatorClaims EXCEPT ![v] = c] /\ a.statusText = p.statusText
  BY <1>1 DEF AddClaim, Prophecies
<1>7. \A d \in ClaimsMade(a) :
        d \in Claims /\ \E w \in Validators : a.validatorClaims[w] = d
  BY <1>3, MadeBySomebody
<1>8. q.statusText = SuccessStatusText =>
        /\ q.finalClaim \in Claims
        /\ IsVotedFor(q)
  BY <1>2, <1>4, <1>6, <1>7 DEF IsFinal, SuccessStatusText, FailedStatusText, IsVotedFor
<1> QED
  BY <1>1, <1>2, <1>4, <1>5, <1>6, <1>8

\* t is s after a message about id has left the prophecy q.
Completes(s, id, q, t) ==
  /\ t.store = saveProphecy(s.store, id, q)
  /\ Payable(q)
  /\ \/ /\ q.statusText # SuccessStatusText
        /\ t.balances = s.balances /\ t.credits = s.credits
     \/ /\ q.statusText = SuccessStatusText
        /\ t.balances = [s.balances EXCEPT
                           ![q.finalClaim.cosmos_receiver] = @ + q.finalClaim.amount]
        /\ t.credits = [s.credits EXCEPT ![id] = @ + 1]

\* What a message that succeeds has done to the chain.
LEMMA HandlerShape ==
  ASSUME NEW s \in Sound, NEW m \in Messages, NEW t \in handleMsgMakeEthBridgeClaim(s, m)
  PROVE  /\ ValidateBasic(m) /\ oracleId(m) \in Ids
         /\ AcceptsClaim(s.store, oracleId(m), m.validator, oracleClaim(m))
         /\ t \in ChainStates
         /\ t.delivered = s.delivered \cup {m}
         /\ \E q \in ClaimResults(s.store, oracleId(m), m.validator, oracleClaim(m)) :
              Completes(s, oracleId(m), q, t)
<1> DEFINE id == oracleId(m)
           c  == oracleClaim(m)
           v  == m.validator
<1>1. ValidateBasic(m) /\ AcceptsClaim(s.store, id, v, c)
  BY DEF handleMsgMakeEthBridgeClaim
<1>2. id \in Ids /\ c \in Claims /\ v \in Validators
  BY <1>1, ValidMessage
<1>3. PICK D \in SUBSET Ids : s.store \in [D -> Prophecies]
  BY DEF Sound, ChainStates
<1>4. PICK q \in ClaimResults(s.store, id, v, c) :
        t \in Settle([s EXCEPT !.store = saveProphecy(s.store, id, q),
                               !.delivered = @ \cup {m}], m, q)
  BY <1>1 DEF handleMsgMakeEthBridgeClaim
<1>5. /\ q \in Prophecies
      /\ q.statusText = SuccessStatusText =>
           /\ q.finalClaim \in Claims
           /\ IsVotedFor(q)
  BY <1>1, <1>2, <1>3, AcceptedClaim DEF Sound
<1> DEFINE st == saveProphecy(s.store, id, q)
           dl == s.delivered \cup {m}
           u  == [s EXCEPT !.store = st, !.delivered = @ \cup {m}]
<1>6. st \in UNION {[E -> Prophecies] : E \in SUBSET Ids} /\ dl \in SUBSET Messages
  <2>1. st \in [D \cup {id} -> Prophecies] /\ D \cup {id} \in SUBSET Ids
    BY <1>2, <1>3, <1>5 DEF saveProphecy
  <2> HIDE DEF st
  <2> QED
    BY <2>1 DEF Sound, ChainStates
<1>7. /\ u \in ChainStates /\ u.store = st /\ u.delivered = dl
      /\ u.balances = s.balances /\ u.credits = s.credits
  <2> HIDE DEF st
  <2>1. s \in ChainStates
    BY DEF Sound
  <2> QED
    BY <1>6, <2>1 DEF ChainStates
<1>8. t \in Settle(u, m, q)
  BY <1>4
<1> HIDE DEF u, st, dl
<1>9. CASE q.statusText # SuccessStatusText
  <2>1. t = u
    BY <1>8, <1>9 DEF Settle
  <2> QED
    BY <1>1, <1>2, <1>7, <1>9, <2>1 DEF Completes, Payable, st, dl
<1>10. CASE q.statusText = SuccessStatusText
  <2> DEFINE f == q.finalClaim
  <2>1. /\ f \in Claims /\ f.amount # InvalidCoins
        /\ t = [u EXCEPT !.balances[f.cosmos_receiver] = @ + f.amount, !.credits[id] = @ + 1]
    BY <1>5, <1>8, <1>10 DEF Settle, processSuccessfulClaim
  <2>2. f.cosmos_receiver \in Accounts /\ f.amount \in Nat
    BY <2>1, EncodingAssumption, AmountAssumption DEF Amounts
  <2> DEFINE b == [s.balances EXCEPT ![f.cosmos_receiver] = @ + f.amount]
             k == [s.credits EXCEPT ![id] = @ + 1]
  <2>3. s.balances \in [Accounts -> Nat] /\ s.credits \in [Ids -> Nat]
    BY DEF Sound, ChainStates
  <2>4. b \in [Accounts -> Nat] /\ k \in [Ids -> Nat]
    BY <1>2, <2>2, <2>3
  <2>5. t = [u EXCEPT !.balances = b, !.credits = k]
    BY <1>7, <2>1
  <2> HIDE DEF b, k, f
  <2>6. t \in ChainStates /\ t.balances = b /\ t.credits = k /\ t.store = st /\ t.delivered = dl
    BY <1>7, <2>4, <2>5 DEF ChainStates
  <2> QED
    BY <1>1, <1>2, <1>5, <1>10, <2>1, <2>2, <2>6 DEF Completes, Payable, st, dl, b, k, f
<1> QED
  BY <1>9, <1>10

\* A prophecy that a message completes was not successful before it, and the
\* other prophecies are those it found.
LEMMA SuccessesAfterMessage ==
  ASSUME NEW st, NEW id, ~IsFinal(GetProphecy(st, id)), NEW q
  PROVE  LET after == saveProphecy(st, id, q)
         IN /\ id \notin SucceededIn(st)
            /\ q.statusText # SuccessStatusText => SucceededIn(after) = SucceededIn(st)
            /\ q.statusText = SuccessStatusText => SucceededIn(after) = SucceededIn(st) \cup {id}
            /\ \A i \in SucceededIn(st) : after[i] = st[i]
            /\ after[id] = q
BY DEF saveProphecy, SucceededIn, GetProphecy, IsFinal

\* A message that succeeds leaves the oracle sound and every verdict paid.
LEMMA HandlerKeepsSound ==
  ASSUME NEW s \in Sound, NEW m \in Messages, NEW t \in handleMsgMakeEthBridgeClaim(s, m)
  PROVE  t \in Sound
<1> DEFINE id == oracleId(m)
           c  == oracleClaim(m)
           v  == m.validator
           p  == GetProphecy(s.store, id)
<1>1. /\ ValidateBasic(m) /\ id \in Ids /\ AcceptsClaim(s.store, id, v, c)
      /\ t \in ChainStates
  BY HandlerShape
<1>2. PICK q \in ClaimResults(s.store, id, v, c) : Completes(s, id, q, t)
  BY HandlerShape
<1>3. PICK D \in SUBSET Ids : s.store \in [D -> Prophecies]
  BY DEF Sound, ChainStates
<1>4. /\ StoreIsSound(s.store) /\ IsPaidUp(s) /\ s.balances \in [Accounts -> Nat]
      /\ IsFiniteSet(DOMAIN s.store)
  BY DEF Sound, ChainStates, StoreIsSound
<1>5. ~IsFinal(p) /\ IndexesAgree(q)
  BY <1>1, <1>3, <1>4, AcceptedClaim, ValidMessage
<1>6. StoreIsSound(t.store)
  <2>1. DOMAIN t.store = DOMAIN s.store \cup {id}
    BY <1>2 DEF saveProphecy, Completes
  <2>2. IsFiniteSet(DOMAIN t.store)
    BY <1>4, <2>1, FS_AddElement
  <2>3. \A i \in DOMAIN t.store : t.store[i] = q \/ (i \in DOMAIN s.store /\ t.store[i] = s.store[i])
    BY <1>2 DEF saveProphecy, Completes
  <2> QED
    BY <1>2, <1>4, <1>5, <2>2, <2>3 DEF StoreIsSound, Completes
<1>7. /\ id \notin SucceededIn(s.store)
      /\ q.statusText # SuccessStatusText => SucceededIn(t.store) = SucceededIn(s.store)
      /\ q.statusText = SuccessStatusText => SucceededIn(t.store) = SucceededIn(s.store) \cup {id}
      /\ \A i \in SucceededIn(s.store) : t.store[i] = s.store[i]
      /\ t.store[id] = q
  BY <1>2, <1>5, SuccessesAfterMessage DEF Completes
<1>8. IsPaidUp(t)
  <2> SUFFICES ASSUME NEW a \in Accounts
               PROVE  t.balances[a] = SumFunctionOnSet(AmountsIn(t.store), PaidTo(t.store, a))
    BY DEF IsPaidUp
  <2> DEFINE f == AmountsIn(s.store)
             g == AmountsIn(t.store)
             S == PaidTo(s.store, a)
             x == q.finalClaim
  <2>1. S \subseteq SucceededIn(s.store) /\ SucceededIn(s.store) \subseteq DOMAIN s.store
    BY DEF PaidTo, SucceededIn
  <2>2. IsFiniteSet(S) /\ id \notin S
    BY <1>4, <1>7, <2>1, FS_Subset
  <2>3. \A i \in S : f[i] \in Nat /\ g[i] = f[i]
    <3> SUFFICES ASSUME NEW i \in S PROVE f[i] \in Nat /\ g[i] = f[i]
      OBVIOUS
    <3>1. i \in SucceededIn(s.store) /\ i \in SucceededIn(t.store) /\ t.store[i] = s.store[i]
      BY <1>2, <1>7, <2>1
    <3>2. f[i] = s.store[i].finalClaim.amount /\ g[i] = f[i]
      BY <3>1 DEF AmountsIn
    <3>3. s.store[i].finalClaim.amount \in Nat
      BY <1>4, <2>1, <3>1 DEF StoreIsSound, Payable, SucceededIn
    <3> QED
      BY <3>2, <3>3
  <2>4. SumFunctionOnSet(g, S) = SumFunctionOnSet(f, S)
    <3> HIDE DEF f, g, S
    <3> QED
      BY <2>2, <2>3, SumSameValues
  <2>5. s.balances[a] = SumFunctionOnSet(f, S)
    BY <1>4 DEF IsPaidUp
  <2>6. CASE q.statusText = SuccessStatusText /\ x.cosmos_receiver = a
    <3>1. PaidTo(t.store, a) = S \cup {id}
      BY <1>7, <2>6 DEF PaidTo
    <3>2. g[id] = x.amount /\ x.amount \in Nat
      BY <1>2, <1>7, <2>6 DEF AmountsIn, Payable, Completes
    <3>3. SumFunctionOnSet(g, S \cup {id}) = SumFunctionOnSet(g, S) + g[id]
      <4>1. \A i \in S \cup {id} : g[i] \in Nat
        BY <2>3, <3>2
      <4> HIDE DEF g, S
      <4> QED
        BY <2>2, <4>1, SumAddsOne
    <3>4. t.balances[a] = s.balances[a] + x.amount
      BY <1>2, <1>4, <2>6 DEF Completes
    <3> HIDE DEF g, S
    <3> QED
      BY <2>4, <2>5, <3>1, <3>2, <3>3, <3>4 DEF g
  <2>7. CASE ~(q.statusText = SuccessStatusText /\ x.cosmos_receiver = a)
    <3>1. PaidTo(t.store, a) = S
      BY <1>7, <2>7 DEF PaidTo
    <3>2. t.balances[a] = s.balances[a]
      BY <1>2, <1>4, <2>7 DEF Completes
    <3> QED
      BY <2>4, <2>5, <3>1, <3>2
  <2> QED
    BY <2>6, <2>7
<1> QED
  BY <1>1, <1>6, <1>8 DEF Sound

\* A message that succeeds pays a lock exactly when it makes its prophecy
\* successful.
LEMMA HandlerPaysOnSuccess ==
  ASSUME NEW r \in Sound, NEW s \in Sound, PaidBetween(r, s),
         NEW m \in Messages, NEW t \in handleMsgMakeEthBridgeClaim(s, m)
  PROVE  PaidBetween(r, t)
<1> DEFINE id == oracleId(m)
           c  == oracleClaim(m)
           v  == m.validator
           R  == SucceededIn(r.store)
           S  == SucceededIn(s.store)
           T  == SucceededIn(t.store)
<1>1. id \in Ids /\ ValidateBasic(m) /\ AcceptsClaim(s.store, id, v, c)
  BY HandlerShape
<1>2. PICK q \in ClaimResults(s.store, id, v, c) : Completes(s, id, q, t)
  BY HandlerShape
<1>3. PICK D \in SUBSET Ids : s.store \in [D -> Prophecies]
  BY DEF Sound, ChainStates
<1>4. ~IsFinal(GetProphecy(s.store, id))
  BY <1>1, <1>3, AcceptedClaim, ValidMessage DEF Sound
<1>5. /\ id \notin S
      /\ q.statusText # SuccessStatusText => T = S
      /\ q.statusText = SuccessStatusText => T = S \cup {id}
  BY <1>2, <1>4, SuccessesAfterMessage DEF Completes
<1>6. /\ R \subseteq S
      /\ s.credits \in [Ids -> Nat] /\ r.credits \in [Ids -> Nat]
      /\ \A i \in Ids : s.credits[i] = r.credits[i] + IF i \in S /\ i \notin R THEN 1 ELSE 0
  BY DEF PaidBetween, Sound, ChainStates
<1> HIDE DEF R, S, T, id
<1>7. \A i \in Ids : t.credits[i] = r.credits[i] + IF i \in T /\ i \notin R THEN 1 ELSE 0
  <2>1. CASE q.statusText # SuccessStatusText
    BY <1>2, <1>5, <1>6, <2>1 DEF Completes
  <2>2. CASE q.statusText = SuccessStatusText
    <3> SUFFICES ASSUME NEW i \in Ids
                 PROVE  t.credits[i] = r.credits[i] + IF i \in T /\ i \notin R THEN 1 ELSE 0
      OBVIOUS
    <3>1. CASE i = id
      <4>1. t.credits[i] = s.credits[i] + 1 /\ s.credits[i] = r.credits[i] + 0
        BY <1>2, <1>5, <1>6, <2>2, <3>1 DEF Completes
      <4>2. i \in T /\ i \notin R
        BY <1>5, <1>6, <2>2, <3>1
      <4>3. r.credits[i] \in Nat
        BY <1>6
      <4> QED
        BY <4>1, <4>2, <4>3
    <3>2. CASE i # id
      <4>1. t.credits[i] = s.credits[i] /\ (i \in T <=> i \in S)
        BY <1>2, <1>5, <1>6, <2>2, <3>2 DEF Completes
      <4> QED
        BY <1>6, <4>1
    <3> QED
      BY <3>1, <3>2
  <2> QED
    BY <2>1, <2>2
<1>8. R \subseteq T
  BY <1>5, <1>6
<1> QED
  BY <1>7, <1>8 DEF PaidBetween, R, T

\* A message that succeeds is the one vote it adds.
LEMMA HandlerReports ==
  ASSUME NEW s \in Sound, IsReported(s), NEW m \in Messages, NEW t \in handleMsgMakeEthBridgeClaim(s, m)
  PROVE  IsReported(t)
<1> DEFINE id == oracleId(m)
           c  == oracleClaim(m)
           v  == m.validator
           p  == GetProphecy(s.store, id)
<1>1. /\ id \in Ids /\ ValidateBasic(m) /\ AcceptsClaim(s.store, id, v, c)
      /\ t.delivered = s.delivered \cup {m}
  BY HandlerShape
<1>2. PICK q \in ClaimResults(s.store, id, v, c) : Completes(s, id, q, t)
  BY HandlerShape
<1>3. PICK D \in SUBSET Ids : s.store \in [D -> Prophecies]
  BY DEF Sound, ChainStates
<1>4. c \in Claims /\ v \in Validators
  BY <1>1, ValidMessage
<1>5. /\ p \in Prophecies /\ p.validatorClaims[v] = EmptyString
      /\ q.validatorClaims = [p.validatorClaims EXCEPT ![v] = c]
  BY <1>1, <1>3, <1>4, AcceptedClaim DEF Sound
<1>6. /\ q.validatorClaims[v] = c
      /\ \A w \in Validators : w # v => q.validatorClaims[w] = p.validatorClaims[w]
  BY <1>4, <1>5 DEF Prophecies
<1>7. /\ DOMAIN t.store = DOMAIN s.store \cup {id} /\ t.store[id] = q
      /\ \A i \in DOMAIN s.store : i # id => t.store[i] = s.store[i]
  BY <1>2 DEF Completes, saveProphecy
<1>8. /\ id \in DOMAIN s.store => p = s.store[id]
      /\ id \notin DOMAIN s.store => \A w \in Validators : p.validatorClaims[w] = EmptyString
  BY DEF GetProphecy, NewProphecy
<1>9. s.delivered \subseteq Messages
  BY DEF Sound, ChainStates
<1>10. ASSUME NEW k \in t.delivered
       PROVE  /\ ValidateBasic(k)
              /\ oracleId(k) \in DOMAIN t.store
              /\ t.store[oracleId(k)].validatorClaims[k.validator] = oracleClaim(k)
  <2>1. CASE k = m
    BY <1>1, <1>6, <1>7, <2>1
  <2>2. CASE k \in s.delivered
    <3>1. /\ ValidateBasic(k) /\ oracleId(k) \in DOMAIN s.store
          /\ s.store[oracleId(k)].validatorClaims[k.validator] = oracleClaim(k)
      BY <2>2 DEF IsReported
    <3>2. oracleClaim(k) # EmptyString /\ k.validator \in Validators
      BY <1>9, <2>2, <3>1, ValidMessage, ClaimsAssumption
    <3>3. CASE oracleId(k) # id
      BY <1>7, <3>1, <3>3
    <3>4. CASE oracleId(k) = id
      <4>1. p.validatorClaims[k.validator] = oracleClaim(k)
        BY <1>8, <3>1, <3>4
      <4>2. k.validator # v
        BY <1>5, <3>2, <4>1
      <4> QED
        BY <1>6, <1>7, <3>1, <3>2, <3>4, <4>1, <4>2
    <3> QED
      BY <3>3, <3>4
  <2> QED
    BY <1>1, <2>1, <2>2
<1>11. ASSUME NEW i \in DOMAIN t.store, NEW w \in Validators,
              t.store[i].validatorClaims[w] # EmptyString
       PROVE  \E k \in t.delivered : oracleId(k) = i /\ k.validator = w
  <2>1. CASE i = id /\ w = v
    BY <1>1, <2>1
  <2>2. CASE ~(i = id /\ w = v)
    <3>1. i \in DOMAIN s.store /\ s.store[i].validatorClaims[w] # EmptyString
      BY <1>6, <1>7, <1>8, <1>11, <2>2
    <3>2. \E k \in s.delivered : oracleId(k) = i /\ k.validator = w
      BY <3>1 DEF IsReported
    <3> QED
      BY <1>1, <3>2
  <2> QED
    BY <2>1, <2>2
<1> QED
  BY <1>10, <1>11 DEF IsReported

\* The same for a transaction, whichever messages it is made of.
LEMMA TxIsSound ==
  ASSUME ChainState \in Sound, IsReported(ChainState), NEW msgs, Len(msgs) \in Nat,
         \A i \in 1..Len(msgs) : msgs[i] \in Messages, NEW t \in TxOutcomes(msgs)
  PROVE  t \in Sound /\ IsReported(t) /\ PaidBetween(ChainState, t)
<1> DEFINE Good == {s \in Sound : IsReported(s) /\ PaidBetween(ChainState, s)}
<1>1. ChainState \in Good
  <2>1. ChainState.credits \in [Ids -> Nat]
    BY DEF Sound, ChainStates
  <2>2. PaidBetween(ChainState, ChainState)
    <3> DEFINE x == ChainState
    <3>1. \A id \in Ids : x.credits[id] = x.credits[id] + 0
      BY <2>1
    <3> HIDE DEF x
    <3>2. PaidBetween(x, x)
      BY <3>1 DEF PaidBetween
    <3> QED
      BY <3>2 DEF x
  <2> QED
    BY <2>2
<1>2. \A i \in 1..Len(msgs) : \A s \in Good : handleMsgMakeEthBridgeClaim(s, msgs[i]) \subseteq Good
  BY HandlerKeepsSound, HandlerReports, HandlerPaysOnSuccess
<1> HIDE DEF Good
<1>3. t \in Good
  BY <1>1, <1>2, TxKeeps
<1> QED
  BY <1>3 DEF Good

-----------------------------------------------------------------------------
(* The chain.                                                               *)

BridgeInv == TypeOK /\ ChainState \in Sound /\ IsReported(ChainState)

\* A new chain has no prophecy, no coins and no message.
LEMMA BridgeInvInit == BridgeInit => BridgeInv
<1> SUFFICES ASSUME BridgeInit PROVE BridgeInv
  OBVIOUS
<1>1. TypeOK
  BY TypeInit DEF BridgeInit
<1>2. store = [id \in {} |-> NewProphecy]
  BY DEF BridgeInit, Init
<1>3. DOMAIN store = {} /\ store \in [{} -> Prophecies]
  BY <1>2
<1>4. ChainState \in ChainStates
  <2>1. store \in UNION {[D -> Prophecies] : D \in SUBSET Ids}
    BY <1>3
  <2>2. balances \in [Accounts -> Nat] /\ credits \in [Ids -> Nat] /\ delivered \in SUBSET Messages
    BY DEF BridgeInit
  <2> QED
    BY <2>1, <2>2 DEF ChainState, ChainStates
<1>5. StoreIsSound(store)
  BY <1>3, FS_EmptySet DEF StoreIsSound
<1>6. IsPaidUp(ChainState)
  <2>1. \A a : PaidTo(store, a) = {}
    BY <1>3 DEF PaidTo, SucceededIn
  <2>2. \A a \in Accounts : SumFunctionOnSet(AmountsIn(store), PaidTo(store, a)) = 0
    BY <2>1, SumOfNone
  <2> QED
    BY <2>2 DEF IsPaidUp, ChainState, BridgeInit
<1>7. IsReported(ChainState)
  <2>1. ChainState.delivered = {} /\ DOMAIN ChainState.store = {}
    BY <1>3 DEF ChainState, BridgeInit
  <2> QED
    BY <2>1 DEF IsReported
<1> QED
  BY <1>1, <1>4, <1>5, <1>6, <1>7 DEF BridgeInv, Sound, ChainState

\* A transaction, made by whomever of whatever messages.
LEMMA DeliverKeepsInv ==
  ASSUME BridgeInv, NEW msgs, Len(msgs) \in Nat, \A i \in 1..Len(msgs) : msgs[i] \in Messages,
         DeliverTx(msgs)
  PROVE  BridgeInv' /\ PaidBetween(ChainState, ChainState')
<1>1. PICK t \in TxOutcomes(msgs) :
        /\ store' = t.store /\ balances' = t.balances /\ credits' = t.credits
        /\ delivered' = t.delivered /\ UNCHANGED <<power, lastPower>>
  BY DEF DeliverTx
<1>2. t \in Sound /\ IsReported(t) /\ PaidBetween(ChainState, t)
  BY TxIsSound DEF BridgeInv
<1>3. ChainState' = t
  <2>1. t \in ChainStates
    BY <1>2 DEF Sound
  <2>2. t = [store |-> t.store, balances |-> t.balances, credits |-> t.credits,
             delivered |-> t.delivered]
    BY <2>1 DEF ChainStates
  <2> QED
    BY <1>1, <2>2 DEF ChainState
<1>4. TypeOK'
  <2>1. PICK D \in SUBSET Ids : t.store \in [D -> Prophecies]
    BY <1>2 DEF Sound, ChainStates
  <2>2. LastTotalPower' = LastTotalPower
    BY <1>1 DEF LastTotalPower
  <2> QED
    BY <1>1, <2>1, <2>2 DEF TypeOK, BridgeInv
<1>5. (ChainState \in Sound)'
  BY <1>2, <1>3 DEF Sound, StoreIsSound, IsPaidUp, Payable
<1>6. IsReported(ChainState)'
  BY <1>2, <1>3 DEF IsReported
<1> QED
  BY <1>2, <1>3, <1>4, <1>5, <1>6 DEF BridgeInv

\* The messages of a transaction of the model are messages.
LEMMA TransactionsAreMessages ==
  ASSUME NEW msgs \in Transactions
  PROVE  Len(msgs) \in Nat /\ \A i \in 1..Len(msgs) : msgs[i] \in Messages
BY TransactionsAssumption

\* So is what a request becomes, if it is not refused.
LEMMA RequestsAreMessages ==
  ASSUME NEW request \in Requests, ~Refused(request), ValidateBasic(MessageOf(request))
  PROVE  MessageOf(request) \in Messages
<1> DEFINE n == Atoi(request.nonce)
           m == MessageOf(request)
<1>1. /\ request.nonce \in NonceTexts /\ ParsesAsInt(request.nonce)
      /\ request.ethereum_sender \in Senders
      /\ request.cosmos_receiver \in Accounts /\ request.validator \in Validators
      /\ request.amount \in Amounts
  BY DEF Requests, Refused
<1> HIDE DEF n
<1>2. m = [request EXCEPT !.nonce = n]
  BY DEF MessageOf, n
<1>3. /\ m.nonce = n /\ DOMAIN m = DOMAIN request
      /\ m = [nonce |-> n, ethereum_sender |-> request.ethereum_sender,
              cosmos_receiver |-> request.cosmos_receiver, validator |-> request.validator,
              amount |-> request.amount]
  BY <1>2 DEF Requests
<1>4. n >= 0
  BY <1>3 DEF ValidateBasic
<1>5. n \in Nonces
  BY <1>1, <1>4, NonceTextsAssumption DEF n
<1> QED
  BY <1>1, <1>3, <1>5 DEF Messages

\* No transaction and no change of stake breaks the invariant, and nothing is
\* paid without a success.
LEMMA BridgeStep ==
  ASSUME BridgeInv, [ClientNext]_bridgeVars
  PROVE  BridgeInv' /\ PaidBetween(ChainState, ChainState')
<1>1. \A msgs : Len(msgs) \in Nat /\ (\A i \in 1..Len(msgs) : msgs[i] \in Messages) /\ DeliverTx(msgs)
        => BridgeInv' /\ PaidBetween(ChainState, ChainState')
  BY DeliverKeepsInv
<1>2. ASSUME UNCHANGED <<store, balances, credits, delivered>>, TypeOK'
      PROVE  BridgeInv' /\ PaidBetween(ChainState, ChainState')
  <2>1. ChainState' = ChainState
    BY <1>2 DEF ChainState
  <2>2. (ChainState \in Sound)' /\ IsReported(ChainState)'
    BY <2>1 DEF BridgeInv, Sound, StoreIsSound, IsPaidUp, Payable, IsReported
  <2>3. PaidBetween(ChainState, ChainState)
    <3> DEFINE x == ChainState
    <3>1. \A id \in Ids : x.credits[id] = x.credits[id] + 0
      BY DEF BridgeInv, Sound, ChainStates
    <3> HIDE DEF x
    <3>2. PaidBetween(x, x)
      BY <3>1 DEF PaidBetween
    <3> QED
      BY <3>2 DEF x
  <2> QED
    BY <1>2, <2>1, <2>2, <2>3 DEF BridgeInv
<1>3. CASE Stake \/ UNCHANGED bridgeVars
  <2>1. [Next]_vars /\ UNCHANGED <<store, balances, credits, delivered>>
    BY <1>3 DEF Stake, Next, Restake, EndBlock, vars, bridgeVars
  <2>2. TypeOK'
    BY <2>1, TypeStep DEF BridgeInv
  <2> QED
    BY <1>2, <2>1, <2>2
<1>4. ASSUME NEW msgs \in Transactions, DeliverTx(msgs)
      PROVE  BridgeInv' /\ PaidBetween(ChainState, ChainState')
  BY <1>1, <1>4, TransactionsAreMessages
<1>5. ASSUME NEW request \in CommandRequests, NEW from \in Validators,
             GetCmdMakeEthBridgeClaim(request, from)
      PROVE  BridgeInv' /\ PaidBetween(ChainState, ChainState')
  <2> DEFINE m == MessageOf(request)
  <2>1. m \in Messages /\ DeliverTx(<<m>>)
    BY <1>5, RequestsAreMessages, RequestsAssumption DEF GetCmdMakeEthBridgeClaim
  <2> HIDE DEF m
  <2>2. Len(<<m>>) \in Nat /\ \A i \in 1..Len(<<m>>) : <<m>>[i] \in Messages
    BY <2>1
  <2> QED
    BY <1>1, <2>1, <2>2
<1>6. ASSUME NEW requests \in BundledRequests, makeClaimHandler(requests)
      PROVE  BridgeInv' /\ PaidBetween(ChainState, ChainState')
  <2> DEFINE msgs == [i \in DOMAIN requests |-> MessageOf(requests[i])]
             n    == Len(requests)
  <2>1. n \in Nat /\ DOMAIN requests = 1..n /\ \A i \in 1..n : requests[i] \in Requests
    BY RequestsAssumption
  <2>2. \A i \in 1..n : msgs[i] \in Messages
    BY <1>6, <2>1, RequestsAreMessages DEF makeClaimHandler
  <2>3. msgs \in Seq(Messages) /\ Len(msgs) = n
    <3>1. msgs = [i \in 1..n |-> MessageOf(requests[i])]
      BY <2>1
    <3>2. msgs \in [1..n -> Messages]
      BY <2>2, <3>1
    <3> HIDE DEF msgs, n
    <3> QED
      BY <2>1, <3>2
  <2>4. DeliverTx(msgs)
    BY <1>6 DEF makeClaimHandler
  <2> HIDE DEF msgs, n
  <2> QED
    BY <1>1, <2>1, <2>2, <2>3, <2>4
<1> QED
  BY <1>3, <1>4, <1>5, <1>6 DEF ClientNext, BridgeNext

\* The invariant of the chain and its clients.
LEMMA BridgeInvHolds == ClientSpec => []BridgeInv
<1>1. BridgeInv /\ [ClientNext]_bridgeVars => BridgeInv'
  BY BridgeStep
<1> QED
  BY <1>1, BridgeInvInit, PTL DEF ClientSpec

-----------------------------------------------------------------------------
\* The oracle stays well typed inside the handler, whatever is typed or bundled:
\* no id is made of a negative nonce or a bad address, and every balance is a
\* natural number.
THEOREM BridgeTypeCorrect == ClientSpec => []BridgeTypeOK
<1>1. BridgeInv => BridgeTypeOK
  BY DEF BridgeInv, BridgeTypeOK, Sound, ChainStates, ChainState
<1> QED
  BY <1>1, BridgeInvHolds, PTL

\* Every coin in an account stands for a successful prophecy that names it, each
\* once and in full, whatever transactions fail half-way.
THEOREM CoinsAreVerdicts == ClientSpec => []BalancesAreVerdicts
<1>1. BridgeInv => BalancesAreVerdicts
  BY DEF BridgeInv, Sound, IsPaidUp, ChainState, BalancesAreVerdicts, Succeeded,
     SucceededIn, AmountsIn, PaidTo
<1> QED
  BY <1>1, BridgeInvHolds, PTL

\* A lock is paid out in the step that makes its prophecy successful and in no
\* other.
THEOREM PaymentsAreSuccesses == ClientSpec => PaidOnSuccessOnly
<1>1. BridgeInv /\ [ClientNext]_bridgeVars =>
        [\A id \in Ids :
           credits'[id] = credits[id] + IF BecomesSuccess(id) THEN 1 ELSE 0]_bridgeVars
  BY BridgeStep DEF PaidBetween, ChainState, SucceededIn, BecomesSuccess
<1> QED
  BY <1>1, BridgeInvHolds, PTL DEF ClientSpec, PaidOnSuccessOnly

\* The answer to a query is the messages about that lock that went through, in
\* whatever form its nonce is typed, although ids are nonces and addresses run
\* together.
THEOREM QueriesTellWhatWentThrough == ClientSpec => []QueryReportsDelivered
<1>1. BridgeInv => QueryReportsDelivered
  <2> SUFFICES ASSUME BridgeInv,
                      NEW text \in NonceTexts, ParsesAsInt(text), NEW s \in EthAddresses
               PROVE  GetCmdGetEthBridgeProphecy(text, s) =
                        {m \in delivered : m.nonce = Atoi(text) /\ m.ethereum_sender = s}
    BY DEF QueryReportsDelivered
  <2> DEFINE n  == Atoi(text)
             id == Itoa[n] \o s
             answer(w) ==
               [nonce |-> n, ethereum_sender |-> s,
                cosmos_receiver |-> store[id].validatorClaims[w].cosmos_receiver, validator |-> w,
                amount |-> store[id].validatorClaims[w].amount]
             voters == {w \in Validators : id \in DOMAIN store
                                          /\ store[id].validatorClaims[w] # EmptyString}
             D == {m \in delivered : m.nonce = n /\ m.ethereum_sender = s}
  <2>1. GetCmdGetEthBridgeProphecy(text, s) = {answer(w) : w \in voters}
    BY DEF GetCmdGetEthBridgeProphecy, queryEthProphecy
  <2>2. n \in Int
    BY NonceTextsAssumption
  <2>3. delivered \subseteq Messages
    BY DEF BridgeInv, Sound, ChainStates, ChainState
  <2>4. /\ \A m \in delivered :
             /\ ValidateBasic(m)
             /\ oracleId(m) \in DOMAIN store
             /\ store[oracleId(m)].validatorClaims[m.validator] = oracleClaim(m)
        /\ \A i \in DOMAIN store : \A v \in Validators :
             store[i].validatorClaims[v] # EmptyString =>
               \E m \in delivered : oracleId(m) = i /\ m.validator = v
    BY DEF BridgeInv, IsReported, ChainState
  <2>5. ASSUME NEW m \in D
        PROVE  m.validator \in voters /\ m = answer(m.validator)
    <3>1. /\ m \in Messages /\ m \in delivered /\ m.nonce = n /\ m.ethereum_sender = s
          /\ ValidateBasic(m)
      BY <2>3, <2>4
    <3>2. oracleId(m) = id
      BY <3>1 DEF oracleId
    <3>3. id \in DOMAIN store /\ store[id].validatorClaims[m.validator] = oracleClaim(m)
      BY <2>4, <3>1, <3>2
    <3>4. oracleClaim(m) # EmptyString /\ m.validator \in Validators
      BY <3>1, ValidMessage, ClaimsAssumption
    <3> HIDE DEF n, id
    <3>5. m.validator \in voters
      BY <3>3, <3>4
    <3>6. m = [nonce |-> m.nonce, ethereum_sender |-> m.ethereum_sender,
               cosmos_receiver |-> m.cosmos_receiver, validator |-> m.validator,
               amount |-> m.amount]
      BY <3>1 DEF Messages
    <3>7. /\ store[id].validatorClaims[m.validator].cosmos_receiver = m.cosmos_receiver
          /\ store[id].validatorClaims[m.validator].amount = m.amount
      BY <3>3 DEF oracleClaim
    <3>8. m = answer(m.validator)
      BY <3>1, <3>6, <3>7
    <3> QED
      BY <3>5, <3>8
  <2>6. ASSUME NEW w \in voters
        PROVE  \E m \in D : m.validator = w
    <3>1. PICK m \in delivered : oracleId(m) = id /\ m.validator = w
      BY <2>4
    <3>2. m \in Messages /\ m.nonce \in Nat /\ m.ethereum_sender \in EthAddresses
      <4>1. m \in Messages /\ ValidateBasic(m)
        BY <2>3, <2>4, <3>1
      <4> QED
        BY <4>1, ValidParts, Zenon
    <3>3. Itoa[m.nonce] \o m.ethereum_sender = Itoa[n] \o s
      BY <3>1 DEF oracleId
    <3>4. CASE n < 0
      <4> HIDE DEF n
      <4> QED
        BY <2>2, <3>2, <3>3, <3>4, NoIdHasSign
    <3>5. CASE n >= 0
      <4> HIDE DEF n
      <4>1. n \in Nat
        BY <2>2, <3>5
      <4>2. SameId(m.nonce, m.ethereum_sender, n, s)
        BY <3>3 DEF SameId
      <4>3. m.nonce = n /\ m.ethereum_sender = s
        BY <3>2, <4>1, <4>2, OneIdPerLock
      <4> QED
        BY <3>1, <4>3
    <3> HIDE DEF n
    <3> QED
      BY <2>2, <3>4, <3>5
  <2> HIDE DEF answer, voters, D
  <2>7. {answer(w) : w \in voters} = D
    BY <2>5, <2>6
  <2> QED
    BY <2>1, <2>7 DEF D
<1> QED
  BY <1>1, BridgeInvHolds, PTL
=============================================================================
