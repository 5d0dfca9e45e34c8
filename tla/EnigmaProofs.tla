--------------------------- MODULE EnigmaProofs ---------------------------
(***************************************************************************)
(* Theorems about Enigma.tla, for any number of letters, any wirings that  *)
(* are permutations with a reflector, any settings and any texts.          *)
(***************************************************************************)
EXTENDS Enigma, TLAPS

\* A row with every letter once.
Perm(row) ==
    /\ row \in [Letters -> Letters]
    /\ \A l \in Letters : \E n \in Letters : row[n] = l
    /\ \A m, n \in Letters : row[m] = row[n] => m = n

-----------------------------------------------------------------------------
(* Turning a row.                                                          *)

\* Where Left and Right take the letter at n from.
LEMMA Places ==
    ASSUME NEW n \in Letters, NEW x \in Letters
    PROVE  /\ IF n + x < LETTERS_COUNT THEN n + x \in Letters
              ELSE n + x - LETTERS_COUNT \in Letters
           /\ IF n >= x THEN n - x \in Letters ELSE n - x + LETTERS_COUNT \in Letters
  BY EnigmaAssumption DEF Letters

\* A row turned to the left keeps every letter once.
LEMMA LeftPerm ==
    ASSUME NEW row, Perm(row), NEW x \in Letters
    PROVE  Perm(Left(row, x))
  <1> DEFINE To(n) == IF n + x < LETTERS_COUNT THEN n + x ELSE n + x - LETTERS_COUNT
             Back(n) == IF n >= x THEN n - x ELSE n - x + LETTERS_COUNT
  <1>1. \A n \in Letters : To(n) \in Letters /\ Back(n) \in Letters /\ To(Back(n)) = n
    BY EnigmaAssumption DEF Letters
  <1>2. \A m, n \in Letters : To(m) = To(n) => m = n
    BY EnigmaAssumption DEF Letters
  <1>3. Left(row, x) = [n \in Letters |-> row[To(n)]]
    BY DEF Left
  <1> HIDE DEF To, Back
  <1>4. Left(row, x) \in [Letters -> Letters]
    BY <1>1, <1>3 DEF Perm
  <1>5. \A l \in Letters : \E n \in Letters : Left(row, x)[n] = l
    <2> SUFFICES ASSUME NEW l \in Letters
                 PROVE  \E n \in Letters : Left(row, x)[n] = l
      OBVIOUS
    <2>1. PICK n \in Letters : row[n] = l
      BY DEF Perm
    <2>2. Left(row, x)[Back(n)] = l
      BY <1>1, <1>3, <2>1
    <2> QED BY <1>1, <2>2
  <1>6. \A m, n \in Letters : Left(row, x)[m] = Left(row, x)[n] => m = n
    BY <1>1, <1>2, <1>3 DEF Perm
  <1> QED BY <1>4, <1>5, <1>6 DEF Perm

\* And to the right.
LEMMA RightPerm ==
    ASSUME NEW row, Perm(row), NEW x \in Letters
    PROVE  Perm(Right(row, x))
  <1> DEFINE To(n) == IF n >= x THEN n - x ELSE n - x + LETTERS_COUNT
             Back(n) == IF n + x < LETTERS_COUNT THEN n + x ELSE n + x - LETTERS_COUNT
  <1>1. \A n \in Letters : To(n) \in Letters /\ Back(n) \in Letters /\ To(Back(n)) = n
    BY EnigmaAssumption DEF Letters
  <1>2. \A m, n \in Letters : To(m) = To(n) => m = n
    BY EnigmaAssumption DEF Letters
  <1>3. Right(row, x) = [n \in Letters |-> row[To(n)]]
    BY DEF Right
  <1> HIDE DEF To, Back
  <1>4. Right(row, x) \in [Letters -> Letters]
    BY <1>1, <1>3 DEF Perm
  <1>5. \A l \in Letters : \E n \in Letters : Right(row, x)[n] = l
    <2> SUFFICES ASSUME NEW l \in Letters
                 PROVE  \E n \in Letters : Right(row, x)[n] = l
      OBVIOUS
    <2>1. PICK n \in Letters : row[n] = l
      BY DEF Perm
    <2>2. Right(row, x)[Back(n)] = l
      BY <1>1, <1>3, <2>1
    <2> QED BY <1>1, <2>2
  <1>6. \A m, n \in Letters : Right(row, x)[m] = Right(row, x)[n] => m = n
    BY <1>1, <1>2, <1>3 DEF Perm
  <1> QED BY <1>4, <1>5, <1>6 DEF Perm

\* One letter further to the left is the position of the next key letter.
LEMMA LeftOnce ==
    ASSUME NEW row, NEW k \in Letters
    PROVE  Left(Left(row, k), 1) = Left(row, Stepped(k)) /\ Stepped(k) \in Letters
  <1> DEFINE To(n, x) == IF n + x < LETTERS_COUNT THEN n + x ELSE n + x - LETTERS_COUNT
  <1>1. Stepped(k) \in Letters
    BY EnigmaAssumption DEF Letters, Stepped
  <1>2. CASE LETTERS_COUNT = 1
    <2>1. Letters = {0} /\ k = 0 /\ Stepped(k) = 0
      BY <1>2 DEF Letters, Stepped
    <2>2. \A n \in Letters : To(n, 1) = 0 /\ To(n, 0) = 0
      BY <1>2, <2>1
    <2>3. /\ Left(row, k) = [n \in Letters |-> row[To(n, 0)]]
          /\ Left(Left(row, k), 1) = [n \in Letters |-> Left(row, k)[To(n, 1)]]
          /\ Left(row, Stepped(k)) = [n \in Letters |-> row[To(n, 0)]]
      BY <2>1 DEF Left
    <2> HIDE DEF To
    <2>4. \A n \in Letters : Left(row, k)[To(n, 1)] = row[To(n, 0)]
      BY <2>1, <2>2, <2>3
    <2> QED BY <1>1, <2>3, <2>4
  <1>3. CASE LETTERS_COUNT # 1
    <2>1. \A n \in Letters : To(n, 1) \in Letters /\ To(To(n, 1), k) = To(n, Stepped(k))
      BY <1>3, EnigmaAssumption DEF Letters, Stepped
    <2>2. /\ Left(row, k) = [n \in Letters |-> row[To(n, k)]]
          /\ Left(Left(row, k), 1) = [n \in Letters |-> Left(row, k)[To(n, 1)]]
          /\ Left(row, Stepped(k)) = [n \in Letters |-> row[To(n, Stepped(k))]]
      BY DEF Left
    <2> HIDE DEF To
    <2>3. \A n \in Letters : Left(row, k)[To(n, 1)] = row[To(n, Stepped(k))]
      BY <2>1, <2>2
    <2> QED BY <1>1, <2>2, <2>3
  <1> QED BY <1>2, <1>3

\* Turning to the left by one and to the right by an offset can be exchanged.
LEMMA LeftRight ==
    ASSUME NEW row, NEW x \in Letters
    PROVE  Left(Right(row, x), 1) = Right(Left(row, 1), x)
  <1> DEFINE Up(n) == IF n + 1 < LETTERS_COUNT THEN n + 1 ELSE n + 1 - LETTERS_COUNT
             Down(n) == IF n >= x THEN n - x ELSE n - x + LETTERS_COUNT
  <1>1. \A n \in Letters : /\ Up(n) \in Letters /\ Down(n) \in Letters
                           /\ Down(Up(n)) = Up(Down(n))
    BY EnigmaAssumption DEF Letters
  <1>2. /\ Right(row, x) = [n \in Letters |-> row[Down(n)]]
        /\ Left(Right(row, x), 1) = [n \in Letters |-> Right(row, x)[Up(n)]]
        /\ Left(row, 1) = [n \in Letters |-> row[Up(n)]]
        /\ Right(Left(row, 1), x) = [n \in Letters |-> Left(row, 1)[Down(n)]]
    BY DEF Left, Right
  <1> HIDE DEF Up, Down
  <1>3. \A n \in Letters : Right(row, x)[Up(n)] = Left(row, 1)[Down(n)]
    BY <1>1, <1>2
  <1> QED BY <1>2, <1>3

-----------------------------------------------------------------------------
(* The path of a letter.                                                   *)

\* A machine with its rows.
Machine(cfg) == \A row \in 0 .. 9 : Perm(cfg[row])

\* traverse finds the letter, and from there finds the way back.
LEMMA Traversed ==
    ASSUME NEW cfg, Machine(cfg), NEW from \in 0 .. 9, NEW to \in 0 .. 9,
           NEW n \in Letters
    PROVE  /\ traverse(cfg, from, to, n) \in Letters
           /\ cfg[to][traverse(cfg, from, to, n)] = cfg[from][n]
           /\ traverse(cfg, to, from, traverse(cfg, from, to, n)) = n
  <1> DEFINE There == traverse(cfg, from, to, n)
  <1>1. cfg[from][n] \in Letters
    BY DEF Machine, Perm
  <1>2. \E m \in Letters : cfg[to][m] = cfg[from][n]
    BY <1>1 DEF Machine, Perm
  <1>3. There \in Letters /\ cfg[to][There] = cfg[from][n]
    BY <1>2 DEF traverse
  <1> HIDE DEF There
  <1>4. \A m \in Letters : cfg[from][m] = cfg[to][There] => m = n
    BY ZenonT(30), <1>3 DEF Machine, Perm
  <1>5. traverse(cfg, to, from, There) = n
    BY <1>3, <1>4 DEF traverse
  <1> QED BY <1>3, <1>5 DEF There

\* The way in takes back the way out, letter by letter, and both lead to letters.
LEMMA InOut ==
    ASSUME NEW cfg, Machine(cfg), NEW n \in Letters
    PROVE  /\ Inward(cfg, n) \in Letters /\ Outward(cfg, n) \in Letters
           /\ Inward(cfg, Outward(cfg, n)) = n
           /\ Outward(cfg, Inward(cfg, n)) = n
  <1> DEFINE T(from, to, m) == traverse(cfg, from, to, m)
  <1>1. \A from, to \in 0 .. 9 : \A m \in Letters :
           T(from, to, m) \in Letters /\ T(to, from, T(from, to, m)) = m
    BY Traversed
  <1>2. /\ Inward(cfg, n) = T(1, 0, T(3, 2, T(5, 4, T(8, 9, n))))
        /\ Outward(cfg, n) = T(9, 8, T(4, 5, T(2, 3, T(0, 1, n))))
    BY DEF Inward, Outward
  <1>3. /\ Inward(cfg, Outward(cfg, n)) = T(1, 0, T(3, 2, T(5, 4, T(8, 9, Outward(cfg, n)))))
        /\ Outward(cfg, Inward(cfg, n)) = T(9, 8, T(4, 5, T(2, 3, T(0, 1, Inward(cfg, n)))))
    BY DEF Inward, Outward
  <1> HIDE DEF T
  <1>4. PICK a1, a2, a3 : /\ a1 = T(0, 1, n) /\ a2 = T(2, 3, a1) /\ a3 = T(4, 5, a2)
    OBVIOUS
  <1>5. PICK b1, b2, b3 : /\ b1 = T(8, 9, n) /\ b2 = T(5, 4, b1) /\ b3 = T(3, 2, b2)
    OBVIOUS
  <1>6. /\ a1 \in Letters /\ T(1, 0, a1) = n
        /\ b1 \in Letters /\ T(9, 8, b1) = n
    BY <1>1, <1>4, <1>5
  <1>7. /\ a2 \in Letters /\ T(3, 2, a2) = a1
        /\ b2 \in Letters /\ T(4, 5, b2) = b1
    BY <1>1, <1>4, <1>5, <1>6
  <1>8. /\ a3 \in Letters /\ T(5, 4, a3) = a2
        /\ b3 \in Letters /\ T(2, 3, b3) = b2
    BY <1>1, <1>4, <1>5, <1>7
  <1>9. /\ Outward(cfg, n) = T(9, 8, a3) /\ Outward(cfg, n) \in Letters
        /\ T(8, 9, Outward(cfg, n)) = a3
        /\ Inward(cfg, n) = T(1, 0, b3) /\ Inward(cfg, n) \in Letters
        /\ T(0, 1, Inward(cfg, n)) = b3
    BY <1>1, <1>2, <1>4, <1>5, <1>8
  <1> QED BY <1>3, <1>6, <1>7, <1>8, <1>9

\* What the reflector does, it undoes.
Reflector(cfg) == \A m, n \in Letters : cfg[7][m] = cfg[6][n] => cfg[7][n] = cfg[6][m]

\* A machine that is given an encrypted letter in the same position gives the
\* letter back.
LEMMA Involution ==
    ASSUME NEW cfg, Machine(cfg), Reflector(cfg), NEW l \in Letters
    PROVE  /\ Encrypted(cfg, l) \in Letters
           /\ Encrypted(cfg, Encrypted(cfg, l)) = l
  <1> DEFINE R(n) == traverse(cfg, 7, 6, n)
             a == Inward(cfg, l)
             b == R(a)
  <1>1. \A n \in Letters : R(n) \in Letters /\ cfg[6][R(n)] = cfg[7][n]
    BY Traversed
  <1>2. a \in Letters /\ b \in Letters
    BY <1>1, InOut
  <1>3. R(b) = a
    <2>1. cfg[7][b] = cfg[6][a]
      BY <1>1, <1>2 DEF Reflector
    <2>2. R(b) \in Letters /\ cfg[6][R(b)] = cfg[6][a]
      BY <1>1, <1>2, <2>1
    <2>3. Perm(cfg[6])
      BY DEF Machine
    <2>4. \A m, n \in Letters : cfg[6][m] = cfg[6][n] => m = n
      BY <2>3 DEF Perm
    <2> HIDE DEF R, a, b
    <2> QED BY <1>2, <2>2, <2>4
  <1>4. Encrypted(cfg, l) = Outward(cfg, b)
    BY DEF Encrypted
  <1>5. Outward(cfg, b) \in Letters /\ Inward(cfg, Outward(cfg, b)) = b
    BY <1>2, InOut
  <1>6. Encrypted(cfg, Outward(cfg, b)) = Outward(cfg, R(Inward(cfg, Outward(cfg, b))))
    BY DEF Encrypted
  <1>7. Outward(cfg, a) = l
    BY InOut
  <1> QED BY <1>3, <1>4, <1>5, <1>6, <1>7

-----------------------------------------------------------------------------
(* The machine.                                                            *)

IInv == TypeOK /\ Positions

\* In every position the rows are permutations, and the reflector is one.
LEMMA MachineOK ==
    ASSUME TypeOK, Positions
    PROVE  Machine(config) /\ Reflector(config)
  <1>1. Wiring(wiring)
    BY EnigmaAssumption DEF TypeOK
  <1>2. \A row \in 0 .. 9 : Perm(wiring[row])
    BY <1>1 DEF Wiring, Perm
  <1>3. \A r \in Rotors : key[r] \in Letters /\ offset[r] \in Letters
    BY DEF TypeOK
  <1>4. ASSUME NEW row \in 0 .. 9 PROVE Perm(config[row])
    <2>1. CASE row \in 6 .. 9
      BY <1>2, <2>1 DEF Positions
    <2>2. CASE row \in 0 .. 5
      <3>1. PICK r \in Rotors : row \in {2 * r, 2 * r + 1}
        BY <2>2 DEF Rotors
      <3>2. \/ config[row] = wiring[row]
            \/ config[row] = Left(wiring[row], key[r])
            \/ config[row] = Right(Left(wiring[row], key[r]), offset[r])
        BY <3>1 DEF Positions
      <3>3. Perm(wiring[row]) /\ key[r] \in Letters /\ offset[r] \in Letters
        BY <1>2, <1>3
      <3>4. Perm(Left(wiring[row], key[r]))
        BY <3>3, LeftPerm
      <3>5. Perm(Right(Left(wiring[row], key[r]), offset[r]))
        BY <3>3, <3>4, RightPerm
      <3> QED BY <3>2, <3>3, <3>4, <3>5
    <2> QED BY <2>1, <2>2
  <1>5. Reflector(config)
    <2>1. config[6] = wiring[6] /\ config[7] = wiring[7]
      BY DEF Positions
    <2> QED BY <1>1, <2>1 DEF Wiring, Reflector
  <1> QED BY <1>4, <1>5 DEF Machine

LEMMA InitInv == Init => IInv
  <1> SUFFICES ASSUME Init PROVE IInv
    OBVIOUS
  <1>1. Wiring(wiring)
    BY EnigmaAssumption DEF Init
  <1>2. TypeOK
    <2>1. config \in [0 .. 9 -> [Letters -> Letters]]
      BY <1>1 DEF Init, Wiring
    <2>2. <<>> \in Seq(Letters)
      OBVIOUS
    <2> QED BY <2>1, <2>2, EnigmaAssumption DEF Init, TypeOK
  <1>3. Positions
    BY DEF Init, Positions, Rotors
  <1> QED BY <1>2, <1>3 DEF IInv

\* A setting step turns one rotor, to where its key, or its key and its offset,
\* say.
LEMMA SetStep ==
    ASSUME IInv, Set
    PROVE  IInv'
  <1>1. Machine(config)
    BY MachineOK DEF IInv
  <1>2. rotor \in 0 .. 5 /\ rotor' = rotor + 1
    BY DEF IInv, TypeOK, Set
  <1>3. \A r \in Rotors : key[r] \in Letters /\ offset[r] \in Letters
    BY DEF IInv, TypeOK
  <1> DEFINE r0 == IF rotor < 3 THEN rotor ELSE rotor - 3
             new(row) == IF rotor < 3 THEN Left(config[row], key[r0])
                         ELSE Right(config[row], offset[r0])
  <1>4. r0 \in Rotors
    BY <1>2 DEF Rotors
  <1>5. config' = [row \in 0 .. 9 |-> IF row \in {2 * r0, 2 * r0 + 1} THEN new(row)
                                    ELSE config[row]]
    BY DEF Set, Turned, Rows
  <1>6. UNCHANGED <<wiring, offset, key, notches, plain, enc>>
    BY DEF Set
  <1>7. \A row \in 0 .. 9 : Perm(new(row))
    <2> SUFFICES ASSUME NEW row \in 0 .. 9 PROVE Perm(new(row))
      OBVIOUS
    <2>1. Perm(config[row]) /\ key[r0] \in Letters /\ offset[r0] \in Letters
      BY <1>1, <1>3, <1>4 DEF Machine
    <2>2. Perm(Left(config[row], key[r0])) /\ Perm(Right(config[row], offset[r0]))
      BY <2>1, LeftPerm, RightPerm
    <2> QED BY <2>2
  <1>8. TypeOK'
    <2>1. config' \in [0 .. 9 -> [Letters -> Letters]]
      BY <1>1, <1>5, <1>7 DEF Machine, Perm
    <2>2. rotor' \in 0 .. 6
      BY <1>2
    <2> QED BY <1>6, <2>1, <2>2 DEF IInv, TypeOK
  <1>9. Positions'
    <2>1. \A row \in 6 .. 9 : config'[row] = wiring'[row]
      BY <1>4, <1>5, <1>6 DEF IInv, Positions, Rotors
    <2>2. ASSUME NEW r \in Rotors, NEW row \in {2 * r, 2 * r + 1}
          PROVE  config'[row] = IF rotor' <= r THEN wiring[row]
                        ELSE IF rotor' <= r + 3 THEN Left(wiring[row], key[r])
                        ELSE Right(Left(wiring[row], key[r]), offset[r])
      <3>1. config[row] = IF rotor <= r THEN wiring[row]
                          ELSE IF rotor <= r + 3 THEN Left(wiring[row], key[r])
                          ELSE Right(Left(wiring[row], key[r]), offset[r])
        BY DEF IInv, Positions
      <3>2. row \in 0 .. 9 /\ r \in 0 .. 2 /\ (row \in {2 * r0, 2 * r0 + 1} <=> r = r0)
        BY <1>4 DEF Rotors
      <3>3. CASE r # r0
        <4>1. config'[row] = config[row]
          BY <1>5, <3>2, <3>3
        <4>2. (rotor <= r <=> rotor' <= r) /\ (rotor <= r + 3 <=> rotor' <= r + 3)
          BY <1>2, <3>2, <3>3
        <4> QED BY <3>1, <4>1, <4>2
      <3>4. CASE r = r0 /\ rotor < 3
        <4>1. config'[row] = Left(config[row], key[r])
          BY <1>5, <3>2, <3>4
        <4>2. rotor <= r /\ ~(rotor' <= r) /\ rotor' <= r + 3
          BY <1>2, <3>2, <3>4
        <4> QED BY <3>1, <4>1, <4>2
      <3>5. CASE r = r0 /\ ~(rotor < 3)
        <4>1. config'[row] = Right(config[row], offset[r])
          BY <1>5, <3>2, <3>5
        <4>2. ~(rotor <= r) /\ rotor <= r + 3 /\ ~(rotor' <= r) /\ ~(rotor' <= r + 3)
          BY <1>2, <3>2, <3>5
        <4> QED BY <3>1, <4>1, <4>2
      <3> QED BY <3>3, <3>4, <3>5
    <2> QED BY <1>6, <2>1, <2>2 DEF Positions
  <1> QED BY <1>8, <1>9 DEF IInv

\* A letter is encrypted after the rotors have stepped with their keys.
LEMMA EncryptStep ==
    ASSUME IInv, Encrypt
    PROVE  /\ IInv'
           /\ Encrypted(config', enc'[Len(enc')]) = plain[Len(enc')]
  <1>1. Wiring(wiring) /\ rotor = 6 /\ UNCHANGED <<wiring, offset, notches, plain, rotor>>
    BY EnigmaAssumption DEF IInv, TypeOK, Encrypt
  <1>2. \A r \in Rotors : key[r] \in Letters /\ offset[r] \in Letters
    BY DEF IInv, TypeOK
  <1>3. Steps \subseteq Rotors
    BY DEF Steps, Rotors
  <1>4. config' = [row \in 0 .. 9 |-> IF \E r \in Steps : row \in {2 * r, 2 * r + 1}
                                     THEN Left(config[row], 1) ELSE config[row]]
    BY DEF Encrypt, Turned, Rows
  <1>5. key' = [r \in Rotors |-> IF r \in Steps THEN Stepped(key[r]) ELSE key[r]]
    BY DEF Encrypt
  <1>6. \A r \in Rotors : key'[r] \in Letters
    BY <1>2, <1>5, LeftOnce
  <1>7. Positions'
    <2>1. \A row \in 6 .. 9 : config'[row] = wiring'[row]
      <3>1. \A row \in 6 .. 9 : \A r \in Steps : row \notin {2 * r, 2 * r + 1}
        BY <1>3 DEF Rotors
      <3> QED BY <1>1, <1>4, <3>1 DEF IInv, Positions
    <2>2. ASSUME NEW r \in Rotors, NEW row \in {2 * r, 2 * r + 1}
          PROVE  config'[row] = Right(Left(wiring[row], key'[r]), offset[r])
      <3>1. row \in 0 .. 9 /\ \A q \in Rotors : row \in {2 * q, 2 * q + 1} <=> q = r
        BY DEF Rotors
      <3>2. config[row] = Right(Left(wiring[row], key[r]), offset[r])
        <4>1. ~(rotor <= r) /\ ~(rotor <= r + 3)
          BY <1>1 DEF Rotors
        <4> QED BY <4>1 DEF IInv, Positions
      <3>3. CASE r \notin Steps
        <4>1. config'[row] = config[row] /\ key'[r] = key[r]
          BY <1>3, <1>4, <1>5, <3>1, <3>3
        <4> QED BY <3>2, <4>1
      <3>4. CASE r \in Steps
        <4>1. config'[row] = Left(config[row], 1) /\ key'[r] = Stepped(key[r])
          BY <1>4, <1>5, <3>1, <3>4
        <4>2. Left(config[row], 1) = Right(Left(Left(wiring[row], key[r]), 1), offset[r])
          BY <1>2, <3>2, LeftRight
        <4>3. Left(Left(wiring[row], key[r]), 1) = Left(wiring[row], Stepped(key[r]))
          BY <1>2, LeftOnce
        <4> QED BY <4>1, <4>2, <4>3
      <3> QED BY <3>3, <3>4
    <2>3. \A r \in Rotors : ~(rotor' <= r) /\ ~(rotor' <= r + 3)
      BY <1>1 DEF Rotors
    <2> QED BY <1>1, <2>1, <2>2, <2>3 DEF Positions
  <1>8. ASSUME NEW row \in 0 .. 9 PROVE Perm(config'[row])
    <2>0. \A q \in 0 .. 9 : Perm(wiring[q])
      BY <1>1 DEF Wiring, Perm
    <2>1. CASE row \in 6 .. 9
      BY <1>1, <1>7, <2>0, <2>1 DEF Positions
    <2>2. CASE row \in 0 .. 5
      <3>1. PICK r \in Rotors : row \in {2 * r, 2 * r + 1}
        BY <2>2 DEF Rotors
      <3>2. config'[row] = Right(Left(wiring[row], key'[r]), offset[r])
        <4>1. ~(rotor' <= r) /\ ~(rotor' <= r + 3)
          BY <1>1 DEF Rotors
        <4> QED BY <1>1, <1>7, <3>1, <4>1 DEF Positions
      <3>3. Perm(Left(wiring[row], key'[r]))
        BY <1>6, <2>0, LeftPerm
      <3> QED BY <1>2, <3>2, <3>3, RightPerm
    <2> QED BY <2>1, <2>2
  <1>9. Machine(config') /\ Reflector(config')
    <2>1. config'[6] = wiring[6] /\ config'[7] = wiring[7]
      BY <1>1, <1>7 DEF Positions
    <2> QED BY <1>1, <1>8, <2>1 DEF Machine, Reflector, Wiring
  <1>10. plain \in Seq(Letters) /\ enc \in Seq(Letters) /\ Len(enc) < Len(plain)
    BY DEF IInv, TypeOK, Encrypt
  <1> DEFINE l == plain[Len(enc) + 1]
  <1>11. l \in Letters
    BY <1>10
  <1>12. enc' = Append(enc, Encrypted(config', l))
    BY DEF Encrypt
  <1> HIDE DEF l
  <1>13. /\ Encrypted(config', l) \in Letters
         /\ Encrypted(config', Encrypted(config', l)) = l
    BY <1>9, <1>11, Involution
  <1>14. /\ enc' \in Seq(Letters) /\ Len(enc') = Len(enc) + 1
         /\ enc'[Len(enc')] = Encrypted(config', l)
    BY <1>10, <1>12, <1>13
  <1>15. TypeOK'
    <2>1. config' \in [0 .. 9 -> [Letters -> Letters]]
      <3>1. \A row \in 0 .. 9 : config'[row] \in [Letters -> Letters]
        BY <1>8 DEF Perm
      <3> QED BY <1>4, <3>1
    <2>2. key' \in [Rotors -> Letters]
      BY <1>5, <1>6
    <2> QED BY <1>1, <1>14, <2>1, <2>2 DEF IInv, TypeOK
  <1> QED BY <1>7, <1>13, <1>14, <1>15 DEF IInv, l

LEMMA Inductive ==
    ASSUME IInv, [Next]_vars
    PROVE  IInv'
  <1>1. CASE Set
    BY <1>1, SetStep
  <1>2. CASE Encrypt
    BY <1>2, EncryptStep
  <1>3. CASE UNCHANGED vars
    BY <1>3 DEF vars, IInv, TypeOK, Positions
  <1> QED BY <1>1, <1>2, <1>3 DEF Next

-----------------------------------------------------------------------------
LEMMA InvariantHolds == Spec => []IInv
  <1>1. Init => IInv
    BY InitInv
  <1>2. IInv /\ [Next]_vars => IInv'
    BY Inductive
  <1> QED BY <1>1, <1>2, PTL DEF Spec

(***************************************************************************)
(* Rows, keys and texts keep their types: traverse always finds its letter.*)
(***************************************************************************)
THEOREM TypeCorrect == Spec => []TypeOK
  <1>1. IInv => TypeOK
    BY DEF IInv
  <1> QED BY <1>1, InvariantHolds, PTL

(***************************************************************************)
(* The rotors are where their keys and offsets say, for any notches: also  *)
(* after double steps, and however often a key has gone round.             *)
(***************************************************************************)
THEOREM PositionsTheorem == Spec => []Positions
  <1>1. IInv => Positions
    BY DEF IInv
  <1> QED BY <1>1, InvariantHolds, PTL

(***************************************************************************)
(* A machine in the same position gets every letter of the text back from  *)
(* what it is encrypted to, for any wiring with a reflector that is an     *)
(* exchange of pairs.                                                      *)
(***************************************************************************)
THEOREM DecodesTheorem == Spec => Decodes
  <1>1. IInv /\ [Next]_vars =>
            [Encrypt => Encrypted(config', enc'[Len(enc')]) = plain[Len(enc')]]_vars
    <2> SUFFICES ASSUME IInv, Encrypt
                 PROVE  Encrypted(config', enc'[Len(enc')]) = plain[Len(enc')]
      OBVIOUS
    <2> QED BY EncryptStep
  <1> QED BY <1>1, InvariantHolds, PTL DEF Spec, Decodes
=============================================================================
