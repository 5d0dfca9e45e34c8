------------------------------- MODULE Enigma -------------------------------
(***************************************************************************)
(* enigma.asm, as check_enigma.c drives it: the rotors are set from the    *)
(* key and the offsets, then step and encrypt one letter after another.    *)
(* Letters are 0 .. LETTERS_COUNT - 1.                                     *)
(***************************************************************************)
EXTENDS Integers, Sequences

CONSTANTS
    LETTERS_COUNT,
    Wirings,    \* what the ten rows of config may be in the files
    Keys,       \* keys, offsets and notches in them, of three letters each
    Plains      \* and the texts, none of them empty

Letters == 0 .. LETTERS_COUNT - 1
Rotors == 0 .. 2

\* Every row has every letter once, rows 2r and 2r + 1 are rotor r, and the
\* reflector of rows 6 and 7 exchanges letters in pairs.
Wiring(w) ==
    /\ w \in [0 .. 9 -> [Letters -> Letters]]
    /\ \A row \in 0 .. 9 : \A l \in Letters : \E n \in Letters : w[row][n] = l
    /\ \A row \in 0 .. 9 : \A m, n \in Letters : w[row][m] = w[row][n] => m = n
    /\ \A m, n \in Letters : w[7][m] = w[6][n] => w[7][n] = w[6][m]

ASSUME EnigmaAssumption ==
    /\ LETTERS_COUNT \in Nat \ {0}
    /\ \A w \in Wirings : Wiring(w)
    /\ Keys \subseteq [Rotors -> Letters]
    /\ \A p \in Plains : p \in Seq(Letters) /\ p # <<>>

VARIABLES
    wiring, offset,         \* what was read from the file
    config, key, notches,
    plain, enc,             \* the text, and what it is encrypted to so far
    rotor                   \* the next rotor to set, 6 when all are

vars == <<wiring, offset, config, key, notches, plain, enc, rotor>>

Init ==
    /\ wiring \in Wirings /\ config = wiring
    /\ key \in Keys /\ offset \in Keys /\ notches \in Keys
    /\ plain \in Plains /\ enc = <<>>
    /\ rotor = 0

-----------------------------------------------------------------------------
\* shift_left and shift_right: a row turned by x letters.
Left(row, x) ==
    [n \in Letters |-> row[IF n + x < LETTERS_COUNT THEN n + x ELSE n + x - LETTERS_COUNT]]
Right(row, x) == [n \in Letters |-> row[IF n >= x THEN n - x ELSE n - x + LETTERS_COUNT]]

\* A slip rotate_x_positions could have: only one row of the rotor turns.
BadRows(r) == {2 * r}
Rows(r) == {2 * r, 2 * r + 1}

\* config with the rows of some rotors turned, to the left if dir is 0.
Turned(cfg, rotors, x, dir) ==
    [row \in 0 .. 9 |->
        IF \A r \in rotors : row \notin Rows(r) THEN cfg[row]
        ELSE IF dir = 0 THEN Left(cfg[row], x) ELSE Right(cfg[row], x)]

\* main turns the rotors left by the key, and then right by the offsets.
Set ==
    /\ rotor < 6
    /\ config' = IF rotor < 3 THEN Turned(config, {rotor}, key[rotor], 0)
                 ELSE Turned(config, {rotor - 3}, offset[rotor - 3], 1)
    /\ rotor' = rotor + 1
    /\ UNCHANGED <<wiring, offset, key, notches, plain, enc>>

\* rotor3_ready, rotor2_ready and rotor1_ready: who steps before a letter.
\* Rotor 1 at its notch steps again, with rotor 0.
Steps == {2} \cup (IF key[2] = notches[2] \/ key[1] = notches[1] THEN {1} ELSE {})
             \cup (IF key[1] = notches[1] THEN {0} ELSE {})

Stepped(l) == IF l = LETTERS_COUNT - 1 THEN 0 ELSE l + 1

\* traverse: where the row `to` has the letter that `from` has at place n.
traverse(cfg, from, to, n) == CHOOSE m \in Letters : cfg[to][m] = cfg[from][n]

\* The path of a letter: in through the plugboard and the rotors from the
\* last to the first, and, from the reflector, back out.
Inward(cfg, n) ==
    traverse(cfg, 1, 0, traverse(cfg, 3, 2, traverse(cfg, 5, 4, traverse(cfg, 8, 9, n))))
\* A slip enigma could have: the rows of the last rotor are exchanged.
BadOutward(cfg, n) ==
    traverse(cfg, 9, 8, traverse(cfg, 5, 4, traverse(cfg, 2, 3, traverse(cfg, 0, 1, n))))
Outward(cfg, n) ==
    traverse(cfg, 9, 8, traverse(cfg, 4, 5, traverse(cfg, 2, 3, traverse(cfg, 0, 1, n))))
Encrypted(cfg, l) == Outward(cfg, traverse(cfg, 7, 6, Inward(cfg, l)))

Encrypt ==
    LET cfg == Turned(config, Steps, 1, 0)
    IN  /\ rotor = 6 /\ Len(enc) < Len(plain)
        /\ config' = cfg
        /\ key' = [r \in Rotors |-> IF r \in Steps THEN Stepped(key[r]) ELSE key[r]]
        /\ enc' = Append(enc, Encrypted(cfg, plain[Len(enc) + 1]))
        /\ UNCHANGED <<wiring, offset, notches, plain, rotor>>

Next == Set \/ Encrypt

Spec == Init /\ [][Next]_vars

-----------------------------------------------------------------------------
TypeOK ==
    /\ wiring \in Wirings
    /\ config \in [0 .. 9 -> [Letters -> Letters]]
    /\ key \in [Rotors -> Letters] /\ offset \in [Rotors -> Letters]
    /\ notches \in [Rotors -> Letters]
    /\ plain \in Seq(Letters) /\ enc \in Seq(Letters)
    /\ rotor \in 0 .. 6

\* Both rows of a rotor are where its key letter and its offset say, in every
\* step of the setting and after every letter; the other rows do not move.
Positions ==
    /\ \A r \in Rotors : \A row \in {2 * r, 2 * r + 1} :
          config[row] = IF rotor <= r THEN wiring[row]
                        ELSE IF rotor <= r + 3 THEN Left(wiring[row], key[r])
                        ELSE Right(Left(wiring[row], key[r]), offset[r])
    /\ \A row \in 6 .. 9 : config[row] = wiring[row]

\* A machine with the same settings that has come as far as this one gets the
\* letter of the text back from what it is encrypted to, for every wiring.
Decodes ==
    [][Encrypt => Encrypted(config', enc'[Len(enc')]) = plain[Len(enc')]]_vars
=============================================================================
