----------------------------- MODULE EosioName -----------------------------
(***************************************************************************)
(* Account and action names, which the backend keeps as 64-bit words       *)
(* (src/cpp/EosioName.hpp and the struct `name` of src/cpp/KeyManager.cpp).*)
(*                                                                         *)
(* A string is a sequence of characters; a character of the name alphabet  *)
(* ".12345abc...z" is its index there, any other is a larger number.  A    *)
(* word is the function of its 13 digits: twelve of five bits each, from   *)
(* the top, and a last one of four.  The shifts of the code put no two     *)
(* digits on the same bit, so a word and its digits are the same thing.    *)
(*                                                                         *)
(* A definition whose name ends in _<Slip> is the one it precedes with a   *)
(* plausible slip in it: no specification uses it.                         *)
(***************************************************************************)
EXTENDS Integers, Sequences

Radix     == 32
LastRadix == 16
Length    == 13

Symbols    == 0 .. Radix - 1
At         == Radix       \* '@', which separates actor and permission
Foreign    == Radix + 1   \* any other character outside the alphabet
Characters == Symbols \cup {At, Foreign}
Strings    == Seq(Characters)

RadixAt(i) == IF i < Length THEN Radix ELSE LastRadix
Words      == {w \in [1..Length -> Symbols] : \A i \in 1..Length : w[i] < RadixAt(i)}

char_to_symbol(c) == IF c \in Symbols THEN c ELSE 0

string_to_uint64_t_Unmasked(str) ==
    [i \in 1..Length |-> IF i <= Len(str) THEN char_to_symbol(str[i]) ELSE 0]

\* The n |= ... of the loop, and of the 13th character, which is NUL after twelve.
string_to_uint64_t(str) ==
    [i \in 1..Length |-> IF i <= Len(str) THEN char_to_symbol(str[i]) % RadixAt(i) ELSE 0]

Zero == [i \in 1..Length |-> 0]

\* name::set of the KeyManager leaves the word at zero if the string is too long.
name(str) == IF Len(str) > Length THEN Zero ELSE string_to_uint64_t(str)

\* What is left of the 13 characters when the dots at the end are cut off.
Trimmed(w) == CHOOSE n \in 0..Length : /\ \A i \in 1..Length : i > n => w[i] = 0
                                       /\ n > 0 => w[n] # 0

to_string_DropsLast(w) == SubSeq(w, 1, IF w[Length] # 0 THEN Length - 1 ELSE Trimmed(w))

to_string(w) == SubSeq(w, 1, Trimmed(w))

\* The strings that name an account: they are what some word prints as.
LegalNames ==
    {s \in Strings : /\ Len(s) <= Length
                     /\ \A i \in 1..Len(s) : s[i] \in Symbols /\ s[i] < RadixAt(i)
                     /\ Len(s) > 0 => s[Len(s)] # 0}
=============================================================================
