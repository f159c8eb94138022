---------------------------- MODULE MCKeyManager ----------------------------
EXTENDS KeyManager, TLC

\* Nine names that are legal; which ones makes no difference.
Spelled == "voter.add" :> <<27, 20>> @@ "voter.remove" :> <<27, 0, 23>> @@
           "group.copy" :> <<12, 8>> @@ "group.rename" :> <<12, 23>> @@
           "cntst.new" :> <<8, 19>> @@ "cntst.modify" :> <<8, 18>> @@
           "cntst.tally" :> <<8, 25>> @@ "cntst.delete" :> <<8, 9>> @@ "dcsn.set" :> <<9, 24>>

Fmv   == <<11, 18, 27>>
Owner == <<6, 8>>

\* A short name, the longest kind of legal name, one with an '@', one with a foreign character
\* and a dot at its end, one that is too long, and one with a letter in the 13th place that
\* four bits do not hold.
Typed == {<<7>>, [i \in 1..13 |-> 8], <<7, At, 8>>, <<Foreign, 7, 0>>,
          [i \in 1..14 |-> 9], [i \in 1..13 |-> 20]}
=============================================================================
