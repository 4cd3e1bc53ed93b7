-------------------------------- MODULE MCPhone --------------------------------
(* Instances of Phone for TLC.                                               *)
EXTENDS Phone, TLC

Alike == Permutations(Person) \cup Permutations(Number)
            \cup Permutations(Sender) \cup Permutations(Request)

==============================================================================
