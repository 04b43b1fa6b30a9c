----------------------------- MODULE MCTypeMux -----------------------------
(* The multiplexer with goroutines that can be exchanged for one another. *)
EXTENDS TypeMux, TLC

Symmetry == Permutations(Subs) \cup Permutations(Posters) \cup Permutations(Unsubscribers)
            \cup Permutations(Types)
=============================================================================
