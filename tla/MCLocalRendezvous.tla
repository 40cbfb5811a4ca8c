-------------------------- MODULE MCLocalRendezvous --------------------------
(* LocalRendezvous for TLC. *)
EXTENDS LocalRendezvous, TLC

CONSTANTS k1, k2, h1, h2

MCKeyHash == k1 :> h1 @@ k2 :> h2

Symmetry == Permutations(Senders) \cup Permutations(Receivers)
               \cup Permutations(Aborters)
=============================================================================
