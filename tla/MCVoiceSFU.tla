------------------------------ MODULE MCVoiceSFU -----------------------------
(* VoiceSFU with two users, one of whom has two connections: a second device *)
(* or a reconnect.                                                           *)
EXTENDS VoiceSFU, TLC

CONSTANTS alice, bob, alice1, alice2, bob1

MCUser == (alice1 :> alice) @@ (alice2 :> alice) @@ (bob1 :> bob)

Symmetry ==
  Permutations(Pubs) \cup Permutations(Subs)
    \cup Permutations({alice1, alice2})
=============================================================================
