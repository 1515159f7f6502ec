----------------------------- MODULE MCBookings -----------------------------
(* Bookings on a small instance: one amenity, two reservations, and        *)
(* enough instants for two slots to touch, overlap, nest or be apart.      *)
EXTENDS Bookings, TLC

Symmetry == Permutations(Bookings) \cup Permutations(Requests)

=============================================================================
