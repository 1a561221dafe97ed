--------------------------- MODULE MCMarketplace ---------------------------
(* Two requests for one asset with overlapping periods, and a third for    *)
(* the same asset that overlaps only the second.                           *)
EXTENDS RentalScreens, TLC

CONSTANTS r1, r2, r3

MCAssetOf == [r \in Rentals |-> "asset"]
MCStartAt == [r \in Rentals |-> CASE r = r1 -> 1 [] r = r2 -> 2 [] OTHER -> 3]
MCEndAt == [r \in Rentals |-> CASE r = r1 -> 3 [] r = r2 -> 4 [] OTHER -> 5]

WorkerSymmetry == Permutations(Workers)
============================================================================
