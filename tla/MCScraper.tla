----------------------------- MODULE MCScraper ------------------------------
(* Batches that overlap on their URLs, under one cache file.  Batches, and  *)
(* the positions in a batch's list, are interchangeable.                    *)
EXTENDS Scraper, TLC

CONSTANTS b1, b2, i1, i2, u1

MCBatch == {b1, b2}
MCSlot == {i1, i2}
ScraperSymmetry == Permutations(MCBatch) \cup Permutations(MCSlot)
=============================================================================
