--------------------------- MODULE MCAddressSpace ---------------------------
\* Three regions, at most four pages of two bytes, and sizes that fill part of
\* a page, a page, and more than a page.
EXTENDS AddressSpace, TLC

Symmetry == Permutations(Regs)
=============================================================================
