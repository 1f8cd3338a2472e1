----------------------------- MODULE Documents -----------------------------
(* What input/ and a snapshot of it hold: a text, which stands for its     *)
(* hash, or nothing for each file name.                                    *)
EXTENDS Naturals, FiniteSets

CONSTANTS
    Names,  \* file names
    Texts,  \* contents of files, all of one size
    Absent  \* no such file, or no such entry

ASSUME DocumentsAssumption ==
    /\ IsFiniteSet(Names) /\ IsFiniteSet(Texts)
    /\ Names \cap Texts = {} /\ Absent \notin Texts

Entries == [Names -> Texts \cup {Absent}]
Nothing == [n \in Names |-> Absent]

Named(entries) == {n \in Names : entries[n] # Absent}
=============================================================================
