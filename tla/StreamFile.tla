----------------------------- MODULE StreamFile -----------------------------
(***************************************************************************)
(* A file on the disk and the buffer of an fstream in front of it, both as *)
(* functions from the addresses written to what is there: bytes or rows.   *)
(* Both storages keep their data this way.                                 *)
(***************************************************************************)
EXTENDS Integers, Sequences

CONSTANT Hole  \* what a read finds at an address nobody has written

Empty == [x \in {} |-> 0]

\* Cells written over a file; how long it is; what is at an address.
Over(new, old) == [a \in DOMAIN new \cup DOMAIN old |-> IF a \in DOMAIN new THEN new[a] ELSE old[a]]
Length(file) == IF DOMAIN file = {} THEN 0
                ELSE 1 + CHOOSE a \in DOMAIN file : \A b \in DOMAIN file : b <= a
Cell(file, a) == IF a \in DOMAIN file THEN file[a] ELSE Hole

\* n cells from an address: what is there, and that the file reaches that far.
Slice(file, from, n)    == [i \in 1 .. n |-> Cell(file, from + i - 1)]
Readable(file, from, n) == n = 0 \/ from + n <= Length(file)

\* Cells put at an address, and by a loop that stops one short.
PlaceShort(cells, at) == [a \in at .. at + Len(cells) - 2 |-> cells[a - at + 1]]
Place(cells, at)      == [a \in at .. at + Len(cells) - 1 |-> cells[a - at + 1]]

\* The buffered cells before and from a cut: a buffer reaches the file in order.
Before(tail, cut) == [a \in {b \in DOMAIN tail : b < cut} |-> tail[a]]
From(tail, cut)   == [a \in {b \in DOMAIN tail : b >= cut} |-> tail[a]]

=============================================================================
