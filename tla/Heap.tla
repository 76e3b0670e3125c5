-------------------------------- MODULE Heap --------------------------------
(***************************************************************************)
(* The kernel heap, libc/kheap.c: boundary-tagged blocks and holes, and an *)
(* index of the holes ordered by size.  Every operation runs under         *)
(* heap_lock.                                                              *)
(*                                                                         *)
(* Memory is counted in cells; a header takes one cell and a footer one.   *)
(* What a program stores in its block is not metadata.  start_address is 0 *)
(* and the address space below max_address can be mapped.                  *)
(***************************************************************************)
EXTENDS Integers, SequencesExt

CONSTANTS Page,             \* cells of a page
          InitialEnd, MaxAddress,  \* the first end_address, and max_address
          Requests,         \* the sizes that are asked for
          Aligned           \* the values of page_align in use

ASSUME HeapAssumption ==
    /\ Page \in Nat \ {0} /\ InitialEnd \in 2..MaxAddress /\ MaxAddress \in Nat
    /\ Requests \subseteq Nat /\ Aligned \subseteq BOOLEAN

VARIABLES mem,          \* the contents of each cell
          index,        \* the headers of the holes
          end_address,
          live,         \* history: header and size of each block that a caller owns
          panicked

vars == <<mem, index, end_address, live, panicked>>

Header(size, is_hole) == [kind |-> "header", size |-> size, is_hole |-> is_hole]
Footer(header)        == [kind |-> "footer", header |-> header]
Data                  == [kind |-> "data"]

Tags == 2   \* sizeof(header_t) + sizeof(footer_t)
-----------------------------------------------------------------------------
\* The heap as one value.
Heap == [mem |-> mem, index |-> index, end |-> end_address]

\* header->magic and footer->magic are right.
IsHeader(m, a) == a \in DOMAIN m /\ m[a].kind = "header"
IsFooter(m, a) == a \in DOMAIN m /\ m[a].kind = "footer"

IsHole(m, a) == IsHeader(m, a) /\ m[a].is_hole

\* Mutant: the new hole goes to the end of the index.
insert_ordered_array_Mutant(h, a) == [h EXCEPT !.index = Append(@, a)]

insert_ordered_array(h, a) ==
    LET i == SelectInSeq(h.index, LAMBDA b : ~(h.mem[b].size < h.mem[a].size))
    IN  [h EXCEPT !.index = IF i = 0 THEN Append(@, a) ELSE InsertAt(@, i, a)]

\* The search for a in the index, and remove_ordered_array.
Unindexed(h, a) == [h EXCEPT !.index = Remove(@, a)]

\* The cells up to the first place for a header whose block is page aligned.
Offset(a) == (-(a + 1)) % Page

Fits(m, a, new_size, page_align) ==
    m[a].size - (IF page_align THEN Offset(a) ELSE 0) >= new_size

find_smallest_hole(h, new_size, page_align) ==
    SelectInSeq(h.index, LAMBDA a : Fits(h.mem, a, new_size, page_align))

\* Mutant: only the neighbour on the left is merged.
MergesRight_Mutant(h, a) == FALSE

MergesRight(h, a) == LET next == a + h.mem[a].size IN next + 1 <= h.end /\ IsHole(h.mem, next)

merge_right(h, a) ==
    IF ~MergesRight(h, a) THEN h
    ELSE LET next == a + h.mem[a].size
             size == h.mem[a].size + h.mem[next].size
         IN  Unindexed([h EXCEPT !.mem = [@ EXCEPT ![a].size = size, ![a + size - 1] = Footer(a)]], next)

\* Mutant: the hole on the left does not grow.
merge_left_Mutant(h, a) ==
    IF IsFooter(h.mem, a - 1) /\ h.mem[a - 1].header + 1 <= h.end /\ IsHole(h.mem, h.mem[a - 1].header)
    THEN [h EXCEPT !.mem[a + h.mem[a].size - 1] = Footer(h.mem[a - 1].header)]
    ELSE insert_ordered_array(h, a)

\* The block's own footer is updated; the merged hole is inserted again.
merge_left(h, a) ==
    IF IsFooter(h.mem, a - 1) /\ h.mem[a - 1].header + 1 <= h.end /\ IsHole(h.mem, h.mem[a - 1].header)
    THEN LET prev == h.mem[a - 1].header
             size == h.mem[a].size
             last == a + size - 1
         IN  insert_ordered_array(
                 Unindexed([h EXCEPT !.mem = [@ EXCEPT ![prev].size = @ + size, ![last] = Footer(prev)]], prev),
                 prev)
    ELSE insert_ordered_array(h, a)

free_internal(h, a) ==
    IF IsHeader(h.mem, a) /\ IsFooter(h.mem, a + h.mem[a].size - 1)
    THEN merge_left(merge_right([h EXCEPT !.mem[a].is_hole = TRUE], a), a)
    ELSE h

RoundUp(n) == IF n % Page = 0 THEN n ELSE (n - (n % Page)) + Page

\* The heap doubles, or grows by the request if that is more.
NewSize(h, new_size) ==
    RoundUp(IF 2 * h.end < h.end + new_size THEN h.end + new_size ELSE 2 * h.end)

expand(h, size) ==
    free_internal([h EXCEPT !.end = size,
                            !.mem = [@ EXCEPT ![h.end] = Header(size - h.end, TRUE),
                                              ![size - 1] = Footer(h.end)]], h.end)
-----------------------------------------------------------------------------
\* Mutant: the prefix hole keeps the size of the whole hole.
Prefixed_Mutant(h, a, prefix) == IF prefix < Tags THEN h ELSE insert_ordered_array(h, a)

\* The cells before the aligned header: a hole of their own if they have room for
\* its tags, else wasted.
Prefixed(h, a, prefix) ==
    IF prefix < Tags THEN h
    ELSE insert_ordered_array([h EXCEPT !.mem = [@ EXCEPT ![a] = Header(prefix, TRUE),
                                                          ![a + prefix - 1] = Footer(a)]], a)

Block(h, a, size) ==
    [h EXCEPT !.mem = [c \in DOMAIN @ |-> CASE c = a -> Header(size, FALSE)
                                            [] c = a + size - 1 -> Footer(a)
                                            [] a < c /\ c < a + size - 1 -> Data
                                            [] OTHER -> @[c]]]

Rest(h, a, size) ==
    insert_ordered_array([h EXCEPT !.mem = [@ EXCEPT ![a] = Header(size, TRUE),
                                                     ![a + size - 1] = Footer(a)]], a)

\* A block of that size at a, in hole_size cells; what is left is a hole.
Split(h, a, size, hole_size) ==
    IF size = hole_size THEN Block(h, a, size)
    ELSE Rest(Block(h, a, size), a + size, hole_size - size)

\* create_heap leaves one hole, whose footer is not written; the first allocation of
\* the boot, a small one, splits it.
Init ==
    LET first == Min(Requests) + Tags
        hole  == [mem |-> [a \in 0..MaxAddress - 1 |-> Data], index |-> <<>>, end |-> InitialEnd]
        h     == Split(hole, 0, first, InitialEnd)
    IN  /\ mem = h.mem /\ index = h.index /\ end_address = h.end
        /\ live = {<<0, first>>}
        /\ panicked = FALSE

\* The block that replaces entry i of the index.
place(h, i, new_size, page_align) ==
    LET hole == h.index[i]
        prefix == IF page_align THEN Offset(hole) ELSE 0
        a    == hole + prefix
        left == h.mem[hole].size - prefix
        size == IF left - new_size < Tags THEN left ELSE new_size
        g    == Split(Prefixed([h EXCEPT !.index = RemoveAt(@, i)], hole, prefix), a, size, left)
    IN  /\ mem' = g.mem /\ index' = g.index /\ end_address' = g.end
        /\ live' = live \cup {<<a, size>>}

\* alloc: a hole whose size cannot be, and a heap at its maximum, are panics.
alloc(request, page_align) ==
    LET new_size == request + Tags
        full == find_smallest_hole(Heap, new_size, page_align) = 0
        n == NewSize(Heap, new_size)
        h == IF full THEN expand(Heap, n) ELSE Heap
        i == find_smallest_hole(h, new_size, page_align)
        Panics == IF full /\ n > MaxAddress THEN TRUE ELSE i # 0 /\ h.mem[h.index[i]].size > MaxAddress
    IN  /\ ~panicked
        /\ panicked' = Panics
        /\ \/ /\ Panics
              /\ UNCHANGED <<mem, index, end_address, live>>
           \/ /\ ~Panics /\ i = 0
              /\ mem' = h.mem /\ index' = h.index /\ end_address' = h.end
              /\ UNCHANGED live
           \/ /\ ~Panics /\ i # 0
              /\ place(h, i, new_size, page_align)

free(b) ==
    /\ ~panicked
    /\ LET h == free_internal(Heap, b[1]) IN mem' = h.mem /\ index' = h.index /\ end_address' = h.end
    /\ live' = live \ {b}
    /\ UNCHANGED panicked

Next ==
    \/ \E n \in Requests, page_align \in Aligned : alloc(n, page_align)
    \/ \E b \in live : free(b)

Spec == Init /\ [][Next]_vars
-----------------------------------------------------------------------------
Cell == {Data} \cup [kind : {"header"}, size : 1..MaxAddress, is_hole : BOOLEAN] \cup [kind : {"footer"}, header : 0..MaxAddress - 1]

TypeOK ==
    /\ \A a \in 0..MaxAddress - 1 : mem[a] \in Cell
    /\ \A i \in DOMAIN index : index[i] \in 0..MaxAddress - 1
    /\ end_address \in 0..MaxAddress
    /\ \A b \in live : b[1] \in 0..MaxAddress - 1 /\ b[2] \in Nat
    /\ panicked \in BOOLEAN

Cells(b) == b[1]..(b[1] + b[2] - 1)

Holes == {<<index[i], mem[index[i]].size>> : i \in DOMAIN index}

\* No block that a caller owns overlaps another or a hole that may be handed out
\* again, and its tags are intact, whatever is allocated and freed in between.
NoOverlap ==
    /\ \A b \in live : mem[b[1]] = Header(b[2], FALSE) /\ mem[b[1] + b[2] - 1] = Footer(b[1])
    /\ \A b \in live, c \in live \cup Holes : b # c => Cells(b) \cap Cells(c) = {}

\* Blocks and holes together cover the heap: free() and the splits lose nothing.
AllAccounted == UNION {Cells(b) : b \in live \cup Holes} = 0..end_address - 1

\* The index names holes only, each once, the smallest first, so the first that fits is
\* the best (that every hole is in it is AllAccounted).
IndexOrdered ==
    /\ TypeOK
    /\ IsInjective(index)
    /\ \A i, j \in DOMAIN index : i < j => mem[index[i]].size <= mem[index[j]].size
    /\ \A i \in DOMAIN index : IsHole(mem, index[i])

\* Neighbouring holes are always merged, in whatever order their blocks were freed.
Coalesced == \A a, b \in Holes : a[1] + a[2] # b[1]
=============================================================================
