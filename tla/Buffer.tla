------------------------------- MODULE Buffer -------------------------------
(***************************************************************************)
(* The byte buffer of net/Buffer.h and net/Buffer.cc: a vector and two     *)
(* indices.  What lies between them is readable; what lies before and      *)
(* behind may be left from earlier.  Indices count from 0, as in the code, *)
(* so that cells[i + 1] is buffer_[i].                                     *)
(***************************************************************************)
EXTENDS Naturals, Sequences

CONSTANTS CheapPrepend,   \* kCheapPrepend
          InitialSize,    \* kInitialSize
          ExtraSize       \* sizeof(extrabuf) in readFd

ASSUME BufferAssumption == /\ CheapPrepend \in Nat
                           /\ InitialSize \in Nat
                           /\ ExtraSize \in Nat

\* A vector of n bytes that nobody has written yet.
Blank(n) == SubSeq([i \in 1..n |-> 0], 1, n)

EmptyBuffer == [cells  |-> Blank(CheapPrepend + InitialSize),
                reader |-> CheapPrepend,
                writer |-> CheapPrepend]

Readable(b) == SubSeq(b.cells, b.reader + 1, b.writer)
Writable(b) == Len(b.cells) - b.writer

\* std::copy(data, data + len, begin() + at): what is copied behind the end is
\* not in the vector.
CopyTo(cells, at, data) ==
    SubSeq(SubSeq(cells, 1, at) \o data \o SubSeq(cells, at + Len(data) + 1, Len(cells)),
           1, Len(cells))

Resize(b, size) == [b EXCEPT !.cells = @ \o Blank(size - Len(@))]

\* The readable bytes are moved to the front.
SlideToFront(b) ==
    [cells  |-> CopyTo(b.cells, CheapPrepend, Readable(b)),
     reader |-> CheapPrepend,
     writer |-> CheapPrepend + Len(Readable(b))]

Mut_MakeSpace(b, len) ==
    IF Writable(b) + b.reader < len
    THEN Resize(b, b.writer + len)
    ELSE SlideToFront(b)

MakeSpace(b, len) ==
    IF Writable(b) + b.reader < len + CheapPrepend
    THEN Resize(b, b.writer + len)
    ELSE SlideToFront(b)

Ensure(b, len) == IF Writable(b) < len THEN MakeSpace(b, len) ELSE b

BufAppend(b, data) ==
    LET space == Ensure(b, Len(data))
    IN  [space EXCEPT !.cells = CopyTo(@, space.writer, data), !.writer = @ + Len(data)]

\* Reading everything resets both indices.
Retrieve(b, len) ==
    IF len < Len(Readable(b)) THEN [b EXCEPT !.reader = @ + len]
    ELSE [b EXCEPT !.reader = CheapPrepend, !.writer = CheapPrepend]

\* readv() fills the free part of the vector first, and an array on the stack
\* only if the free part is smaller than that.
ReadFdLimit(b) == IF Writable(b) < ExtraSize THEN Writable(b) + ExtraSize ELSE Writable(b)

ReadFd(b, data) ==
    LET first == IF Len(data) <= Writable(b) THEN Len(data) ELSE Writable(b)
        full  == [b EXCEPT !.cells = CopyTo(@, b.writer, SubSeq(data, 1, first)),
                           !.writer = @ + first]
    IN  IF Len(data) <= Writable(b) THEN full
        ELSE BufAppend(full, SubSeq(data, first + 1, Len(data)))

Indexed(b) == /\ CheapPrepend <= b.reader
              /\ b.reader <= b.writer
              /\ b.writer <= Len(b.cells)
=============================================================================
