------------------------------- MODULE Channel -------------------------------
(***************************************************************************)
(* What an anonymous pipe promises to its users: a bounded first-in        *)
(* first-out channel of bytes with one end-of-file.                        *)
(***************************************************************************)
EXTENDS Naturals, Sequences

CONSTANTS Byte, Size

VARIABLES queue,                \* the bytes under way
          writable, readable,   \* some writer is left, some reader is
          io                    \* the transfer of the last step: its direction, the bytes asked for and the bytes moved

Transfer(op, asked, bytes) == [op |-> op, asked |-> asked, bytes |-> bytes]

NoTransfer == Transfer("none", 0, <<>>)

Init == queue = <<>> /\ writable = FALSE /\ readable = FALSE /\ io = NoTransfer

\* A write takes as many bytes as there is room for.
Send ==
    /\ io'.op = "write" /\ readable
    /\ queue' = queue \o io'.bytes
    /\ Len(queue') <= Size
    /\ Len(io'.bytes) = io'.asked \/ Len(queue') = Size
    /\ UNCHANGED <<writable, readable>>

\* A read takes as many bytes as there are; it returns none only at the end of file.
Receive ==
    /\ io'.op = "read"
    /\ queue = io'.bytes \o queue'
    /\ Len(io'.bytes) = io'.asked \/ queue' = <<>>
    /\ io'.bytes = <<>> => ~writable
    /\ UNCHANGED <<writable, readable>>

\* The last writer leaves: what is in the queue is still there for the readers.
Close == writable /\ ~writable' /\ io' = NoTransfer /\ UNCHANGED <<queue, readable>>

\* The last reader leaves: the writers are left without an addressee.
Hangup == readable /\ ~readable' /\ io' = NoTransfer /\ UNCHANGED <<queue, writable>>

\* Nobody holds the pipe any longer; only now may bytes be dropped.
Discard == (writable \/ readable) /\ ~writable' /\ ~readable' /\ queue' = <<>> /\ io' = NoTransfer

\* pipe(): a new pipe is empty, with a writer and a reader.
Create == ~writable /\ ~readable /\ queue = <<>> /\ writable' /\ readable' /\ io' = NoTransfer /\ UNCHANGED queue

\* A step that moves no byte.
Pause == io' = NoTransfer /\ UNCHANGED <<queue, writable, readable>>

Next == Send \/ Receive \/ Close \/ Hangup \/ Discard \/ Create \/ Pause

Spec == Init /\ [][Next]_<<queue, writable, readable, io>>
=============================================================================
