------------------------------ MODULE SetupTools ------------------------------
(***************************************************************************)
(* What setup.py brings to the machine (tools/environment_setup.py): a      *)
(* download that goes on after a connection that breaks.                    *)
(*                                                                          *)
(* The artifact is the sequence of its bytes 1, 2, ... Size.  A reply says  *)
(* whether the server "honours" the range it is asked for, how many bytes   *)
(* come, and whether the connection "breaks" with an error or just ends.    *)
(***************************************************************************)
EXTENDS Integers, Sequences, SequencesExt

CONSTANT Size       \* bound: the bytes of the artifact

Artifact == [i \in 1..Size |-> i]

Bytes(from, many) == [i \in 1..(IF from + many > Size THEN Size - from ELSE many) |-> from + i]

\* A slip of Write: what comes is always appended.
WriteAlways(file, reply) ==
    IF reply.honours THEN file \o Bytes(Len(file), reply.bytes) ELSE file \o Bytes(0, reply.bytes)

\* Appended to when the server sends the rest, started again when it sends the whole.
Write(file, reply) ==
    IF file # <<>> /\ reply.honours THEN file \o Bytes(Len(file), reply.bytes)
    ELSE Bytes(0, reply.bytes)

\* One attempt: a file that is long enough is taken as it is; a range that begins after the
\* end is an error, as is a connection that breaks, and the next attempt goes on; a reply
\* that ends well is looked at.
Attempt(state, reply, expected) ==
    IF state.returned THEN state
    ELSE IF expected # 0 /\ Len(state.file) >= expected THEN [state EXCEPT !.returned = TRUE]
    ELSE IF Len(state.file) >= Size /\ Size > 0 /\ reply.honours THEN state
    ELSE LET written == Write(state.file, reply)
         IN [file |-> written,
             returned |-> ~reply.breaks /\ (expected = 0 \/ Len(written) >= expected)]

\* expected is 0 where the server does not tell a size.  The caller gets the file, or an
\* error when the attempts are used up.
DownloadResumable(file, replies, expected) ==
    FoldLeft(LAMBDA state, reply : Attempt(state, reply, expected),
             [file |-> file, returned |-> FALSE], replies)

=============================================================================
