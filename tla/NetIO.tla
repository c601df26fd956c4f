------------------------------- MODULE NetIO -------------------------------
(***************************************************************************)
(* The sockets of NetIO.cpp: a message is written as its length, in        *)
(* network order, and its bytes in chunks; it is read back by my_read,     *)
(* which calls recv until it has what it was asked for.  A send blocks     *)
(* while the buffers are full and lets bytes through in pieces; a recv     *)
(* returns whatever has arrived, at least one byte.                        *)
(*                                                                         *)
(* A link is one direction of a connection.  Bytes are 0 .. Base - 1.      *)
(* The module's user starts a call with WriteBytes or ReadBytes, lets it   *)
(* run by Send and Recv, and goes on once Written or Read holds.           *)
(***************************************************************************)
EXTENDS Integers, Sequences, SequencesExt

CONSTANTS Links,       \* the directions of the connections
          Base,        \* how many values a byte has
          HEADER_SIZE, \* sizeof(uint32_t)
          CHUNK_SIZE,
          SockBuf      \* how many bytes the kernel holds on a link

ASSUME NetIOAssumption ==
    /\ Base \in Nat \ {0, 1} /\ HEADER_SIZE \in Nat \ {0}
    /\ CHUNK_SIZE \in Nat \ {0} /\ SockBuf \in Nat \ {0}

VARIABLES stream, \* stream[l]: the bytes in the kernel's buffers
          out,    \* out[l]: the sender's call of write_bytes
          in      \* in[l]: the receiver's call of read_bytes

netvars == <<stream, out, in>>

Byte == 0 .. Base - 1

\* n without its last k bytes, for every k.
Shifted(n) ==
    LET shift[k \in 0 .. HEADER_SIZE] == IF k = 0 THEN n ELSE shift[k - 1] \div Base
    IN  shift

htonl(n) == [i \in 1 .. HEADER_SIZE |-> Shifted(n)[HEADER_SIZE - i] % Base]

\* The number that the first k bytes of b make up, for every k.
Value(b) ==
    LET value[k \in 0 .. HEADER_SIZE] == IF k = 0 THEN 0 ELSE value[k - 1] * Base + b[k]
    IN  value

ntohl(b) == Value(b)[HEADER_SIZE]

\* A length for which there is room in the header.
Fits(n) == n \in Nat /\ Shifted(n)[HEADER_SIZE] = 0

NoWrite == [pc |-> "idle", bytes |-> <<>>, ix |-> 0, sz |-> 0, pend |-> <<>>]

NoRead == [pc |-> "idle", bytes |-> <<>>, ix |-> 0, size |-> 0, sz |-> 0, n |-> 0,
           got |-> <<>>]

NetInit ==
    /\ stream = [l \in Links |-> <<>>]
    /\ out = [l \in Links |-> NoWrite]
    /\ in = [l \in Links |-> NoRead]

-----------------------------------------------------------------------------
(***************************************************************************)
(* write_bytes.  pend is what the current call of send has not handed to   *)
(* the kernel; sz and ix are those of the loop over the chunks.            *)
(***************************************************************************)
WriteBytes(l, bytes) ==
    /\ out[l].pc = "idle"
    /\ out' = [out EXCEPT ![l] = [pc |-> "chunks", bytes |-> bytes, ix |-> 0,
                                  sz |-> Len(bytes), pend |-> htonl(Len(bytes))]]
    /\ UNCHANGED <<stream, in>>

\* The kernel takes the next k bytes of the pending send.
SendSome(l) ==
    \E k \in 1 .. Len(out[l].pend) :
        /\ Len(stream[l]) + k <= SockBuf
        /\ stream' = [stream EXCEPT ![l] = @ \o SubSeq(out[l].pend, 1, k)]
        /\ out' = [out EXCEPT ![l].pend = SubSeq(@, k + 1, Len(@))]
        /\ UNCHANGED in

\* (Mutant: the index stays.)
SendChunkAgain(l) ==
    LET o == out[l] IN
    /\ o.pc = "chunks" /\ o.pend = <<>> /\ o.sz > CHUNK_SIZE
    /\ out' = [out EXCEPT ![l].pend = SubSeq(o.bytes, o.ix + 1, o.ix + CHUNK_SIZE),
                          ![l].sz = @ - CHUNK_SIZE]
    /\ UNCHANGED <<stream, in>>

SendChunk(l) ==
    LET o == out[l] IN
    /\ o.pc = "chunks" /\ o.pend = <<>> /\ o.sz > CHUNK_SIZE
    /\ out' = [out EXCEPT ![l].pend = SubSeq(o.bytes, o.ix + 1, o.ix + CHUNK_SIZE),
                          ![l].sz = @ - CHUNK_SIZE,
                          ![l].ix = @ + CHUNK_SIZE]
    /\ UNCHANGED <<stream, in>>

SendLast(l) ==
    LET o == out[l] IN
    /\ o.pc = "chunks" /\ o.pend = <<>> /\ o.sz <= CHUNK_SIZE
    /\ out' = [out EXCEPT ![l].pend = SubSeq(o.bytes, o.ix + 1, Len(o.bytes)),
                          ![l].pc = "last"]
    /\ UNCHANGED <<stream, in>>

Written(l) == out[l].pc = "last" /\ out[l].pend = <<>>

EndWrite(l) == out' = [out EXCEPT ![l] = NoWrite] /\ UNCHANGED <<stream, in>>

Send(l) == SendSome(l) \/ SendChunk(l) \/ SendLast(l)

-----------------------------------------------------------------------------
(***************************************************************************)
(* read_bytes.  got is what the current my_read has of the n bytes it was  *)
(* asked for, bytes what the earlier ones have brought.                    *)
(***************************************************************************)
ReadBytes(l) ==
    /\ in[l].pc = "idle"
    /\ in' = [in EXCEPT ![l].pc = "header", ![l].n = HEADER_SIZE]
    /\ UNCHANGED <<stream, out>>

\* One call of recv in my_read.
RecvSome(l) ==
    /\ in[l].pc # "idle"
    /\ \E k \in 1 .. in[l].n - Len(in[l].got) :
        /\ k <= Len(stream[l])
        /\ in' = [in EXCEPT ![l].got = @ \o SubSeq(stream[l], 1, k)]
        /\ stream' = [stream EXCEPT ![l] = SubSeq(@, k + 1, Len(@))]
        /\ UNCHANGED out

MyReadDone(l) == in[l].pc # "idle" /\ Len(in[l].got) = in[l].n

\* The next my_read, of sz bytes left from index ix on.
NextRead(l, bytes, ix, size, sz) ==
    in' = [in EXCEPT ![l] =
             IF sz > CHUNK_SIZE
             THEN [pc |-> "chunk", bytes |-> bytes, ix |-> ix, size |-> size, sz |-> sz,
                   n |-> CHUNK_SIZE, got |-> <<>>]
             ELSE [pc |-> "last", bytes |-> bytes, ix |-> ix, size |-> size, sz |-> sz,
                   n |-> size - ix, got |-> <<>>]]

RecvHeader(l) ==
    /\ in[l].pc = "header" /\ MyReadDone(l)
    /\ LET size == ntohl(in[l].got) IN NextRead(l, <<>>, 0, size, size)
    /\ UNCHANGED <<stream, out>>

RecvChunk(l) ==
    LET i == in[l] IN
    /\ i.pc = "chunk" /\ MyReadDone(l)
    /\ NextRead(l, i.bytes \o i.got, i.ix + CHUNK_SIZE, i.size, i.sz - CHUNK_SIZE)
    /\ UNCHANGED <<stream, out>>

Read(l) == in[l].pc = "last" /\ MyReadDone(l)

Message(l) == in[l].bytes \o in[l].got

EndRead(l) == in' = [in EXCEPT ![l] = NoRead] /\ UNCHANGED <<stream, out>>

Recv(l) == RecvSome(l) \/ RecvHeader(l) \/ RecvChunk(l)

-----------------------------------------------------------------------------
(***************************************************************************)
(* The other end is gone: once the stream is empty, recv returns 0, which  *)
(* the loop of my_read adds to its index for ever (no step here).  If the  *)
(* connection is reset what was under way is lost, and one recv returns    *)
(* -1, which the loop adds as well.                                        *)
(***************************************************************************)
Reset(l) ==
    /\ in[l].pc # "idle"
    /\ stream' = [stream EXCEPT ![l] = <<>>]
    /\ in' = [in EXCEPT ![l].got = IF @ = <<>> THEN @ ELSE Front(@)]
    /\ UNCHANGED out
=============================================================================
