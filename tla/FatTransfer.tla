----------------------------- MODULE FatTransfer -----------------------------
(***************************************************************************)
(* The bytes of one file of a FAT volume (filesystem/fat12.c): how         *)
(* writefile12EX2 and loadfile12EX2 cut the bytes from start to end into   *)
(* pieces, one for each cluster of the chain, and where in the cluster and *)
(* in the caller's buffer each piece lies.  The requests for the clusters  *)
(* are IoScheduler's subject, the chain is FatChains'.                     *)
(***************************************************************************)
EXTENDS Integers

CONSTANTS
  ClusterBytes,     \* bytes of a cluster (bound)
  FileClusters,     \* clusters of the file (bound)
  Stamps,           \* what a byte may be
  Unset             \* what is in a buffer that is not written

ASSUME TransferAssumption ==
  /\ ClusterBytes \in Nat \ {0} /\ FileClusters \in Nat \ {0}
  /\ Unset \notin Stamps

Places == 0 .. ClusterBytes * FileClusters - 1

VARIABLES
  content,      \* the clusters of the file, one after the other
  memory,       \* a reader's memory, from the buffer it passed on
  intended,     \* auxiliary: what the clusters should hold
  asked         \* auxiliary: the bytes read into memory, if any

transferVars == <<content, memory, intended, asked>>

NoRequest == <<>>
Untouched == [k \in Places |-> Unset]

TransferInit ==
  /\ content \in [Places -> Stamps] /\ intended = content
  /\ memory = Untouched /\ asked = NoRequest

------------------------------------------------------------------------------
StartBlock(start) == start \div ClusterBytes
EndBlock(end) == end \div ClusterBytes
StartAdj(start) == start % ClusterBytes
Adj(end) == (end % ClusterBytes) + 1
StartLength(start) == ClusterBytes - StartAdj(start)

\* A piece: place in the cluster, length, and place in the caller's buffer.
Piece(at, length, ofs) == [within |-> at, length |-> length, ofs |-> ofs]
After(piece) == piece.ofs + piece.length

\* What is moved for a block when the bytes from start to end begin in block
\* first and end in block last, and ofs bytes were moved before.
PieceOf(block, first, last, start, end, ofs) ==
  IF block = first /\ block = last THEN Piece(StartAdj(start), end - start + 1, 0)
  ELSE IF block = first THEN Piece(StartAdj(start), StartLength(start), 0)
  ELSE IF block = last THEN Piece(0, Adj(end), ofs)
  ELSE Piece(0, ClusterBytes, ofs)

\* Mutant: ofs does not count what the first piece took.
WritePiecesLate(start, end) ==
  LET first == StartBlock(start)  last == EndBlock(end)
      pieces[b \in first .. last] ==
        PieceOf(b, first, last, start, end, (b - first - 1) * ClusterBytes)
  IN  pieces

\* writefile12EX2 counts blocks from the start of the file.
WritePieces(start, end) ==
  LET first == StartBlock(start)  last == EndBlock(end)
      pieces[b \in first .. last] ==
        PieceOf(b, first, last, start, end,
                IF b = first THEN 0 ELSE After(pieces[b - 1]))
  IN  pieces

Covers(piece, k) == piece.within <= k /\ k < piece.within + piece.length

writefile12EX2(start, end, buf) ==
  LET pieces == WritePieces(start, end) IN
  /\ asked = NoRequest
  /\ content' = [k \in Places |->
       LET b == k \div ClusterBytes  r == k % ClusterBytes IN
       IF b \in DOMAIN pieces /\ Covers(pieces[b], r)
       THEN buf[pieces[b].ofs + r - pieces[b].within] ELSE content[k]]
  /\ intended' = [k \in Places |-> IF start <= k /\ k <= end THEN buf[k - start] ELSE intended[k]]
  /\ UNCHANGED <<memory, asked>>

\* loadfile12EX2 counts the clusters it has read, but compares the count with
\* the numbers of the first and the last block.
ReadPieces(start, end) ==
  LET first == StartBlock(start)  last == EndBlock(end)
      pieces[i \in 0 .. last - first] ==
        PieceOf(i, first, last, start, end,
                IF i = 0 THEN 0 ELSE After(pieces[i - 1]))
  IN  pieces

\* What it leaves in memory from the caller's buffer on: the last copy to a
\* place is what stays.
loadfile12EX2(start, end) ==
  LET pieces == ReadPieces(start, end)
      writers(k) == {i \in DOMAIN pieces : pieces[i].ofs <= k /\ k < After(pieces[i])}
      byte(i, k) == content[(StartBlock(start) + i) * ClusterBytes + pieces[i].within + k - pieces[i].ofs]
  IN  /\ asked = NoRequest /\ asked' = <<start, end>>
      /\ memory' = [k \in Places |->
           IF writers(k) = {} THEN memory[k]
           ELSE byte(CHOOSE i \in writers(k) : \A j \in writers(k) : j <= i, k)]
      /\ UNCHANGED <<content, intended>>

\* The reader is done with what it read.
ReadIsUsed ==
  /\ asked # NoRequest /\ asked' = NoRequest
  /\ memory' = Untouched
  /\ UNCHANGED <<content, intended>>

TransferNext ==
  \/ \E start, end \in Places : start <= end /\
       \/ loadfile12EX2(start, end)
       \/ \E buf \in [0 .. end - start -> Stamps] : writefile12EX2(start, end, buf)
  \/ ReadIsUsed

TransferSpec == TransferInit /\ [][TransferNext]_transferVars

------------------------------------------------------------------------------
\* The reads that come out right: those that begin in the first cluster, and
\* those from the start of a cluster over no more clusters than lie before it.
\* The buffer of 512 bytes that vfs_readchar fills asks for nothing else as long
\* as a cluster is a sector and nobody seeks.
PlainRead(start, end) ==
  \/ StartBlock(start) = 0
  \/ StartAdj(start) = 0 /\ EndBlock(end) < 2 * StartBlock(start)

\* How much of the caller's memory such a read may use: a piece that is not
\* taken for the last one is a whole cluster.
Touched(start, end) ==
  IF StartBlock(start) = 0 THEN end - start + 1
  ELSE (EndBlock(end) - StartBlock(start) + 1) * ClusterBytes

\* A write puts each byte in its place and touches no other, over any number of
\* clusters; the reads above give the bytes asked for.
TransfersAreExact ==
  /\ content \in [Places -> Stamps] /\ content = intended
  /\ memory \in [Places -> Stamps \cup {Unset}]
  /\ asked # NoRequest =>
       LET start == asked[1]  end == asked[2] IN
       PlainRead(start, end) =>
         /\ \A k \in 0 .. end - start : memory[k] = content[start + k]
         /\ \A k \in Places : k >= Touched(start, end) => memory[k] = Unset
==============================================================================
