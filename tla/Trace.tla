-------------------------------- MODULE Trace --------------------------------
(***************************************************************************)
(* The reader of a CPU trace (class Trace of Processor.h, Processor.cpp):  *)
(* a line of the file becomes one request, two requests when it crosses    *)
(* the end of a cache block, or none when it is larger than a block; a     *)
(* buffer of requests is kept full and read in order, and the lookahead    *)
(* predictor adds to a request the sectors that later requests of the      *)
(* buffer want of the same block.                                          *)
(*                                                                         *)
(* A request a line stands for is a piece.  The file is read from its      *)
(* beginning again when it ends, so what is read is the sequence Pieces,   *)
(* for ever.  Lines are those that end with a newline: getline reports the *)
(* end of the file for a last line without one, and it is never used.      *)
(***************************************************************************)
EXTENDS Integers, SequencesExt

CONSTANTS
  Lines,               \* the trace: bubbles, type, byte address, size
  BlockSize,           \* bytes of a cache block (64)
  sector_size,         \* bytes of a sector
  SectorTypes,         \* request types that carry sector bits: both with sectoredDRAM
                       \* or DGMS, WRITE with partialActivationDRAM, else none
  pretrace_buffer_size,
  lookahead_predictor  \* whether later requests of the buffer are merged

\* All bits of a request: 0xff, with the 8 sectors of every configuration.
Sector == 0..(BlockSize \div sector_size - 1)

ASSUME LineAssumption ==
  /\ {BlockSize, sector_size, pretrace_buffer_size} \subseteq Nat \ {0}
  /\ BlockSize % sector_size = 0
  /\ SectorTypes \subseteq {"READ", "WRITE"}
  /\ lookahead_predictor \in BOOLEAN
  /\ Lines \in Seq([bubbles : Nat, type : {"READ", "WRITE"}, addr : Nat, size : Nat])

-----------------------------------------------------------------------------
(***************************************************************************)
(* Lines and their sectors.                                                *)
(***************************************************************************)
BlockOf(l) == l.addr \div BlockSize
Offset(l)  == l.addr % BlockSize

\* "Ignoring request with size larger than a cache block, sorry..."
Ignored(l) == l.size > BlockSize

Divided(l) == Offset(l) + l.size > BlockSize

SectorRun(first, n) == first..(first + n - 1)

\* The part of a divided request in its first block: all up to the end.
FirstSectors(l) ==
  SectorRun(Offset(l) \div sector_size, (BlockSize - Offset(l) - 1) \div sector_size + 1)

\* Mutant of SecondSectors: the shift for the offset is not left out.
SecondSectorsShifted(l) ==
  SectorRun(Offset(l) \div sector_size,
            (l.size - (BlockSize - Offset(l))) \div sector_size + 1)

\* The part in its second block.
SecondSectors(l) == SectorRun(0, (l.size - (BlockSize - Offset(l))) \div sector_size + 1)

\* A request within a block: as many sectors as fit into its size, one at least.
WholeSectors(l) ==
  SectorRun(Offset(l) \div sector_size,
            IF l.size < sector_size THEN 1 ELSE l.size \div sector_size)

\* The sectors the bytes of a line lie in, in block b
Touched(l, b) ==
  {s \in Sector : \E a \in l.addr..(l.addr + l.size - 1) :
     a \div BlockSize = b /\ (a % BlockSize) \div sector_size = s}

Piece == [line : DOMAIN Lines, bubble_cnt : Nat, type : {"READ", "WRITE"}, block : Nat,
          sectors : SUBSET Nat, divided : BOOLEAN, first : BOOLEAN]

\* The pieces of the n-th line; which line it was is history.
PiecesOf(n) ==
  LET l == Lines[n]
      piece(bubbles, block, sectors, divided, first) ==
        [line |-> n, bubble_cnt |-> bubbles, type |-> l.type, block |-> block, divided |-> divided,
         first |-> first, sectors |-> IF l.type \in SectorTypes THEN sectors ELSE {}]
  IN  IF Ignored(l) THEN << >>
      ELSE IF Divided(l)
      THEN << piece(l.bubbles, BlockOf(l), FirstSectors(l), TRUE, TRUE),
              piece(1, BlockOf(l) + 1, SecondSectors(l), TRUE, FALSE) >>
      ELSE << piece(l.bubbles, BlockOf(l), WholeSectors(l), FALSE, TRUE) >>

Pieces == FlattenSeq([n \in 1..Len(Lines) |-> PiecesOf(n)])

\* A file of ignored lines only would be read for ever.
ASSUME PieceAssumption == Pieces # << >>

\* The n-th piece from now on, p being the number of pieces read so far.
PieceAt(p, n) == Pieces[((p + n - 1) % Len(Pieces)) + 1]

-----------------------------------------------------------------------------
(***************************************************************************)
(* The buffer.                                                             *)
(***************************************************************************)
\* An entry of the buffer.  With the dynamic policy off all sectors are
\* wanted, which for divided requests holds only if they carry sectors at all,
\* and is then taken for their actual access too.
Entry(p, dynamicOn) ==
  LET all == ~dynamicOn /\ (p.divided => p.type \in SectorTypes)
  IN  [line |-> p.line, bubble_cnt |-> p.bubble_cnt, type |-> p.type, block |-> p.block,
       sectors |-> IF all THEN Sector ELSE p.sectors,
       actual  |-> IF all /\ p.divided THEN Sector ELSE p.sectors]

Wanted(t) == pretrace_buffer_size - Len(t.pretrace_buffer)

\* A divided request is read with both its halves, so the buffer may hold one
\* request more than its size.
NumRead(t) ==
  IF Wanted(t) <= 0 THEN 0
  ELSE IF PieceAt(t.read, Wanted(t)).divided /\ PieceAt(t.read, Wanted(t)).first
  THEN Wanted(t) + 1 ELSE Wanted(t)

populate_pretrace_buffer(t, dynamicOn) ==
  [read |-> (t.read + NumRead(t)) % Len(Pieces),
   pretrace_buffer |->
     t.pretrace_buffer \o [n \in 1..NumRead(t) |-> Entry(PieceAt(t.read, n), dynamicOn)]]

\* What the requests that are still in the buffer want of the same block
Lookahead(access, later) ==
  UNION {later[i].sectors : i \in {i \in 1..Len(later) : later[i].block = access.block}}

\* The next request, and the trace after it was taken from the buffer.  The
\* function never reports the end of the trace.
get_unfiltered_request(t, dynamicOn) ==
  LET full  == populate_pretrace_buffer(t, dynamicOn)
      front == full.pretrace_buffer[1]
      later == Tail(full.pretrace_buffer)
  IN  [access |-> IF lookahead_predictor
                  THEN [front EXCEPT !.sectors = @ \cup Lookahead(front, later)] ELSE front,
       trace  |-> [full EXCEPT !.pretrace_buffer = later]]

=============================================================================
