----------------------------- MODULE WriteQuery -----------------------------
(***************************************************************************)
(* A write query, submitted again and again (query/writer.cc, with         *)
(* Query::submit, process and finalize in query/query.cc).  In global      *)
(* order all its cells go to one fragment until it is finalized; those     *)
(* that do not fill a tile wait in memory for the next submission.  In the *)
(* other layouts every submission makes a fragment of its own.             *)
(***************************************************************************)
EXTENDS Writer, Reader

CONSTANTS
  Configs,      \* [layout, coords, box, dups, dedup, checkDups, checkOrder,
                \*  checkOob]: box is the subarray of a dense write
  Batches,      \* the cells a submission may bring, by coords
  MaxSubmits,   \* bound on submissions
  MaxFaults     \* bound on storage errors and cancellations

\* Writer::check_subarray and set_layout
ASSUME ConfigsAssumption ==
  \A c \in Configs :
    /\ c.layout \in {"global", "unordered", "row", "col"}
    /\ c.layout = "unordered" => c.coords
    /\ c.layout \in {"row", "col"} => ~ c.coords
    /\ c.layout = "global" /\ ~ c.coords =>
         \A d \in Dims :
           CoincidesWithTiles(ArrayDomain[d], TileExtents[d], c.box[d])

VARIABLES
  config,    \* the layout, the schema and the sm.* parameters of the query
  status,    \* status_ of the query, "GONE" once its process or it is gone
  gws,       \* global_write_state_, None if there is none
  disk,      \* fragment directories: their tiles, metadata and .ok file
  submits,   \* submissions so far
  faults,    \* history: faults so far
  accepted,  \* history: the cells of the submissions of gws that succeeded
  dropped    \* history: duplicates were left out of a batch

vars == <<config, status, gws, disk, submits, faults, accepted, dropped>>

None == << >>

Init ==
  /\ config \in Configs
  /\ status = "UNINITIALIZED"
  /\ gws = None
  /\ disk = << >>
  /\ submits = 0
  /\ faults = 0
  /\ accepted = << >>
  /\ dropped = FALSE

\* cell_num_per_tile in prepare_full_tiles_fixed
TileSize == IF config.coords THEN Capacity ELSE CellNumPerTile

\* The cells of the subarray.
DenseCells == CellNum(config.box)

\* Writer::init_global_write_state and create_fragment: metadata without
\* tiles in a directory of a new name, made with the first submission.  (A
\* consolidator names the fragment itself: Fragments models that.)
Fresh == [frag |-> submits + 1, last |-> << >>, leaves |-> << >>,
          lastNum |-> 0, written |-> 0]

State == IF gws = None THEN Fresh ELSE gws

EmptyDir == [tiles |-> << >>, meta |-> None, ok |-> FALSE]

DiskWithDir == IF gws = None THEN disk @@ (State.frag :> EmptyDir) ELSE disk

HasDir == State.frag \in DOMAIN DiskWithDir

Fault == faults < MaxFaults /\ faults' = faults + 1

\* Every fragment of the query goes.
CleanUpAll ==
  /\ disk' = << >>
  /\ gws' = None
  /\ accepted' = << >>
  /\ dropped' = FALSE

\* Writer::clean_up: whether the directory could be removed is not checked.
CleanUp ==
  /\ disk' \in {DiskWithDir, [f \in DOMAIN disk \ {State.frag} |-> disk[f]]}
  /\ gws' = None
  /\ accepted' = << >>
  /\ dropped' = FALSE

\* check_coord_dups fails.
DupsRejected(b) ==
  /\ config.coords /\ ~ config.dups
  /\ config.checkDups /\ ~ config.dedup
  /\ CoordDups(b) # {}

\* The checks of a batch in global order that fail: check_coord_dups,
\* check_global_order and compute_coord_dups, which needs coordinates.
Rejected(b) ==
  \/ DupsRejected(b)
  \/ config.coords /\ config.checkOrder /\ OutOfGlobalOrder(b)
  \/ config.dedup /\ ~ config.coords

\* Writer::compute_coords_metadata; nothing can be said of the MBR of a
\* tile without cells, whose first cell it reads all the same.
Leaves(tiles) ==
  Tuple([t \in DOMAIN tiles |-> IF tiles[t] = << >> THEN None ELSE MBR(tiles[t])])

WithTilesAtZero(g, tiles) ==
  IF tiles = << >> \/ ~ config.coords THEN g
  ELSE [g EXCEPT !.leaves = Leaves(tiles) \o @, !.lastNum = Len(Last(tiles))]

\* The metadata with the MBRs of the tiles, from the tile index base on, and
\* the number of cells of the last of them.
WithTiles(g, tiles) ==
  IF tiles = << >> \/ ~ config.coords THEN g
  ELSE [g EXCEPT !.leaves = @ \o Leaves(tiles), !.lastNum = Len(Last(tiles))]

OutOfDomain(b) == config.coords /\ config.checkOob /\ CoordOob(b)

\* check_coord_oob fails, before anything else is done.
SubmitOob(b) ==
  /\ OutOfDomain(b)
  /\ status' = "FAILED"
  /\ UNCHANGED <<gws, disk, faults, accepted, dropped>>

\* The directory cannot be created: the state stays behind without it.
SubmitNoDir(b) ==
  /\ ~ OutOfDomain(b)
  /\ gws = None
  /\ Fault
  /\ gws' = Fresh
  /\ status' = "FAILED"
  /\ UNCHANGED <<disk, accepted, dropped>>

\* A check fails, or the query is cancelled before the cells are laid out:
\* the batch is dropped, what was written before stays.
SubmitRejected(b) ==
  /\ ~ OutOfDomain(b)
  /\ IF Rejected(b) THEN UNCHANGED faults ELSE Fault
  /\ gws' = State
  /\ disk' = DiskWithDir
  /\ status' = "FAILED"
  /\ UNCHANGED <<accepted, dropped>>

\* All of Writer::global_write succeeds.
SubmitAccepted(b) ==
  LET dups == IF config.dedup THEN CoordDups(b) ELSE {}
      full == PrepareFullTiles(State.last, b, dups, TileSize)
  IN /\ ~ OutOfDomain(b)
     /\ ~ Rejected(b)
     /\ HasDir \/ b = << >>
     /\ gws' = WithTiles([State EXCEPT !.last = full.last,
                                       !.written = @ + Len(b)], full.tiles)
     /\ disk' = IF HasDir
                THEN [DiskWithDir EXCEPT ![State.frag].tiles = @ \o full.tiles]
                ELSE disk
     /\ status' = "COMPLETED"
     /\ accepted' = accepted \o Kept(b, 1, Len(b), dups)
     /\ dropped' = (dropped \/ dups # {})
     /\ UNCHANGED faults

\* No cell is left for the last tile.
FillsTiles(b) ==
  PrepareFullTiles(State.last, b, IF config.dedup THEN CoordDups(b) ELSE {},
                   TileSize).last = << >>

\* An error or a cancellation once the cells are laid out or written.  When the
\* directory is missing, there is an error if whole tiles are written; a cell
\* that is left goes to a last tile that was never initialized, and Gone
\* stands for the process not surviving that.
SubmitFailed(b) ==
  /\ ~ OutOfDomain(b)
  /\ ~ Rejected(b)
  /\ HasDir \/ FillsTiles(b)
  /\ IF HasDir \/ b = << >> THEN Fault ELSE UNCHANGED faults
  /\ CleanUp
  /\ status' = "FAILED"

\* Writer::global_write
GlobalWrite(b) ==
  /\ config.layout = "global"
  /\ \/ SubmitNoDir(b) \/ SubmitRejected(b)
     \/ SubmitAccepted(b) \/ SubmitFailed(b)

\* A fragment made by one submission, visible once its .ok file is there.
NewFragment(tiles, cells) ==
  disk @@ (submits + 1 :>
    [tiles |-> tiles,
     meta |-> [leaves |-> IF config.coords THEN Leaves(tiles) ELSE << >>,
               lastNum |-> IF config.coords THEN Len(Last(tiles)) ELSE 0,
               cells |-> cells, dropped |-> FALSE],
     ok |-> TRUE])

\* Writer::unordered_write.  Without cells it ends with an empty directory.
UnorderedWriteQuery(b) ==
  LET sorted == SortCoords(b)
      tiles == PrepareTiles(sorted, IF config.dedup THEN CoordDups(sorted) ELSE {})
  IN /\ config.layout = "unordered"
     /\ ~ OutOfDomain(b)
     /\ IF DupsRejected(sorted)
        THEN status' = "FAILED" /\ UNCHANGED disk
        ELSE /\ status' = "COMPLETED"
             /\ disk' = IF tiles = << >> THEN disk @@ (submits + 1 :> EmptyDir)
                        ELSE NewFragment(tiles, b)
     /\ UNCHANGED <<gws, faults, accepted, dropped>>

\* Writer::ordered_write; value i of the buffer is written as i.
OrderedWrite ==
  /\ config.layout \in {"row", "col"}
  /\ LET buffer == Tuple([i \in 1 .. DenseCells |-> i])
     IN disk' = NewFragment(OrderedTiles(config.layout, config.box, buffer), buffer)
  /\ status' = "COMPLETED"
  /\ UNCHANGED <<gws, faults, accepted, dropped>>

\* An error or cancellation in either of them: the directory was not made, is
\* removed again, or stays behind.
OneShotFailed(b) ==
  /\ config.layout # "global"
  /\ ~ OutOfDomain(b)
  /\ Fault
  /\ disk' \in {disk, disk @@ (submits + 1 :> EmptyDir)}
  /\ status' = "FAILED"
  /\ UNCHANGED <<gws, accepted, dropped>>

\* Query::submit and process, with Writer::write.
Submit(b) ==
  /\ status # "GONE"
  /\ submits < MaxSubmits
  /\ submits' = submits + 1
  /\ \/ SubmitOob(b) \/ GlobalWrite(b) \/ UnorderedWriteQuery(b)
     \/ OrderedWrite \/ OneShotFailed(b)
  /\ UNCHANGED config

LastTileDropped == << >>

\* Writer::global_write_handle_last_tile
LastTile == IF gws.last = << >> THEN << >> ELSE <<gws.last>>

\* The checks of finalize_global_write_state.
Finalizable ==
  gws.frag \in DOMAIN disk /\ (config.coords \/ gws.written = DenseCells)

\* Writer::finalize_global_write_state succeeds; the .ok file comes last and
\* makes the fragment visible.  meta.cells and meta.dropped are history.
Committed ==
  LET g == WithTiles(gws, LastTile)
  IN [tiles |-> disk[gws.frag].tiles \o LastTile,
      meta |-> [leaves |-> g.leaves, lastNum |-> g.lastNum,
                cells |-> accepted, dropped |-> dropped],
      ok |-> TRUE]

FinalizeDone ==
  /\ gws # None
  /\ Finalizable
  /\ disk' = [disk EXCEPT ![gws.frag] = Committed]
  /\ gws' = None
  /\ accepted' = << >>
  /\ dropped' = FALSE
  /\ status' = "COMPLETED"
  /\ UNCHANGED faults

\* A step of it fails; the status stays what it was.  If it is the last tile
\* that fails, the state is used once more after it is freed: Gone stands
\* for the process not surviving that.
FinalizeFailed ==
  /\ gws # None
  /\ IF Finalizable THEN Fault ELSE UNCHANGED faults
  /\ CleanUp
  /\ UNCHANGED status

\* There is nothing to finalize.
FinalizeNothing ==
  /\ gws = None
  /\ status' = "COMPLETED"
  /\ UNCHANGED <<gws, disk, faults, accepted, dropped>>

\* Query::finalize
Finalize ==
  /\ status \notin {"UNINITIALIZED", "GONE"}
  /\ FinalizeDone \/ FinalizeFailed \/ FinalizeNothing
  /\ UNCHANGED <<config, submits>>

\* Query::set_subarray on a dense array, here with the same box: Writer::reset
\* nukes the state, and the directory if that works, and the query starts anew.
SetSubarray ==
  /\ status # "GONE"
  /\ ~ config.coords
  /\ IF gws = None THEN UNCHANGED <<gws, disk, accepted, dropped>> ELSE CleanUp
  /\ status' = "UNINITIALIZED"
  /\ UNCHANGED <<config, submits, faults>>

\* The process dies, or the query is freed without being finalized.
Gone ==
  /\ status # "GONE"
  /\ status' = "GONE"
  /\ gws' = None
  /\ accepted' = << >>
  /\ dropped' = FALSE
  /\ UNCHANGED <<config, disk, submits, faults>>

Next ==
  \/ \E b \in Batches[config.coords] : Submit(b)
  \/ Finalize \/ SetSubarray \/ Gone

Spec == Init /\ [][Next]_vars

-----------------------------------------------------------------------------
\* What readers see (an .ok file), and how they load it.

Visible == {f \in DOMAIN disk : disk[f].ok}

Loaded(f) ==
  [dense |-> FALSE,
   ned |-> FoldLeft(ExpandNDRange, Head(f.meta.leaves), Tail(f.meta.leaves)),
   tiles |-> f.tiles,
   tree |-> BuildTree(<<f.meta.leaves>>)]

\* The coordinates a reader of one cell gets from the fragment.
ReadCell(f, cell) ==
  LET frags == <<Loaded(f)>>
      range == NewSubarray("row", Tuple([d \in Dims |-> <<CellRange(cell)[d]>>]))
  IN SparseRead([dense |-> FALSE, dups |-> config.dups, frags |-> frags],
                ComputeTileOverlap(frags, range))

AllCells ==
  Odometer("row", Tuple([d \in Dims |->
                    Tuple([i \in 1 .. DomainRange(ArrayDomain[d]) |->
                             ArrayDomain[d][1] + i - 1])]))

Occurrences(cells, c) == Cardinality({i \in DOMAIN cells : cells[i] = c})

\* Type invariant.  The tile kept between two submissions is never full: a
\* full one goes to storage with the submission that fills it.
TypeOK ==
  /\ config \in Configs
  /\ status \in {"UNINITIALIZED", "COMPLETED", "FAILED", "GONE"}
  /\ submits \in 0 .. MaxSubmits
  /\ faults \in 0 .. MaxFaults
  /\ gws # None => /\ Len(gws.last) < TileSize
                   /\ gws.frag \in 1 .. submits
                   /\ gws.lastNum \in 0 .. TileSize
  /\ DOMAIN disk \subseteq 1 .. submits

\* In global order a fragment that readers see holds the cells of the
\* submissions that succeeded since its first one, each once and in order:
\* nothing of a batch that was rejected, nothing of a write that was cleaned
\* up before, and the cells that waited in the last tile too; if it is dense,
\* all the cells of its subarray (global_write, finalize_global_write_state).
CommittedWhole ==
  \A f \in Visible : config.layout = "global" =>
    /\ FlattenSeq(disk[f].tiles) = disk[f].meta.cells
    /\ ~ config.coords => Len(disk[f].meta.cells) = DenseCells

\* An unordered write stores the cells it was given in global order, each
\* as often as it was given, or once if duplicates are removed; and there is
\* no duplicate if they are checked for (sort_coords, check_coord_dups,
\* compute_coord_dups, prepare_tiles_fixed).
SortedWhole ==
  \A f \in Visible : config.layout = "unordered" =>
    LET stored == FlattenSeq(disk[f].tiles)
        given == disk[f].meta.cells
    IN /\ \A i \in 1 .. Len(stored) - 1 : ~ GlobalLess(stored[i + 1], stored[i])
       /\ ToSet(stored) = ToSet(given)
       /\ \A c \in ToSet(given) :
            Occurrences(stored, c) =
              IF config.dedup THEN 1 ELSE Occurrences(given, c)
       /\ config.checkDups /\ ~ config.dups => IsInjective(stored)

\* The cell at coordinates c of a dense fragment, as readers find it: in the
\* tile of c, in tile order, at the position of c in it, in cell order.
StoredAt(f, c) ==
  LET box == config.box
      pos == TilePos(Tuple([d \in Dims |->
               ExpandToTile(ArrayDomain[d], TileExtents[d], box[d])]),
               TileCoords(c))
      inTile == SelectSeq(AllCells, LAMBDA x : TileCoords(x) = TileCoords(c))
      sorted == SortSeq(inTile, LAMBDA x, y : CoordsLess(CellOrder, x, y))
  IN disk[f].tiles[pos][CHOOSE i \in DOMAIN sorted : sorted[i] = c]

\* An ordered write puts the cells of the buffer, which come in the layout of
\* the query, where readers look for them, and the fill value into the rest
\* of the tiles (compute_write_cell_ranges, prepare_tiles).
CellsPlaced ==
  \A f \in Visible : config.layout \in {"row", "col"} =>
    LET box == SelectSeq(AllCells, LAMBDA c : InNDRange(c, config.box))
        buffer == SortSeq(box, LAMBDA x, y : CoordsLess(config.layout, x, y))
    IN /\ \A i \in DOMAIN buffer : StoredAt(f, buffer[i]) = i
       /\ \A t \in DOMAIN disk[f].tiles : Len(disk[f].tiles[t]) = CellNumPerTile
       /\ Cardinality({<<t, p>> \in (DOMAIN disk[f].tiles) \X (1 .. CellNumPerTile) :
                         disk[f].tiles[t][p] # Fill}) = Len(buffer)

\* Every tile but the last of a fragment that readers see is full, and the
\* metadata tells the length of the last one, as FragmentMetadata::cell_num
\* assumes; unless duplicates were removed from a batch.
FullTiles ==
  \A f \in Visible :
    LET tiles == disk[f].tiles
    IN ~ disk[f].meta.dropped =>
         /\ \A t \in 1 .. Len(tiles) - 1 : Len(tiles[t]) = TileSize
         /\ tiles # << >> /\ config.coords =>
              Len(Last(tiles)) = disk[f].meta.lastNum

\* Reading any cell of the array from the fragment just finished, with the
\* R-tree built from the MBRs its metadata recorded submission by
\* submission, gives the cell as often as its tiles hold it.
ReadsBack ==
  gws = None /\ status = "COMPLETED" /\ config.coords =>
    \A f \in Visible :
      LET frag == disk[f]
          newest == \A g \in DOMAIN disk : g <= f
      IN newest /\ frag.tiles # << >> /\ << >> \notin Range(frag.tiles) =>
           \A c \in ToSet(AllCells) :
             Len(ReadCell(frag, c)) = Occurrences(FlattenSeq(frag.tiles), c)

\* What readers see of a fragment never changes: no later failure of the
\* query cleans up a fragment that was finalized.
CommittedStays ==
  [][\A f \in Visible : f \in DOMAIN disk' /\ disk'[f] = disk[f]]_vars
=============================================================================
