---------------------------- MODULE ArrayMetadata ----------------------------
(***************************************************************************)
(* Array metadata: key-value items kept beside the fragments of an array.  *)
(*                                                                         *)
(* An array opened for writes collects puts and deletions in memory and    *)
(* stores them, when it is closed, in a file of its own named after the    *)
(* timestamp of the opening.  An array opened for reads loads, at the      *)
(* first access, all files up to its timestamp, and what a later file says *)
(* of a key replaces what earlier ones say.  Consolidation loads like a    *)
(* reader and stores the result as one file with the range of timestamps   *)
(* it stands for, and a .vac file that lists the files it replaces;        *)
(* vacuuming deletes these under the exclusive lock of the array.          *)
(*                                                                         *)
(* Processes only meet in the directory and in the lock (ArrayLock), which *)
(* openings for reads share and vacuums take exclusively.                  *)
(***************************************************************************)
EXTENDS Integers, FiniteSets, FiniteSetsExt

CONSTANTS
  Keys,
  Values,
  Del,             \* the mark of a deleted item (MetadataValue::del_)
  Writers,         \* Array objects opened for writes
  Readers,         \* Array objects opened for reads
  Consolidators,
  Vacuums,
  Uuids,           \* bound: the random parts of names, and their order
  Crashes,         \* which processes may die
  OpenAt,          \* bound: the timestamps at which arrays are opened for reads
  MaxTime,         \* bound on the clock
  MaxStores,       \* bound on the sessions that store something
  MaxMerges        \* bound on the calls of consolidate

ASSUME ArrayMetadataAssumption ==
  /\ Del \notin Values
  /\ Uuids \subseteq Nat
  /\ Crashes \subseteq {"writer", "consolidator", "vacuum"}
  /\ OpenAt \subseteq Nat
  /\ {MaxTime, MaxStores, MaxMerges} \subseteq Nat /\ MaxTime >= 1

\* Items by key, as Metadata::metadata_map_ keeps them.
Maps == UNION {[K -> Values \union {Del}] : K \in SUBSET Keys}
NoItems == [k \in {} |-> Del]

\* A name is __t1_t2_uuid: Metadata::generate_uri.
Names == (0 .. MaxTime) \X (0 .. MaxTime) \X Uuids
NoName == <<0, 0, 0>>

VARIABLES
  now,      \* utils::time::timestamp_now_ms
  files,    \* the files of __meta: what they hold, and whether it is all there
  vacs,     \* the .vac files: the names each one lists
  writer,
  reader,
  cons,
  vacuum,
  stored,   \* history: the sessions that have been stored, and what each one said last
            \* of its keys (writer[w].said)
  merged,   \* history: what has been consolidated, when which sessions were stored
  lost      \* history: the timestamp before which items were vacuumed

vars == <<now, files, vacs, writer, reader, cons, vacuum, stored, merged, lost>>

IdleW == [pc |-> "idle", t |-> 0, map |-> NoItems, name |-> NoName, said |-> NoItems]
IdleR == [pc |-> "idle", at |-> 0]
IdleC == [pc |-> "idle", at |-> 0, map |-> NoItems, srcs |-> {}, name |-> NoName, saw |-> {}]
IdleV == [pc |-> "idle", todo |-> {}, vacs |-> {}, failed |-> FALSE]

Init ==
  /\ now = 1
  /\ files = {} /\ vacs = {}
  /\ writer = [w \in Writers |-> IdleW]
  /\ reader = [r \in Readers |-> IdleR]
  /\ cons = [c \in Consolidators |-> IdleC]
  /\ vacuum = [v \in Vacuums |-> IdleV]
  /\ stored = {} /\ merged = {} /\ lost = 0

-----------------------------------------------------------------------------
(* The directory. *)

\* The order of a listing (by name), which sorting by first timestamp keeps.
Precedes(m, n) ==
  \/ m[1] < n[1]
  \/ m[1] = n[1] /\ m[2] < n[2]
  \/ m[1] = n[1] /\ m[2] = n[2] /\ m[3] < n[3]

FirstOf(F) == CHOOSE f \in F : \A g \in F \ {f} : Precedes(f.name, g.name)
LastOf(F) == CHOOSE f \in F : \A g \in F \ {f} : Precedes(g.name, f.name)

\* Files whose first timestamp is not later than t.
get_sorted_uris_first(F, t) == {f \in F : f.name[1] <= t}

\* Files whose second timestamp is not later than t.
get_sorted_uris(F, t) == {f \in F : f.name[2] <= t}

\* An item is not erased before what a later file says of it is emplaced: the first
\* put stays.
deserialize_no_erase(F) ==
  LET Puts(k) == {f \in F : k \in DOMAIN f.map /\ f.map[k] # Del}
  IN  [k \in {l \in Keys : Puts(l) # {}} |-> FirstOf(Puts(k)).map[k]]

\* What loading the files F gives: the last file that mentions a key decides, and
\* a deletion removes the item.
deserialize(F) ==
  LET Mentions(k) == {f \in F : k \in DOMAIN f.map}
      Item(k) == LastOf(Mentions(k)).map[k]
  IN  [k \in {l \in Keys : Mentions(l) # {} /\ Item(l) # Del} |-> Item(k)]

Whole(F) == \A f \in F : f.whole

\* New names are random and never used again.
NewName(t1, t2, u) ==
  /\ <<t1, t2, u>> \notin {x.name : x \in files \union stored \union merged}
  /\ \A w \in Writers : writer[w].name # <<t1, t2, u>>
  /\ \A c \in Consolidators : cons[c].name # <<t1, t2, u>>

-----------------------------------------------------------------------------
(* The lock of the array. *)

HoldsShared == {r \in Readers : reader[r].pc # "idle"}
                 \union {c \in Consolidators : cons[c].pc \in {"open", "loaded"}}
HoldsExclusive == {v \in Vacuums : vacuum[v].pc = "files"}

SharedFree == HoldsExclusive = {}
ExclusiveFree == HoldsExclusive = {} /\ HoldsShared = {}

-----------------------------------------------------------------------------
(* Sessions that write. *)

\* Array::open for writes and Metadata::reset.
open_for_writes(w) ==
  /\ writer[w].pc = "idle"
  /\ Cardinality(stored) < MaxStores
  /\ writer' = [writer EXCEPT ![w] = [IdleW EXCEPT !.pc = "open", !.t = now]]
  /\ UNCHANGED <<now, files, vacs, reader, cons, vacuum, stored, merged, lost>>

Overwrite(map, k, x) == [l \in DOMAIN map \union {k} |-> IF l = k THEN x ELSE map[l]]

\* Metadata::put replaces the item.
put(w, k, x) ==
  /\ writer[w].pc = "open"
  /\ writer' = [writer EXCEPT ![w].map = Overwrite(@, k, x), ![w].said = Overwrite(@, k, x)]
  /\ UNCHANGED <<now, files, vacs, reader, cons, vacuum, stored, merged, lost>>

\* Metadata::del emplaces the mark, which does nothing when the key is there.
Deleted(map, k) == IF k \in DOMAIN map THEN map ELSE Overwrite(map, k, Del)

del(w, k) ==
  /\ writer[w].pc = "open"
  /\ writer' = [writer EXCEPT ![w].map = Deleted(@, k), ![w].said = Overwrite(@, k, Del)]
  /\ UNCHANGED <<now, files, vacs, reader, cons, vacuum, stored, merged, lost>>

\* Array::close and store_array_metadata: nothing is stored when there is no item;
\* otherwise the file is there, but not complete, until it is closed.
close_for_writes(w, u) ==
  /\ writer[w].pc = "open"
  /\ LET t == writer[w].t
     IN  IF writer[w].map = NoItems
         THEN /\ writer' = [writer EXCEPT ![w] = IdleW]
              /\ UNCHANGED files
         ELSE /\ Cardinality(stored) < MaxStores
              /\ NewName(t, t, u)
              /\ writer' = [writer EXCEPT ![w].pc = "storing", ![w].name = <<t, t, u>>]
              /\ files' = files \union {[name |-> <<t, t, u>>, map |-> writer[w].map, whole |-> FALSE]}
  /\ UNCHANGED <<now, vacs, reader, cons, vacuum, stored, merged, lost>>

\* The file of that name is complete.
Complete(n) ==
  {[name |-> f.name, map |-> f.map, whole |-> f.whole \/ f.name = n] : f \in files}

close_file(w) ==
  /\ writer[w].pc = "storing"
  /\ files' = Complete(writer[w].name)
  /\ stored' = stored \union {[name |-> writer[w].name, map |-> writer[w].map, said |-> writer[w].said]}
  /\ writer' = [writer EXCEPT ![w] = IdleW]
  /\ UNCHANGED <<now, vacs, reader, cons, vacuum, merged, lost>>

\* A process that dies while it stores leaves a file that will never be complete.
crash_writer(w) ==
  /\ "writer" \in Crashes
  /\ writer[w].pc = "storing"
  /\ writer' = [writer EXCEPT ![w] = IdleW]
  /\ UNCHANGED <<now, files, vacs, reader, cons, vacuum, stored, merged, lost>>

-----------------------------------------------------------------------------
(* Sessions that read. *)

\* Array::open for reads, now or at an earlier timestamp.
open_for_reads(r, t) ==
  /\ reader[r].pc = "idle" /\ SharedFree
  /\ t <= now
  /\ reader' = [reader EXCEPT ![r] = [IdleR EXCEPT !.pc = "open", !.at = t]]
  /\ UNCHANGED <<now, files, vacs, writer, cons, vacuum, stored, merged, lost>>

\* Array::load_metadata, at the first access, gives deserialize of the files; one that
\* is not complete makes it fail, and the next access tries again.
load_metadata(r) ==
  LET F == get_sorted_uris(files, reader[r].at)
  IN  /\ reader[r].pc = "open"
      /\ Whole(F)
      /\ reader' = [reader EXCEPT ![r].pc = "loaded"]
      /\ UNCHANGED <<now, files, vacs, writer, cons, vacuum, stored, merged, lost>>

\* Array::reopen forgets what was loaded.
reopen(r, t) ==
  /\ reader[r].pc \in {"open", "loaded"}
  /\ t <= now
  /\ reader' = [reader EXCEPT ![r] = [IdleR EXCEPT !.pc = "open", !.at = t]]
  /\ UNCHANGED <<now, files, vacs, writer, cons, vacuum, stored, merged, lost>>

close_for_reads(r) ==
  /\ reader[r].pc \in {"open", "loaded"}
  /\ reader' = [reader EXCEPT ![r] = IdleR]
  /\ UNCHANGED <<now, files, vacs, writer, cons, vacuum, stored, merged, lost>>

-----------------------------------------------------------------------------
(* Consolidator::consolidate_array_meta. *)

consolidate_open(c) ==
  /\ cons[c].pc = "idle" /\ SharedFree
  /\ Cardinality(merged) < MaxMerges
  /\ cons' = [cons EXCEPT ![c].pc = "open", ![c].at = now]
  /\ UNCHANGED <<now, files, vacs, writer, reader, vacuum, stored, merged, lost>>

\* The range of the name: from the first file to the last one of the order.  Without
\* files it is the one that Metadata::clear leaves.
MergedRange(F) == IF F = {} THEN <<0, 0>> ELSE <<FirstOf(F).name[1], LastOf(F).name[2]>>

\* History: the sessions up to time t that have been stored.
Stored(t) == {s.name : s \in {x \in stored : x.name[2] <= t}}

\* Loading, swapping the metadata with that of the array opened for writes, and the
\* new name.
consolidate_load(c, u) ==
  LET F == get_sorted_uris(files, cons[c].at)
      range == MergedRange(F)
  IN  /\ cons[c].pc = "open"
      /\ IF Whole(F)
         THEN /\ NewName(range[1], range[2], u)
              /\ cons' = [cons EXCEPT ![c] =
                   [pc |-> "loaded", at |-> cons[c].at, map |-> deserialize(F), srcs |-> {f.name : f \in F},
                    name |-> <<range[1], range[2], u>>, saw |-> Stored(range[2])]]
         ELSE cons' = [cons EXCEPT ![c] = IdleC]
      /\ UNCHANGED <<now, files, vacs, writer, reader, vacuum, stored, merged, lost>>

\* The file is written even when there is nothing to write.
consolidate_store_empty(c) ==
  /\ cons[c].pc = "loaded"
  /\ cons' = [cons EXCEPT ![c].pc = "storing"]
  /\ files' = files \union {[name |-> cons[c].name, map |-> cons[c].map, whole |-> FALSE]}
  /\ merged' = merged \union {[name |-> cons[c].name, saw |-> cons[c].saw]}
  /\ UNCHANGED <<now, vacs, writer, reader, vacuum, stored, lost>>

\* Closing the array that was opened for reads gives the lock back; closing the one
\* that was opened for writes stores the items, if there are any.
consolidate_store(c) ==
  /\ cons[c].pc = "loaded"
  /\ cons' = [cons EXCEPT ![c].pc = IF cons[c].map = NoItems THEN "stored" ELSE "storing"]
  /\ files' = IF cons[c].map = NoItems
              THEN files
              ELSE files \union {[name |-> cons[c].name, map |-> cons[c].map, whole |-> FALSE]}
  /\ merged' = merged \union {[name |-> cons[c].name, saw |-> cons[c].saw]}
  /\ UNCHANGED <<now, vacs, writer, reader, vacuum, stored, lost>>

consolidate_close_file(c) ==
  /\ cons[c].pc = "storing"
  /\ files' = Complete(cons[c].name)
  /\ cons' = [cons EXCEPT ![c].pc = "stored"]
  /\ UNCHANGED <<now, vacs, writer, reader, vacuum, stored, merged, lost>>

\* The .vac file is written after the consolidated file is complete.
consolidate_write_vac(c) ==
  /\ cons[c].pc = "stored"
  /\ vacs' = vacs \union {[name |-> cons[c].name, lists |-> cons[c].srcs]}
  /\ cons' = [cons EXCEPT ![c] = IdleC]
  /\ UNCHANGED <<now, files, writer, reader, vacuum, stored, merged, lost>>

\* A consolidator that dies leaves a file that will never be complete, or a complete
\* one without a .vac file.
crash_consolidator(c) ==
  /\ "consolidator" \in Crashes
  /\ cons[c].pc # "idle"
  /\ cons' = [cons EXCEPT ![c] = IdleC]
  /\ UNCHANGED <<now, files, vacs, writer, reader, vacuum, stored, merged, lost>>

-----------------------------------------------------------------------------
(* StorageManager::array_vacuum_array_meta. *)

\* Lists the directory once: of the files that .vac files list, those that are there.
get_uris_to_vacuum(v) ==
  LET due == {x \in vacs : x.name[2] <= now}
  IN  /\ vacuum[v].pc = "idle"
      /\ due # {}
      /\ vacuum' = [vacuum EXCEPT ![v] =
           [pc |-> "listed", vacs |-> due, failed |-> FALSE,
            todo |-> {f.name : f \in files} \intersect UNION {x.lists : x \in due}]]
      /\ UNCHANGED <<now, files, vacs, writer, reader, cons, stored, merged, lost>>

\* Deletes do not wait for readers.
array_xlock_no_wait(v) ==
  /\ vacuum[v].pc = "listed"
  /\ vacuum' = [vacuum EXCEPT ![v].pc = "files"]
  /\ lost' = Max({lost} \union {x.name[2] : x \in vacuum[v].vacs})
  /\ UNCHANGED <<now, files, vacs, writer, reader, cons, stored, merged>>

array_xlock(v) ==
  /\ vacuum[v].pc = "listed" /\ ExclusiveFree
  /\ vacuum' = [vacuum EXCEPT ![v].pc = "files"]
  /\ lost' = Max({lost} \union {x.name[2] : x \in vacuum[v].vacs})
  /\ UNCHANGED <<now, files, vacs, writer, reader, cons, stored, merged>>

\* parallel_for deletes the files in any order, and goes on after a failure: a file
\* that another vacuum has deleted since the listing.
remove_file(v, n) ==
  /\ vacuum[v].pc = "files" /\ n \in vacuum[v].todo
  /\ files' = {f \in files : f.name # n}
  /\ vacuum' = [vacuum EXCEPT ![v].todo = @ \ {n},
                              ![v].failed = @ \/ n \notin {f.name : f \in files}]
  /\ UNCHANGED <<now, vacs, writer, reader, cons, stored, merged, lost>>

\* After a failure the .vac files stay.
array_xunlock(v) ==
  /\ vacuum[v].pc = "files" /\ vacuum[v].todo = {}
  /\ vacuum' = [vacuum EXCEPT ![v] = IF @.failed THEN IdleV ELSE [@ EXCEPT !.pc = "vacs"]]
  /\ UNCHANGED <<now, files, vacs, writer, reader, cons, stored, merged, lost>>

remove_vac(v, x) ==
  /\ vacuum[v].pc = "vacs" /\ x \in vacuum[v].vacs
  /\ vacs' = vacs \ {x}
  /\ LET left == vacuum[v].vacs \ {x}
     IN  vacuum' = [vacuum EXCEPT ![v] = IF left = {} THEN IdleV ELSE [@ EXCEPT !.vacs = left]]
  /\ UNCHANGED <<now, files, writer, reader, cons, stored, merged, lost>>

\* A vacuum that dies gives the lock back.  When it dies between two deletions, some
\* of the files that a consolidated one stands for are left.
crash_vacuum(v) ==
  /\ "vacuum" \in Crashes
  /\ vacuum[v].pc \in {"files", "vacs"}
  /\ vacuum' = [vacuum EXCEPT ![v] = IdleV]
  /\ lost' = IF vacuum[v].todo # {} /\ \E x \in vacuum[v].vacs : ~(x.lists \subseteq {f.name : f \in files})
             THEN MaxTime + 1        \* Torn
             ELSE lost
  /\ UNCHANGED <<now, files, vacs, writer, reader, cons, stored, merged>>

-----------------------------------------------------------------------------

Tick ==
  /\ now < MaxTime
  /\ now' = now + 1
  /\ UNCHANGED <<files, vacs, writer, reader, cons, vacuum, stored, merged, lost>>

WriterStep(w) ==
  \/ open_for_writes(w) \/ close_file(w) \/ crash_writer(w)
  \/ \E k \in Keys : del(w, k) \/ \E x \in Values : put(w, k, x)
  \/ \E u \in Uuids : close_for_writes(w, u)

ReaderStep(r) ==
  \/ \E t \in OpenAt : open_for_reads(r, t) \/ reopen(r, t)
  \/ load_metadata(r) \/ close_for_reads(r)

ConsolidatorStep(c) ==
  \/ consolidate_open(c) \/ consolidate_store(c) \/ consolidate_close_file(c)
  \/ consolidate_write_vac(c) \/ crash_consolidator(c)
  \/ \E u \in Uuids : consolidate_load(c, u)

VacuumStep(v) ==
  \/ get_uris_to_vacuum(v) \/ array_xlock(v) \/ array_xunlock(v) \/ crash_vacuum(v)
  \/ \E n \in vacuum[v].todo : remove_file(v, n)
  \/ \E x \in vacuum[v].vacs : remove_vac(v, x)

Next ==
  \/ Tick
  \/ \E w \in Writers : WriterStep(w)
  \/ \E r \in Readers : ReaderStep(r)
  \/ \E c \in Consolidators : ConsolidatorStep(c)
  \/ \E v \in Vacuums : VacuumStep(v)

Spec == Init /\ [][Next]_vars

-----------------------------------------------------------------------------
(* Properties. *)

\* The type of the state; a file that is being written belongs to one process at most.
TypeOK ==
  /\ now \in 1 .. MaxTime /\ lost \in 0 .. MaxTime + 1
  /\ \A f \in files : f.name \in Names /\ f.map \in Maps \ {NoItems} /\ f.whole \in BOOLEAN
  /\ \A f, g \in files : f.name = g.name => f = g
  /\ \A f \in files : ~f.whole =>
       Cardinality({w \in Writers : writer[w].pc = "storing" /\ writer[w].name = f.name})
         + Cardinality({c \in Consolidators : cons[c].pc = "storing" /\ cons[c].name = f.name}) <= 1
  /\ \A x \in vacs : x.name \in Names /\ x.lists \subseteq Names
  /\ \A w \in Writers : writer[w].map \in Maps /\ writer[w].t \in 0 .. now
  /\ \A r \in Readers : reader[r].at \in 0 .. now
  /\ \A v \in Vacuums : vacuum[v].todo \subseteq Names /\ (vacuum[v].vacs # {} \/ vacuum[v] = IdleV)

\* A session that was stored late: a consolidation that covers its timestamp had
\* already loaded its files.
Late == \E s \in stored, m \in merged : s.name[2] <= m.name[2] /\ s.name \notin m.saw

\* A session deleted an item that it had put before, and stored the item (Deleted).
Undeleted ==
  \E s \in stored : \E k \in DOMAIN s.said : s.said[k] = Del /\ s.map[k] # Del

\* The items at time t, by definition: an item is there if a session put it last and
\* no later session says anything of its key.
ItemsAt(t) ==
  LET S == {s \in stored : s.name[2] <= t}
      Shows(s, k) == /\ k \in DOMAIN s.said /\ s.said[k] # Del
                     /\ \A o \in S : Precedes(s.name, o.name) => k \notin DOMAIN o.said
  IN  [k \in {l \in Keys : \E s \in S : Shows(s, l)} |-> (CHOOSE s \in S : Shows(s, k)).said[k]]

\* When loading succeeds (no file up to the timestamp is incomplete), it gives exactly
\* the items that the sessions up to the timestamp left: the last value put, although
\* older ones are loaded before it; no deleted item, although consolidation drops the
\* marks of deletions; and nothing older, although consolidated files sort before the
\* files they stand for, and whether those are still there or not.  It is stated for
\* consolidations that do not overlap each other (MetadataTwoConsolidators.cfg has two
\* that do, and violates it), for timestamps that no vacuum has removed items of, and
\* for histories without late sessions, without the deletions that Metadata::del does
\* not mark (Undeleted) and without a vacuum that died between two deletions.
LoadsLatest ==
  (SharedFree /\ ~Late /\ ~Undeleted) =>
    \A t \in lost .. now :
      LET F == get_sorted_uris(files, t)
      IN  Whole(F) => deserialize(F) = ItemsAt(t)

\* A vacuum has died between two deletions (crash_vacuum).
Torn == lost > MaxTime

\* An array opened at a timestamp shows no item that was put later, although a
\* consolidated file holds items of all the timestamps in its range.  This needs that
\* no vacuum died between two deletions: a consolidation that follows takes the end of
\* its range from the last file that is left (set_loaded_metadata_uris), which may end
\* before an earlier, consolidated one does.
NoFutureItem ==
  (~Late /\ ~Torn) =>
    \A t \in 0 .. now :
      LET F == get_sorted_uris(files, t)
          items == deserialize(F)
      IN  Whole(F) => \A k \in DOMAIN items :
            \E s \in stored : s.name[1] <= t /\ k \in DOMAIN s.map /\ s.map[k] = items[k]

\* A complete file stays while an array is open for reads and has not loaded its
\* metadata: loading reads the files one after the other, and vacuuming
\* (array_vacuum_array_meta) waits for the exclusive lock.
ReadersKeepFiles ==
  [][\A f \in files : (f.whole /\ \E r \in Readers : reader[r].pc = "open" /\ reader'[r].pc = "open")
        => \E g \in files' : g.name = f.name]_vars

\* Deleting an item (tiledb_array_delete_metadata, Metadata::del) leaves it marked as
\* deleted in what the session will store, whatever the session did to it before.
DeletionMarks ==
  \A w \in Writers, k \in Keys : writer[w].pc = "open" => Deleted(writer[w].map, k)[k] = Del

=============================================================================
