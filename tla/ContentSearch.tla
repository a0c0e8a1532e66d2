--------------------------- MODULE ContentSearch ---------------------------
(***************************************************************************)
(* The search of the files' contents (runContentSearch and its             *)
(* coordinator) with the index of their text that it leaves in the         *)
(* database: a walk reads every file in overlapping windows, matches each  *)
(* window and stores it; once every file has a stored window, a later      *)
(* search asks the index and no longer reads the disk.                     *)
(*                                                                         *)
(* Bytes are counted in sectors.  Of a file's text a query asks for one    *)
(* place, "at": how many letters of what is asked for it holds there, and  *)
(* whether they start a word.                                              *)
(* A query is its own length, the length of the text it matches (another   *)
(* one for a regular expression) and whether it is a regular expression; a *)
(* longer text begins at the same place.                                   *)
(***************************************************************************)
EXTENDS Integers, SequencesExt

CONSTANTS
    Volumes,         \* sequences of files, each [runs, size, at, letters, word, source]; a
                     \* run is [length, there, bad]: there < length past the end of the
                     \* disk, there = Hole for a sparse run, bad the unreadable offsets;
                     \* source tells the rows of the disk's own files from a "snapshot"'s
                     \* and from those only a journal ("discovery") names
    Queries,         \* records [length, text, regex]
    ChunkBytes,      \* opts.chunkBytes
    MinOverlap,      \* kChunkOverlap
    MaxQuery,        \* kMaxContentQueryBytes
    MaxRegex,        \* kMaxContentRegexChars
    FlushBatch,      \* kChunkFlushBatch
    MaxSearches      \* bound: searches started in a behaviour

Hole == -1

\* Where the runs of a file begin and end
RunEnds(file) ==
    LET after[k \in 0..Len(file.runs)] ==
            IF k = 0 THEN 0 ELSE after[k - 1] + file.runs[k].length
    IN  after
InRun(file, k, p) == RunEnds(file)[k - 1] <= p /\ p < RunEnds(file)[k]

\* A sparse run reads as zeros, which are no letters.
WellFormed(file) ==
    /\ {file.size, file.at, file.letters} \subseteq Nat
    /\ file.runs \in Seq(Range(file.runs))
    /\ \A k \in DOMAIN file.runs :
         LET run == file.runs[k]
         IN  /\ run.length \in Nat \ {0} /\ run.there \in Int /\ run.there <= run.length
             /\ run.bad \subseteq 0..run.length
             /\ run.there = Hole =>
                  \A p \in file.at..(file.at + file.letters - 1) : ~InRun(file, k, p)

\* A query for nothing, and a match of no length, finds nothing (QueryMatcher::find).
ASSUME SearchAssumption ==
    /\ {ChunkBytes, FlushBatch, MinOverlap} \subseteq Nat \ {0} /\ MinOverlap <= MaxQuery
    /\ \A volume \in Volumes :
         volume \in Seq(Range(volume)) /\ \A f \in DOMAIN volume : WellFormed(volume[f])
    /\ \A query \in Queries : {query.length, query.text} \subseteq Nat \ {0}

VARIABLES
    disk,          \* the volume
    stored,        \* content_chunk_fts: file -> set of windows [first, beyond]
    contentUnread, \* scans.content_unread
    running,       \* running_ of the coordinator
    search,        \* the walk: pc, query, file, offset, windows not yet stored, the
                   \* files found, those it passed over (a ghost), ...
    unreadEver,    \* ghost: a walk that came to its end met unreadable sectors
    starts

searchVars == <<disk, stored, contentUnread, running, search, unreadEver, starts>>

FileIds == DOMAIN disk
Statuses == [complete |-> 1, stopped |-> 2, openFailed |-> 3, tooLong |-> 4,
             rejected |-> 5, incomplete |-> 6]
NoQuery == [length |-> 1, text |-> 1, regex |-> FALSE]

AtMost(m, n) == IF m < n THEN m ELSE n

\* contentSearchWalkStatus
Refusal(query) ==
    CASE query.length > MaxQuery -> Statuses.tooLong
      [] query.length <= MaxQuery /\ query.regex /\ query.length > MaxRegex -> Statuses.rejected
      [] OTHER -> 0

\* Mutant: the overlap is what the index needs, whatever the query.
OverlapFloor(query) == MinOverlap

\* overlapForQuery
Overlap(query) == IF query.length < MinOverlap THEN MinOverlap ELSE query.length

Within(file, query, window) ==
    /\ query.text <= file.letters
    /\ file.at >= window.first /\ file.at + query.text <= window.beyond

----------------------------------------------------------------------------
(* Reading (readFileRange)                                                 *)

\* copyFromRuns, one run: what is read before it is in acc.
CopyRun(file, from, want, acc, k) ==
    LET run == file.runs[k]
        past == [acc EXCEPT !.base = @ + run.length]
        skip == IF from > acc.base THEN from - acc.base ELSE 0
        take == AtMost(run.length - skip, want - acc.filled)
        first == acc.base + skip
        unread == \E b \in run.bad : b >= skip /\ b < skip + take
        usable == IF run.there = Hole THEN take
                  ELSE IF unread \/ run.there <= skip THEN 0
                  ELSE AtMost(take, run.there - skip)
    IN  IF acc.stop \/ acc.filled >= want THEN acc
        ELSE IF acc.base + run.length <= from THEN past
        ELSE IF usable = 0
             THEN IF acc.filled > 0
                  THEN [acc EXCEPT !.stop = TRUE, !.unread = @ \/ unread]
                  ELSE [past EXCEPT !.skipped = @ + take, !.unread = @ \/ unread]
             ELSE [past EXCEPT !.first = IF acc.filled = 0 THEN first ELSE @,
                               !.filled = @ + usable, !.stop = usable < take]

Nothing(from) == [base |-> 0, first |-> from, filled |-> 0, skipped |-> 0,
                  unread |-> FALSE, stop |-> FALSE]

\* copyFromRuns, one run after the other
CopyRuns(file, from, want) ==
    LET after[k \in 0..Len(file.runs)] ==
            IF k = 0 THEN Nothing(from)
            ELSE CHOOSE next \in {CopyRun(file, from, want, acc, k) : acc \in {after[k - 1]}} : TRUE
    IN  after

\* The sectors from..: what of them is in the buffer, how far it accounts for
\* the file, and whether a read of it failed.
ReadRange(file, from, most) ==
    CopyRuns(file, from, AtMost(most, file.size - from))[Len(file.runs)]

Consumed(read) == read.skipped + read.filled

\* Mutant: a failed read is tried again.
NextOffsetRetry(offset, read) ==
    IF read.filled = 0 THEN offset
    ELSE IF Consumed(read) >= ChunkBytes THEN offset + ChunkBytes
    ELSE offset + Consumed(read)

\* Where the next window begins
NextOffset(offset, read) ==
    IF read.filled = 0 \/ Consumed(read) >= ChunkBytes THEN offset + ChunkBytes
    ELSE offset + Consumed(read)

----------------------------------------------------------------------------
(* The index                                                               *)

\* getContentIndexCount >= getFileCount
IndexComplete == \A f \in FileIds : stored[f] # {}

\* searchContentFts: a window matches when the query starts a word of it; a
\* word the window's edge cuts starts there.
FtsHit(f, query) ==
    \E w \in stored[f] :
        /\ Within(disk[f], query, w)
        /\ disk[f].word \/ w.first = disk[f].at

\* What storing the pending windows leaves: the first of a walk replaces.
AfterFlush(n) ==
    [stored EXCEPT ![search.file] =
        ToSet(SubSeq(search.pending, 1, n)) \cup (IF search.flushed THEN @ ELSE {})]

----------------------------------------------------------------------------
SearchInit ==
    /\ disk \in Volumes
    /\ stored = [f \in FileIds |-> {}] /\ contentUnread = FALSE
    /\ running = FALSE /\ unreadEver = FALSE /\ starts = 0
    /\ search = [pc |-> "idle", query |-> NoQuery, file |-> 1, offset |-> 0, hit |-> FALSE,
                 pending |-> <<>>, flushed |-> FALSE, unread |-> FALSE, found |-> {},
                 skipped |-> {}, fts |-> FALSE, status |-> 0]

\* startSearch: refused, or the earlier worker joined and a new one started;
\* its reader may not open.
StartSearch ==
    /\ search.pc \in {"idle", "ended"} /\ starts < MaxSearches
    /\ starts' = starts + 1
    /\ \E query \in Queries :
        LET fresh == [pc |-> "ended", query |-> query, file |-> 1, offset |-> 0, hit |-> FALSE,
                      pending |-> <<>>, flushed |-> FALSE, unread |-> FALSE, found |-> {},
                      skipped |-> {}, fts |-> FALSE, status |-> Refusal(query)]
        IN  \/ /\ Refusal(query) # 0
               /\ search' = fresh /\ UNCHANGED running
            \/ /\ Refusal(query) = 0
               /\ search' = [fresh EXCEPT !.status = Statuses.openFailed]
               /\ running' = FALSE
            \/ /\ Refusal(query) = 0
               /\ LET fts == ~query.regex /\ IndexComplete /\ query.length <= MinOverlap
                  IN  search' = [fresh EXCEPT !.pc = IF fts THEN "fts" ELSE "walk", !.fts = fts]
               /\ running' = TRUE
    /\ UNCHANGED <<disk, stored, contentUnread, unreadEver>>

\* requestStop
StopSearch ==
    /\ running /\ running' = FALSE
    /\ UNCHANGED <<disk, stored, contentUnread, search, unreadEver, starts>>

\* The coordinator reports a search that was asked to stop as stopped.
Outcome(status) == IF running THEN status ELSE Statuses.stopped

\* What the index can say: the first walk that could not read all marks it.
FtsStatus == IF contentUnread THEN Statuses.incomplete ELSE Statuses.complete

\* The index answers; asked to stop, it leaves the rest out.
FtsAnswers ==
    /\ search.pc = "fts"
    /\ \E ids \in SUBSET {f \in FileIds : FtsHit(f, search.query)} :
        /\ running => ids = {f \in FileIds : FtsHit(f, search.query)}
        /\ search' = [search EXCEPT !.pc = "ended", !.found = ids, !.status = Outcome(FtsStatus)]
    /\ running' = FALSE
    /\ UNCHANGED <<disk, stored, contentUnread, unreadEver, starts>>

\* One window of the current file.  The stop flag is read before it.
ReadWindow ==
    /\ search.pc = "walk" /\ running
    /\ search.file \in FileIds /\ search.offset < disk[search.file].size
    /\ disk[search.file].source # "discovery"
    /\ LET file == disk[search.file]
           window(read) == [first |-> read.first, beyond |-> read.first + read.filled]
       IN  \E read \in {ReadRange(file, search.offset, ChunkBytes + Overlap(search.query))} :
           \E kept \in {IF read.filled = 0 THEN search.pending
                        ELSE Append(search.pending, window(read))} :
             search' = [search EXCEPT
               !.offset = NextOffset(@, read),
               !.unread = @ \/ read.unread,
               !.hit = @ \/ (read.filled > 0 /\ Within(file, search.query, window(read))),
               !.pending = kept,
               !.pc = IF Len(kept) >= FlushBatch THEN "flush" ELSE @]
    /\ UNCHANGED <<disk, stored, contentUnread, running, unreadEver, starts>>

\* flush: the pending windows go to the index, one INSERT each.
Flush ==
    /\ search.pc = "flush"
    /\ stored' = AfterFlush(Len(search.pending))
    /\ search' = [search EXCEPT !.pc = "walk", !.pending = <<>>, !.flushed = TRUE]
    /\ UNCHANGED <<disk, contentUnread, running, unreadEver, starts>>

\* A row that only a journal names is passed over, and so is a snapshot's
\* file when its volume does not open: no window of it is read or stored, and
\* nothing says so.
SkipFile ==
    /\ search.pc = "walk" /\ running
    /\ search.file \in FileIds /\ search.offset = 0
    /\ disk[search.file].source # "disk"
    /\ search' = [search EXCEPT !.file = @ + 1, !.hit = FALSE,
                                !.skipped = @ \cup {search.file}]
    /\ UNCHANGED <<disk, stored, contentUnread, running, unreadEver, starts>>

\* The file is read, or the search was asked to stop: what is pending is
\* stored all the same, and the file counts as done.
EndFile ==
    /\ search.pc = "walk" /\ search.file \in FileIds
    /\ \/ search.offset >= disk[search.file].size /\ disk[search.file].source # "discovery"
       \/ ~running
    /\ stored' = IF search.pending = <<>> THEN stored ELSE AfterFlush(Len(search.pending))
    /\ search' = [search EXCEPT
           !.found = IF search.hit THEN @ \cup {search.file} ELSE @,
           !.file = IF running THEN @ + 1 ELSE Len(disk) + 1,
           !.offset = 0, !.hit = FALSE, !.pending = <<>>, !.flushed = FALSE]
    /\ UNCHANGED <<disk, contentUnread, running, unreadEver, starts>>

\* The walk is over: what could not be read is written to the scan first.
EndWalk ==
    /\ search.pc = "walk" /\ search.file \notin FileIds
    /\ contentUnread' = (contentUnread \/ search.unread)
    /\ unreadEver' = (unreadEver \/ search.unread)
    /\ search' = [search EXCEPT !.pc = "ended",
           !.status = Outcome(IF contentUnread' THEN Statuses.incomplete ELSE Statuses.complete)]
    /\ running' = FALSE
    /\ UNCHANGED <<disk, stored, starts>>

\* The process dies; of the windows being stored the first few are there.
SearchDies ==
    /\ search.pc \in {"walk", "flush"}
    /\ \/ UNCHANGED stored
       \/ /\ search.pc = "flush"
          /\ \E n \in 1..Len(search.pending) : stored' = AfterFlush(n)
    /\ search' = [search EXCEPT !.pc = "idle", !.file = 1, !.offset = 0, !.hit = FALSE,
                                !.pending = <<>>, !.flushed = FALSE, !.unread = FALSE,
                                !.found = {}, !.skipped = {}]
    /\ running' = FALSE
    /\ UNCHANGED <<disk, contentUnread, unreadEver, starts>>

Worker == FtsAnswers \/ ReadWindow \/ Flush \/ SkipFile \/ EndFile \/ EndWalk

SearchNext == StartSearch \/ StopSearch \/ Worker \/ SearchDies

SearchSpec == SearchInit /\ [][SearchNext]_searchVars /\ WF_searchVars(Worker)

----------------------------------------------------------------------------
(* Properties                                                              *)

\* Every sector of the text is in a run of the file and can be read.
ReadableAt(file, p) ==
    \E k \in DOMAIN file.runs :
        LET there == p - RunEnds(file)[k - 1]
        IN  there >= 0 /\ there < file.runs[k].there /\ there \notin file.runs[k].bad
Readable(file, query) == \A p \in file.at..(file.at + query.text - 1) : ReadableAt(file, p)

Holds(file, query) ==
    Within(file, query, [first |-> 0, beyond |-> file.size]) /\ Readable(file, query)

Complete == search.pc = "ended" /\ search.status = Statuses.complete

\* Not a file of the disk itself, and nothing of it was read.
PassedOver(f) == disk[f].source # "disk" /\ f \in search.skipped

\* A walk that reports itself complete found every file that holds the text,
\* across window edges, runs and sparse runs, and none that does not (but it
\* may find a text in the slack: what a leading unread run leaves free in the
\* buffer is filled from past the end of the file).  "Complete" does not cover
\* the files it passed over: a snapshot's whose volume did not open is left out
\* without a word (content_search.cpp:405-413).  A regular expression may match
\* more than the windows overlap; then it may be missed.
WalkMissesNone ==
    Complete /\ ~search.fts /\ (search.query.text <= search.query.length \/ search.query.text <= MinOverlap)
      => /\ \A f \in FileIds :
              Holds(disk[f], search.query) => f \in search.found \/ PassedOver(f)
         /\ \A f \in search.found : Readable(disk[f], search.query)

\* Once a walk came to its end without having read everything, no search of
\* this scan is reported complete, the ones the index answers included.
UnreadIsRemembered == Complete => ~unreadEver

\* What a search that calls itself complete stands for
CompleteIsTrue == WalkMissesNone /\ UnreadIsRemembered

\* A search ends, whatever it cannot read and whether or not it is stopped.
SearchEnds == search.pc \in {"walk", "flush", "fts"} ~> search.pc \in {"ended", "idle"}
=============================================================================
