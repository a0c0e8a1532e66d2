---------------------------- MODULE FileCatalog ----------------------------
(***************************************************************************)
(* The table of found files (MetadataStore) between the scan that fills    *)
(* it, the results list that pages through it, the CSV export and the      *)
(* reset of the scan data.                                                 *)
(*                                                                         *)
(* One recursive mutex, MetadataStore::mu_, guards the connection.  Three  *)
(* threads take it: the scan thread to commit a batch, the JavaScript      *)
(* thread to answer a page or to reset, and the export worker.  A call     *)
(* that holds the mutex from its first line to its last is one action.     *)
(* The renderer asks for a page and gets the answer later; a generation    *)
(* tells it whether the answer is still wanted.                            *)
(*                                                                         *)
(* A row keeps what a page or a query tells apart: its id, its sort key    *)
(* and whether the query of the session occurs in its name not at all,     *)
(* inside a word or at the start of one.                                   *)
(***************************************************************************)
EXTENDS Integers, SequencesExt

CONSTANTS
    Keys,        \* values of the sort key of a row
    Names,       \* how the query occurs in a row: subset of {"none", "infix", "prefix"}
    PageSize,    \* PAGE_SIZE of the results list
    ChunkRows,   \* rows the export writes at a time
    Sessions     \* bounds of a session: the names that occur, rows ever inserted,
                 \* pages asked for, exports begun, resets of the scan data

ASSUME CatalogAssumption ==
    /\ Keys \subseteq Nat /\ Names \subseteq {"none", "infix", "prefix"}
    /\ {PageSize, ChunkRows} \subseteq Nat \ {0}
    /\ Sessions \subseteq [names : SUBSET Names, rows : Nat, loads : Nat, exports : Nat,
                            resets : Nat]

VARIABLES
    \* the database and the mutex
    files,       \* rows of the table
    nextId,      \* sqlite_sequence: the id the next row gets
    indexed,     \* files_fts is there, with its triggers
    index,       \* ids in files_fts
    db,          \* "open", "resetting" or "closed" (the process died)
    resets,
    session,
    depth,       \* [Threads -> Nat]: how often each thread holds mu_
    \* the results list
    list,        \* order, page, generation, page cursors, last count
    loading,     \* requests not yet answered, oldest first
    segment,     \* ghost: pages shown in a row, each after the one before it, by order
    atStart,     \* ghost: the rows when the first of them was answered
    \* the export worker
    export,      \* pc, pass, last row read, rows of the open chunk, rows written
    atExport     \* ghost: the rows when it began

dbVars == <<files, nextId, indexed, index, db, resets, session>>
listVars == <<list, loading, segment, atStart>>
exportVars == <<export, atExport>>
catalogVars == <<dbVars, depth, listVars, exportVars>>

Threads == {"scan", "js", "worker"}
Orders == {"asc", "desc", "id", "query"}
NoSegment == [order |-> "id", pages |-> <<>>]
NoRow == [id |-> 0, key |-> 0, name |-> "none"]

Free(t) == \A u \in Threads \ {t} : depth[u] = 0

----------------------------------------------------------------------------
(* SQL                                                                     *)

\* orderByToSql: the key in its direction, then the id, which always rises
Precedes(order, r, s) ==
    CASE order = "asc"  -> r.key < s.key \/ (r.key = s.key /\ r.id < s.id)
      [] order = "desc" -> r.key > s.key \/ (r.key = s.key /\ r.id < s.id)
      [] OTHER          -> r.id < s.id

\* Mutant: the row-value comparison, with the id falling where the key falls.
RowValueAfter(order, rows, cursor) ==
    {r \in rows : IF order = "desc"
                  THEN r.key < cursor.key \/ (r.key = cursor.key /\ r.id < cursor.id)
                  ELSE Precedes(order, cursor, r)}

\* The keyset predicate of getFiles
AfterCursor(order, rows, cursor) ==
    {r \in rows :
        \/ IF order = "desc" THEN r.key < cursor.key ELSE r.key > cursor.key
        \/ r.key = cursor.key /\ r.id > cursor.id}

\* The LIKE pass finds a query anywhere, the FTS pass at the start of a word.
Like(rows) == {r \in rows : r.name # "none"}
Match(rows) == {r \in rows : r.name = "prefix" /\ r.id \in index}

\* ORDER BY: the row with i - 1 rows before it is the i-th.
Sorted(order, rows) ==
    [i \in 1..Cardinality(rows) |->
        CHOOSE r \in rows : Cardinality({s \in rows : Precedes(order, s, r)}) = i - 1]
Limited(s, offset) == SubSeq(s, offset + 1, IF Len(s) < offset + PageSize THEN Len(s) ELSE offset + PageSize)

\* getFiles.  A query goes to searchFiles, whose FTS statement does not
\* compile (an alias cannot be matched), so that the LIKE pass answers.
Page(order, page, cursor) ==
    IF order = "query" THEN Limited(Sorted(order, Like(files)), page * PageSize)
    ELSE IF order \in {"asc", "desc"} /\ cursor.id > 0
         THEN Limited(Sorted(order, AfterCursor(order, files, cursor)), 0)
         ELSE Limited(Sorted(order, files), page * PageSize)

Count(order) == Cardinality(IF order = "query" THEN Like(files) ELSE files)

----------------------------------------------------------------------------
CatalogInit ==
    /\ files = {} /\ nextId = 1 /\ indexed = TRUE /\ index = {} /\ db = "open" /\ resets = 0
    /\ session \in Sessions
    /\ depth = [t \in Threads |-> 0]
    /\ list = [order |-> "desc", page |-> 0, gen |-> 0, cursors |-> <<>>, total |-> 0]
    /\ loading = <<>> /\ segment = NoSegment /\ atStart = {}
    /\ export = [pc |-> "idle", order |-> "id", pass |-> 1, last |-> NoRow,
                 chunk |-> <<>>, written |-> <<>>]
    /\ atExport = {}

(* The scan thread: one batch, with the AFTER INSERT trigger of the index. *)
InsertBatch ==
    /\ db = "open" /\ Free("scan") /\ nextId <= session.rows
    /\ \E k \in Keys, n \in session.names : files' = files \cup {[id |-> nextId, key |-> k, name |-> n]}
    /\ index' = IF indexed THEN index \cup {nextId} ELSE index
    /\ nextId' = nextId + 1
    /\ UNCHANGED <<indexed, db, resets, session, depth, listVars, exportVars>>

----------------------------------------------------------------------------
(* The results list                                                        *)

Cursor(page) == IF page \in DOMAIN list.cursors THEN list.cursors[page] ELSE NoRow

\* loadPage, up to its await
Ask(order, page, cursors) ==
    /\ list.gen < session.loads
    /\ list' = [list EXCEPT !.order = order, !.page = page, !.gen = @ + 1, !.cursors = cursors]
    /\ loading' = Append(loading,
                         [gen |-> list.gen + 1, order |-> order, page |-> page,
                          cursor |-> IF page > 0 /\ page - 1 \in DOMAIN cursors
                                     THEN cursors[page - 1] ELSE NoRow])
    /\ UNCHANGED <<dbVars, depth, segment, atStart, exportVars>>

\* Rows arrived, or the view opens: the page that is open is read again.
Reload == Ask(list.order, list.page, list.cursors)

LastPage == IF list.total = 0 THEN 0 ELSE (list.total - 1) \div PageSize

\* The buttons wait for the answer; the page field does not.
Turn ==
    /\ loading = <<>>
    /\ \E p \in {list.page - 1, list.page + 1} : p \in 0..LastPage /\ Ask(list.order, p, list.cursors)
Jump == \E p \in 0..LastPage : p # list.page /\ Ask(list.order, p, list.cursors)

\* A change of the order or of the query clears the cursors and the page.
Reorder == \E o \in Orders : o # list.order /\ Ask(o, 0, <<>>)

Wanted(request) == request.gen = list.gen

\* An answer continues what is shown when it was asked for after the last row
\* of the page before it.
Continues(request) ==
    /\ request.order = segment.order /\ request.page - 1 \in DOMAIN segment.pages
    /\ request.order \in {"asc", "desc"}
         => request.cursor = Last(segment.pages[request.page - 1])

\* The main process reads the page, and the renderer takes it if it is the
\* one it asked for last.
Answer ==
    /\ loading # <<>> /\ db = "open" /\ Free("js")
    /\ LET request == Head(loading)
           rows == Page(request.order, request.page, request.cursor)
       IN  IF Wanted(request)
           THEN /\ list' = [list EXCEPT
                    !.total = Count(request.order),
                    !.cursors = IF rows = <<>> THEN @
                                ELSE [p \in DOMAIN @ \cup {request.page} |->
                                        IF p = request.page THEN Last(rows) ELSE @[p]]]
                /\ segment' =
                     IF rows = <<>> THEN NoSegment
                     ELSE [order |-> request.order,
                           pages |-> [p \in {request.page} \cup {q \in DOMAIN segment.pages :
                                                Continues(request) /\ q < request.page} |->
                                        IF p = request.page THEN rows ELSE segment.pages[p]]]
                /\ atStart' = IF Continues(request) THEN atStart ELSE files
           ELSE UNCHANGED <<list, segment, atStart>>
    /\ loading' = Tail(loading)
    /\ UNCHANGED <<dbVars, depth, exportVars>>

----------------------------------------------------------------------------
(* exportCsv                                                               *)

\* Mutant: the first lock is not kept, so that unlocking stepLock lets go.
BeginExportUnlocked ==
    /\ export.pc = "idle" /\ session.exports > 0 /\ db = "open" /\ Free("worker")
    /\ \E o \in Orders :
          /\ o = "query" => indexed
          /\ export' = [pc |-> "step", order |-> o, pass |-> 1, last |-> NoRow,
                        chunk |-> <<>>, written |-> <<>>]
    /\ depth' = [depth EXCEPT !["worker"] = 1]
    /\ atExport' = files
    /\ UNCHANGED <<dbVars, listVars>>

BeginExport ==
    /\ export.pc = "idle" /\ session.exports > 0 /\ db = "open" /\ Free("worker")
    /\ \E o \in Orders :
          /\ o = "query" => indexed
          /\ export' = [pc |-> "step", order |-> o, pass |-> 1, last |-> NoRow,
                        chunk |-> <<>>, written |-> <<>>]
    /\ depth' = [depth EXCEPT !["worker"] = 2]     \* lock_guard and stepLock
    /\ atExport' = files
    /\ UNCHANGED <<dbVars, listVars>>

\* The FTS pass of a query does not compile without the index: the file is removed.
ExportRefused ==
    /\ export.pc = "idle" /\ session.exports > 0 /\ db = "open" /\ Free("worker") /\ ~indexed
    /\ export' = [pc |-> "failed", order |-> "query", pass |-> 1, last |-> NoRow,
                  chunk |-> <<>>, written |-> <<>>]
    /\ atExport' = files
    /\ UNCHANGED <<dbVars, depth, listVars>>

\* The statement of the current pass, at the rows it has not read yet
Pending ==
    LET rows == IF export.order # "query" THEN files
                ELSE IF export.pass = 1 THEN Match(files) ELSE Like(files)
    IN  {r \in rows : export.last = NoRow \/ Precedes(export.order, export.last, r)}

ExportRow ==
    /\ export.pc = "step" /\ Pending # {}
    /\ LET r == Head(Sorted(export.order, Pending))
           full == Len(export.chunk) + 1 = ChunkRows
       IN  /\ export' = [export EXCEPT !.last = r, !.chunk = Append(@, r),
                                       !.pc = IF full THEN "write" ELSE @]
           /\ depth' = IF full THEN [depth EXCEPT !["worker"] = @ - 1] ELSE depth
    /\ UNCHANGED <<dbVars, listVars, atExport>>

\* A failed write closes the file, removes it and returns.
ExportWrite ==
    /\ export.pc = "write"
    /\ \/ /\ export' = [export EXCEPT !.written = @ \o export.chunk, !.chunk = <<>>, !.pc = "step"]
          /\ Free("worker")
          /\ depth' = [depth EXCEPT !["worker"] = @ + 1]
       \/ /\ export' = [export EXCEPT !.written = <<>>, !.chunk = <<>>, !.pc = "failed"]
          /\ depth' = [depth EXCEPT !["worker"] = 0]
    /\ UNCHANGED <<dbVars, listVars, atExport>>

\* The end of a pass writes what is left of its chunk; the LIKE pass of a
\* query runs only when the FTS pass read nothing.
ExportPassEnds ==
    /\ export.pc = "step" /\ Pending = {}
    /\ LET rows == export.written \o export.chunk
           again == export.order = "query" /\ export.pass = 1 /\ rows = <<>>
       IN  IF again
           THEN export' = [export EXCEPT !.pass = 2, !.last = NoRow] /\ UNCHANGED depth
           ELSE /\ depth' = [depth EXCEPT !["worker"] = 0]
                /\ \/ export' = [export EXCEPT !.written = rows, !.chunk = <<>>, !.pc = "done"]
                   \/ export' = [export EXCEPT !.written = <<>>, !.chunk = <<>>, !.pc = "failed"]
    /\ UNCHANGED <<dbVars, listVars, atExport>>

----------------------------------------------------------------------------
(* clearAllScanData and open                                               *)

\* The index and its triggers are dropped before the rows are deleted ...
ResetBegins ==
    /\ db = "open" /\ Free("js") /\ resets < session.resets
    /\ db' = "resetting" /\ resets' = resets + 1 /\ indexed' = FALSE /\ index' = {}
    /\ depth' = [depth EXCEPT !["js"] = 1]
    /\ UNCHANGED <<files, nextId, session, listVars, exportVars>>

resetFrame == <<nextId, index, resets, session, exportVars>>

\* ... sqlite_sequence stays, so that the ids go on, and the index comes back.
\* The renderer drops its cursors with the scan they belong to.
ResetEnds ==
    /\ db = "resetting"
    /\ db' = "open" /\ indexed' = TRUE /\ files' = {}
    /\ depth' = [depth EXCEPT !["js"] = 0]
    /\ list' = [list EXCEPT !.cursors = <<>>, !.page = 0, !.total = 0, !.gen = @ + 1]
    /\ loading' = <<>> /\ segment' = NoSegment /\ atStart' = {}
    /\ UNCHANGED resetFrame

\* A DELETE fails, or an index cannot be created: what was dropped or deleted
\* before stays so, and the renderer keeps what it shows.
ResetFails ==
    /\ db = "resetting" /\ db' = "open"
    /\ \/ UNCHANGED <<files, indexed, segment, atStart>>
       \/ files' = {} /\ indexed' \in BOOLEAN /\ segment' = NoSegment /\ atStart' = {}
    /\ depth' = [depth EXCEPT !["js"] = 0]
    /\ UNCHANGED <<resetFrame, list, loading>>

\* The process dies, in a reset with the rows deleted or not.
Dies ==
    /\ db # "closed" /\ db' = "closed"
    /\ files' = files \/ (db = "resetting" /\ files' = {})
    /\ depth' = [t \in Threads |-> 0]
    /\ list' = [list EXCEPT !.cursors = <<>>, !.page = 0, !.total = 0]
    /\ loading' = <<>> /\ segment' = NoSegment /\ atStart' = {}
    /\ export' = [export EXCEPT !.pc = "idle", !.chunk = <<>>]
    /\ UNCHANGED <<nextId, indexed, index, resets, session, atExport>>

openFrame == <<files, nextId, resets, session, depth, listVars, exportVars>>

\* Mutant: the index is created again and not filled.
OpenEmpty ==
    /\ db = "closed" /\ db' = "open"
    /\ indexed' = TRUE
    /\ UNCHANGED <<index, openFrame>>

\* open: tables and triggers if missing, then the rows the index lacks.  Nobody
\* looks at what ensureFtsIndex returns.
Open ==
    /\ db = "closed" /\ db' = "open"
    /\ \/ indexed' = TRUE /\ index' = index \cup {r.id : r \in files}
       \/ ~indexed /\ UNCHANGED <<indexed, index>>
    /\ UNCHANGED openFrame

CatalogNext ==
    \/ InsertBatch
    \/ Reload \/ Turn \/ Jump \/ Reorder \/ Answer
    \/ BeginExport \/ ExportRefused \/ ExportRow \/ ExportWrite \/ ExportPassEnds
    \/ ResetBegins \/ ResetEnds \/ ResetFails \/ Dies \/ Open

CatalogSpec == CatalogInit /\ [][CatalogNext]_catalogVars

----------------------------------------------------------------------------
(* Properties                                                              *)

\* The places of the segment: a page and a row of it
Places == UNION {{<<p, i>> : i \in DOMAIN segment.pages[p]} : p \in DOMAIN segment.pages}
Shown(at) == segment.pages[at[1]][at[2]]

\* Turning the pages of a list that a scan is still filling shows the rows in
\* their order, none twice, and skips no row that was there when the first page
\* was read: the keyset predicate and the order agree on ties, an offset counts
\* pages that were full, and no late answer leaves a cursor of another order
\* behind.
PagesLeaveNoGap ==
    /\ \A a, b \in Places :
          a[1] < b[1] \/ (a[1] = b[1] /\ a[2] < b[2])
              => Precedes(segment.order, Shown(a), Shown(b))
    /\ \A r \in atStart, a, b \in Places :
          /\ segment.order = "query" => r.name # "none"
          /\ Precedes(segment.order, Shown(a), r) /\ Precedes(segment.order, r, Shown(b))
          => \E c \in Places : Shown(c) = r

\* A finished export of a sorted list holds the rows of the moment it began,
\* in their order, however many batches the scan wants to commit meanwhile;
\* a failed one leaves nothing.
ExportIsSnapshot ==
    /\ export.pc = "done" /\ export.order # "query"
         => export.written = Sorted(export.order, atExport)
    /\ export.pc = "failed" => export.written = <<>>

\* Whenever the store is open with its index, every row is in the index and
\* the index holds no other: a death wherever it comes, and a reset that fails,
\* are made good by the next reset or open that can create it.  Until then the
\* index is absent, so that nothing answers from a part of it.
IndexMirrorsRows ==
    /\ db = "open" /\ indexed => index = {r.id : r \in files}
    /\ ~indexed => index = {}
=============================================================================
