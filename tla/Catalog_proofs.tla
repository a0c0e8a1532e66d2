--------------------------- MODULE Catalog_proofs ---------------------------
(***************************************************************************)
(* Theorems of the table of found files, for any page size, chunk size,    *)
(* sort keys and sessions, of the search of the files' contents, for any   *)
(* volume, window, overlap and query, and of the raw search for bytes, for *)
(* any disk, chunk and needle.                                             *)
(***************************************************************************)
EXTENDS FileCatalog, ContentSearch, SignatureScan, FiniteSetTheorems, SequenceTheorems, NaturalRecursion, TLAPS

RowType == [id : Nat, key : Nat, name : {"none", "infix", "prefix"}]

\* A set of rows as the table can hold them: no two of one id
IsTable(rows) ==
    /\ rows \subseteq RowType /\ IsFiniteSet(rows)
    /\ \A r, s \in rows : r.id = s.id => r = s

----------------------------------------------------------------------------
(* The invariant                                                           *)

TableInv ==
    /\ IsTable(files) /\ nextId \in Nat /\ nextId > 0
    /\ \A r \in files : 0 < r.id /\ r.id < nextId
    /\ session \in Sessions /\ resets \in Nat

\* Who holds the mutex: nobody else, the worker in its export, and the
\* JavaScript thread in a reset.
MutexInv ==
    /\ db \in {"open", "resetting", "closed"}
    /\ depth = [t \in Threads |->
                  CASE t = "worker" /\ export.pc = "step"  -> 2
                    [] t = "worker" /\ export.pc = "write" -> 1
                    [] t = "js" /\ db = "resetting"        -> 1
                    [] OTHER                               -> 0]
    /\ export.pc \in {"step", "write"} => db = "open"

IndexInv ==
    /\ indexed \in BOOLEAN /\ index = IF indexed THEN {r.id : r \in files} ELSE {}
    /\ db = "resetting" => ~indexed

\* What the export has read is the beginning of the sorted table, and the table
\* is the one it began with.
Read == export.written \o export.chunk
ExportType == [pc : {"idle", "step", "write", "failed", "done"}, order : Orders, pass : {1, 2},
               last : RowType, chunk : Seq(RowType), written : Seq(RowType)]
ExportInv ==
    /\ export \in ExportType
    /\ export.pc \in {"step", "write"} =>
         /\ files = atExport
         /\ export.order # "query" =>
              /\ Len(Read) <= Cardinality(files)
              /\ \A i \in 1..Len(Read) : Read[i] = Sorted(export.order, files)[i]
              /\ export.last = IF Read = <<>> THEN NoRow ELSE Read[Len(Read)]
    /\ export.pc = "done" /\ export.order # "query" => export.written = Sorted(export.order, atExport)
    /\ export.pc = "failed" => export.written = <<>>

\* Only the latest request can still be wanted, and it is for the page that is open.
RequestsInv ==
    /\ list = [order |-> list.order, page |-> list.page, gen |-> list.gen,
               cursors |-> list.cursors, total |-> list.total]
    /\ list.order \in Orders /\ list.page \in Nat /\ list.gen \in Nat /\ list.total \in Nat
    /\ \A p \in DOMAIN list.cursors : list.cursors[p] \in RowType
    /\ loading \in Seq([gen : Nat, order : Orders, page : Nat, cursor : RowType])
    /\ \A k \in DOMAIN loading :
         /\ loading[k].gen <= list.gen
         /\ Wanted(loading[k]) => loading[k].order = list.order /\ loading[k].page = list.page

\* The rows an order goes through
Selected(order) == IF order = "query" THEN Like(files) ELSE files

\* Pages one after the other, of the rows of a table, all in order
IsChain(order, pages, rows) ==
    /\ DOMAIN pages \subseteq Nat
    /\ \A p, q \in DOMAIN pages : \A m \in p..q : m \in DOMAIN pages
    /\ \A p \in DOMAIN pages : pages[p] \in Seq(rows) /\ pages[p] # <<>>
    /\ \A p, q \in DOMAIN pages : \A i \in DOMAIN pages[p], j \in DOMAIN pages[q] :
         p < q \/ (p = q /\ i < j) => Precedes(order, pages[p][i], pages[q][j])

\* A row that lies between two rows of the pages is on one of them, up to the
\* end of each page.
NoneSkipped(order, pages, rows) ==
    \A r \in rows, p, q \in DOMAIN pages : \A i \in DOMAIN pages[q] :
        Precedes(order, pages[q][i], r) /\ Precedes(order, r, Last(pages[p]))
            => \E m \in DOMAIN pages : m <= p /\ \E j \in DOMAIN pages[m] : pages[m][j] = r

PagesInv ==
    /\ segment.order \in Orders /\ atStart \subseteq files
    /\ IsChain(segment.order, segment.pages, Selected(segment.order))
    /\ NoneSkipped(segment.order, segment.pages, atStart \cap Selected(segment.order))

Rank(order, rows, r) == Cardinality({s \in rows : Precedes(order, s, r)})

\* What an offset counts: where a page ends, and that every page before another
\* one, or before one the pager offers, is full.
OffsetInv ==
    segment.order \in {"id", "query"} =>
        /\ \A p \in DOMAIN segment.pages :
             /\ Rank(segment.order, Selected(segment.order), Last(segment.pages[p])) + 1
                  = p * PageSize + Len(segment.pages[p])
             /\ \/ Len(segment.pages[p]) = PageSize
                \/ list.total <= (p + 1) * PageSize /\ p + 1 \notin DOMAIN segment.pages
        /\ list.order = segment.order /\ list.page - 1 \in DOMAIN segment.pages
             => Len(segment.pages[list.page - 1]) = PageSize

SegmentInv == RequestsInv /\ PagesInv /\ OffsetInv

CatalogInv == TableInv /\ MutexInv /\ IndexInv /\ ExportInv /\ SegmentInv

----------------------------------------------------------------------------
(* The order of a table                                                    *)

\* Precedes is a strict total order of the rows of a table.
LEMMA OrderFacts ==
    ASSUME NEW order, NEW rows, IsTable(rows)
    PROVE  /\ \A r \in rows : ~Precedes(order, r, r)
           /\ \A r, s, t \in rows : Precedes(order, r, s) /\ Precedes(order, s, t) => Precedes(order, r, t)
           /\ \A r, s \in rows : Precedes(order, r, s) \/ Precedes(order, s, r) \/ r = s
           /\ \A r, s \in rows : ~(Precedes(order, r, s) /\ Precedes(order, s, r))
<1>1. \A r \in rows : r.id \in Nat /\ r.key \in Nat
  BY DEF IsTable, RowType
<1>2. \A r, s \in rows : r.id = s.id => r = s
  BY DEF IsTable
<1>3. CASE order = "asc"
  BY <1>1, <1>2, <1>3 DEF Precedes
<1>4. CASE order = "desc"
  BY <1>1, <1>2, <1>4 DEF Precedes
<1>5. CASE order # "asc" /\ order # "desc"
  BY <1>1, <1>2, <1>5 DEF Precedes
<1> QED
  BY <1>3, <1>4, <1>5

LEMMA RankFacts ==
    ASSUME NEW order, NEW rows, IsTable(rows), NEW r \in rows
    PROVE  /\ Rank(order, rows, r) \in 0..(Cardinality(rows) - 1) /\ Cardinality(rows) \in Nat
           /\ \A s \in rows : Precedes(order, r, s) => Rank(order, rows, r) < Rank(order, rows, s)
           /\ \A s \in rows : Rank(order, rows, r) = Rank(order, rows, s) => r = s
           /\ \A s \in rows : Rank(order, rows, r) < Rank(order, rows, s) => Precedes(order, r, s)
<1> DEFINE Below(x) == {s \in rows : Precedes(order, s, x)}
<1>1. IsFiniteSet(rows) /\ Cardinality(rows) \in Nat
  BY FS_CardinalityType DEF IsTable
<1>2. ASSUME NEW x \in rows
      PROVE  IsFiniteSet(Below(x)) /\ Cardinality(Below(x)) \in Nat /\ x \notin Below(x)
  <2>1. Below(x) \in SUBSET rows
    OBVIOUS
  <2>2. x \notin Below(x)
    BY OrderFacts
  <2> HIDE DEF Below
  <2> QED
    BY <1>1, <2>1, <2>2, FS_Subset, FS_CardinalityType
<1>3. ASSUME NEW x \in rows, NEW S \in SUBSET rows, Below(x) \subseteq S, x \in S
      PROVE  Cardinality(Below(x)) < Cardinality(S)
  <2> HIDE DEF Below
  <2>1. IsFiniteSet(S) /\ Cardinality(S) \in Nat
    BY <1>1, FS_Subset, FS_CardinalityType
  <2>2. /\ Below(x) \cup {x} \in SUBSET S
        /\ Cardinality(Below(x) \cup {x}) = Cardinality(Below(x)) + 1
    BY <1>2, <1>3, FS_AddElement
  <2>3. Cardinality(Below(x) \cup {x}) <= Cardinality(S)
    BY <2>1, <2>2, FS_Subset
  <2> QED
    BY <1>2, <2>1, <2>2, <2>3
<1>4. Cardinality(Below(r)) < Cardinality(rows)
  BY <1>3
<1>5. ASSUME NEW x \in rows, NEW y \in rows, Precedes(order, x, y)
      PROVE  Cardinality(Below(x)) < Cardinality(Below(y))
  <2>1. Below(x) \subseteq Below(y) /\ x \in Below(y) /\ Below(y) \in SUBSET rows
    BY <1>5, OrderFacts
  <2> HIDE DEF Below
  <2> QED
    BY <1>3, <2>1
<1>6. \A x \in rows : Rank(order, rows, x) = Cardinality(Below(x))
  BY DEF Rank
<1> HIDE DEF Below
<1>7. \A s \in rows : Precedes(order, r, s) => Rank(order, rows, r) < Rank(order, rows, s)
  BY <1>5, <1>6
<1>8. ASSUME NEW s \in rows PROVE Rank(order, rows, r) = Rank(order, rows, s) => r = s
  <2>1. Precedes(order, r, s) \/ Precedes(order, s, r) \/ r = s
    BY OrderFacts
  <2>2. Cardinality(Below(r)) \in Nat /\ Cardinality(Below(s)) \in Nat
    BY <1>2
  <2>3. CASE Precedes(order, r, s)
    BY <1>5, <1>6, <2>2, <2>3
  <2>4. CASE Precedes(order, s, r)
    BY <1>5, <1>6, <2>2, <2>4
  <2> QED
    BY <2>1, <2>3, <2>4
<1>9. ASSUME NEW s \in rows, Rank(order, rows, r) < Rank(order, rows, s)
      PROVE  Precedes(order, r, s)
  <2>1. Precedes(order, r, s) \/ Precedes(order, s, r) \/ r = s
    BY OrderFacts
  <2>2. Cardinality(Below(r)) \in Nat /\ Cardinality(Below(s)) \in Nat
    BY <1>2
  <2>3. CASE Precedes(order, s, r)
    BY <1>5, <1>6, <1>9, <2>2, <2>3
  <2>4. CASE r = s
    BY <1>6, <1>9, <2>2, <2>4
  <2> QED
    BY <2>1, <2>3, <2>4
<1>10. Rank(order, rows, r) \in 0..(Cardinality(rows) - 1)
  BY <1>1, <1>2, <1>4, <1>6
<1> QED
  BY <1>1, <1>7, <1>8, <1>9, <1>10

\* Every place is taken by one row: as many ranks as rows, and no two the same.
LEMMA RanksTaken ==
    ASSUME NEW order, NEW rows, IsTable(rows), NEW k \in 0..(Cardinality(rows) - 1)
    PROVE  \E r \in rows : Rank(order, rows, r) = k
<1> DEFINE n == Cardinality(rows)
           f == [r \in rows |-> Rank(order, rows, r)]
<1>1. IsFiniteSet(rows) /\ n \in Nat
  BY FS_CardinalityType DEF IsTable
<1>2. f \in Injection(rows, 0..(n - 1))
  <2>1. \A r \in rows : f[r] \in 0..(n - 1)
    BY RankFacts
  <2>2. \A r, s \in rows : f[r] = f[s] => r = s
    BY RankFacts
  <2> HIDE DEF n
  <2> QED
    BY <2>1, <2>2 DEF Injection, IsInjective
<1> HIDE DEF n, f
<1>3. IsFiniteSet(0..(n - 1)) /\ Cardinality(0..(n - 1)) = n
  BY <1>1, FS_Interval
<1>4. f \in Surjection(rows, 0..(n - 1))
  BY <1>2, <1>3, FS_Injection DEF n
<1>5. PICK r \in rows : f[r] = k
  BY <1>4 DEF Surjection, n
<1> QED
  BY <1>5 DEF f

\* ORDER BY gives every row once, in the order.
LEMMA SortedFacts ==
    ASSUME NEW order, NEW rows, IsTable(rows)
    PROVE  LET s == Sorted(order, rows)
               n == Cardinality(rows)
           IN  /\ n \in Nat /\ s \in [1..n -> rows] /\ s \in Seq(rows) /\ Len(s) = n
               /\ \A i \in 1..n : Rank(order, rows, s[i]) = i - 1
               /\ \A r \in rows : Rank(order, rows, r) + 1 \in 1..n /\ s[Rank(order, rows, r) + 1] = r
               /\ \A i, j \in 1..n : i < j <=> Precedes(order, s[i], s[j])
<1> DEFINE s == Sorted(order, rows)
           n == Cardinality(rows)
<1>1. n \in Nat
  BY FS_CardinalityType DEF IsTable
<1>2. s = [i \in 1..n |-> CHOOSE r \in rows : Rank(order, rows, r) = i - 1]
  BY DEF Sorted, Rank
<1> HIDE DEF s
<1>3. ASSUME NEW i \in 1..n PROVE s[i] \in rows /\ Rank(order, rows, s[i]) = i - 1
  <2>1. i - 1 \in 0..(n - 1)
    BY <1>1
  <2>2. \E r \in rows : Rank(order, rows, r) = i - 1
    BY <2>1, RanksTaken
  <2> QED
    BY <1>2, <2>2
<1>4. s \in [1..n -> rows]
  BY <1>2, <1>3
<1>5. s \in Seq(rows) /\ Len(s) = n
  BY <1>1, <1>4
<1>6. ASSUME NEW r \in rows
      PROVE  Rank(order, rows, r) + 1 \in 1..n /\ s[Rank(order, rows, r) + 1] = r
  <2> DEFINE k == Rank(order, rows, r) + 1
  <2>1. Rank(order, rows, r) \in 0..(n - 1)
    BY RankFacts
  <2>2. k \in 1..n /\ k - 1 = Rank(order, rows, r)
    BY <1>1, <2>1
  <2> HIDE DEF k
  <2>3. s[k] \in rows /\ Rank(order, rows, s[k]) = Rank(order, rows, r)
    BY <1>3, <2>2
  <2>4. s[k] = r
    BY <2>3, RankFacts
  <2> QED
    BY <2>2, <2>4 DEF k
<1>7. ASSUME NEW i \in 1..n, NEW j \in 1..n PROVE i < j <=> Precedes(order, s[i], s[j])
  <2> DEFINE x == s[i]
             y == s[j]
  <2>1. /\ x \in rows /\ Rank(order, rows, x) = i - 1
        /\ y \in rows /\ Rank(order, rows, y) = j - 1
    BY <1>3
  <2>2. i \in Int /\ j \in Int
    BY <1>1
  <2> HIDE DEF x, y
  <2>3. Precedes(order, x, y) => Rank(order, rows, x) < Rank(order, rows, y)
    BY <2>1, RankFacts
  <2>4. Rank(order, rows, x) < Rank(order, rows, y) => Precedes(order, x, y)
    BY <2>1, RankFacts
  <2>5. i < j <=> i - 1 < j - 1
    BY <2>2
  <2> QED
    BY <2>1, <2>3, <2>4, <2>5 DEF x, y
<1> QED
  BY <1>1, <1>3, <1>4, <1>5, <1>6, <1>7 DEF s

LEMMA PageSizeType == PageSize \in Nat /\ PageSize > 0
  BY CatalogAssumption

\* LIMIT and OFFSET: the rows of the places behind the offset
IsWindow(order, rows, off, w) ==
    /\ w \in Seq(rows) /\ Len(w) \in 0..PageSize /\ DOMAIN w = 1..Len(w)
    /\ Len(w) < PageSize => Cardinality(rows) <= off + Len(w)
    /\ \A i \in 1..Len(w) : w[i] \in rows /\ Rank(order, rows, w[i]) = off + i - 1
    /\ \A r \in rows : off <= Rank(order, rows, r) /\ Rank(order, rows, r) < off + Len(w)
                         => \E i \in 1..Len(w) : w[i] = r

LEMMA WindowFacts ==
    ASSUME NEW order, NEW rows, IsTable(rows), NEW off \in Nat
    PROVE  IsWindow(order, rows, off, Limited(Sorted(order, rows), off))
<1> DEFINE s == Sorted(order, rows)
           n == Cardinality(rows)
           last == IF n < off + PageSize THEN n ELSE off + PageSize
           w == SubSeq(s, off + 1, last)
<1>1. n \in Nat /\ s \in Seq(rows) /\ Len(s) = n /\ s \in [1..n -> rows]
  BY SortedFacts
<1>2. \A i \in 1..n : s[i] \in rows /\ Rank(order, rows, s[i]) = i - 1
  BY <1>1, SortedFacts
<1>3. \A r \in rows : Rank(order, rows, r) + 1 \in 1..n /\ s[Rank(order, rows, r) + 1] = r
                      /\ Rank(order, rows, r) \in 0..(n - 1)
  BY SortedFacts, RankFacts
<1>4. Limited(s, off) = w
  BY <1>1 DEF Limited
<1> HIDE DEF s, n
<1>5. last \in Nat /\ last <= n /\ last <= off + PageSize
  BY <1>1, PageSizeType
<1>6. /\ w \in Seq(rows) /\ Len(w) = (IF off + 1 <= last THEN last - off ELSE 0)
      /\ \A i \in 1..Len(w) : w[i] = s[off + i]
  <2> HIDE DEF last
  <2>1. \A i \in (off + 1)..last : i \in 1..Len(s)
    BY <1>1, <1>5
  <2> QED
    BY <1>1, <1>5, <2>1
<1>7. /\ Len(w) \in 0..PageSize /\ DOMAIN w = 1..Len(w)
      /\ Len(w) < PageSize => n <= off + Len(w)
      /\ \A i \in 1..Len(w) : off + i \in 1..n /\ (off + i) - 1 = off + i - 1
  <2>1. DOMAIN w = 1..Len(w)
    BY <1>6
  <2> HIDE DEF w
  <2> QED
    BY <1>1, <1>5, <1>6, <2>1, PageSizeType
<1> HIDE DEF w, last
<1>8. \A i \in 1..Len(w) : w[i] \in rows /\ Rank(order, rows, w[i]) = off + i - 1
  <2> SUFFICES ASSUME NEW i \in 1..Len(w)
               PROVE  w[i] \in rows /\ Rank(order, rows, w[i]) = off + i - 1
    OBVIOUS
  <2>1. off + i \in 1..n /\ w[i] = s[off + i]
    BY <1>6, <1>7
  <2> QED
    BY <1>2, <1>7, <2>1
<1>9. ASSUME NEW r \in rows, off <= Rank(order, rows, r), Rank(order, rows, r) < off + Len(w)
      PROVE  \E i \in 1..Len(w) : w[i] = r
  <2> DEFINE k == Rank(order, rows, r)
             i == k - off + 1
  <2>1. k \in Nat /\ s[k + 1] = r
    BY <1>1, <1>3
  <2> HIDE DEF k
  <2>2. i \in 1..Len(w) /\ off + i = k + 1
    BY <1>7, <1>9, <2>1 DEF k
  <2> HIDE DEF i
  <2> QED
    BY <1>6, <2>1, <2>2
<1>10. IsWindow(order, rows, off, w)
  BY <1>6, <1>7, <1>8, <1>9 DEF IsWindow, n
<1> QED
  BY <1>4, <1>10 DEF s

----------------------------------------------------------------------------
(* The table, the mutex and the index                                      *)

LEMMA SessionFacts ==
    ASSUME session \in Sessions
    PROVE  /\ session.names \subseteq {"none", "infix", "prefix"}
           /\ session.rows \in Nat /\ session.loads \in Nat /\ session.exports \in Nat
           /\ session.resets \in Nat /\ Keys \subseteq Nat
<1>1. session \in [names : SUBSET Names, rows : Nat, loads : Nat, exports : Nat, resets : Nat]
  BY CatalogAssumption
<1>2. Names \subseteq {"none", "infix", "prefix"} /\ Keys \subseteq Nat
  BY CatalogAssumption
<1> QED
  BY <1>1, <1>2

\* The row a batch adds
LEMMA Inserted ==
    ASSUME TableInv, InsertBatch
    PROVE  /\ TableInv'
           /\ \E row \in RowType : /\ row.id = nextId /\ files' = files \cup {row}
                                   /\ \A r \in files : r.id < row.id
<1>1. PICK k \in Keys, n \in session.names : files' = files \cup {[id |-> nextId, key |-> k, name |-> n]}
  BY DEF InsertBatch
<1> DEFINE row == [id |-> nextId, key |-> k, name |-> n]
<1>2. row \in RowType /\ row.id = nextId /\ nextId \in Nat /\ nextId > 0
  BY SessionFacts DEF TableInv, RowType
<1>3. nextId' = nextId + 1 /\ UNCHANGED <<session, resets>>
  BY DEF InsertBatch, dbVars
<1>4. files' = files \cup {row}
  BY <1>1
<1> HIDE DEF row
<1>5. \A r \in files : r.id < row.id /\ r.id \in Nat
  BY <1>2 DEF TableInv, IsTable, RowType
<1>6. IsTable(files')
  <2>1. IsFiniteSet(files')
    BY <1>4, FS_AddElement DEF TableInv, IsTable
  <2>2. files' \subseteq RowType
    BY <1>2, <1>4 DEF TableInv, IsTable
  <2>3. \A r, s \in files' : r.id = s.id => r = s
    BY <1>2, <1>4, <1>5 DEF TableInv, IsTable
  <2> QED
    BY <2>1, <2>2, <2>3 DEF IsTable
<1>7. \A r \in files' : 0 < r.id /\ r.id < nextId'
  BY <1>2, <1>3, <1>4, <1>5 DEF TableInv
<1>8. TableInv'
  BY <1>2, <1>3, <1>6, <1>7 DEF TableInv
<1> QED
  BY <1>2, <1>4, <1>5, <1>8

LEMMA TableStep == ASSUME TableInv, [CatalogNext]_catalogVars PROVE TableInv'
<1>1. CASE UNCHANGED dbVars
  BY <1>1 DEF TableInv, dbVars, IsTable
<1>2. CASE InsertBatch
  BY <1>2, Inserted
<1>3. IsTable({})
  BY FS_EmptySet DEF IsTable
<1>4. CASE ResetBegins
  BY <1>4 DEF ResetBegins, TableInv, IsTable
<1>5. CASE ResetEnds \/ ResetFails
  BY <1>3, <1>5 DEF ResetEnds, ResetFails, resetFrame, TableInv, IsTable
<1>6. CASE Dies
  <2>1. files' = files \/ files' = {}
    BY <1>6 DEF Dies
  <2>2. IsTable(files') /\ \A r \in files' : 0 < r.id /\ r.id < nextId
    BY <1>3, <2>1 DEF TableInv
  <2> QED
    BY <1>6, <2>2 DEF Dies, TableInv
<1>7. CASE Open
  BY <1>7 DEF Open, openFrame, TableInv, IsTable
<1> QED
  BY <1>1, <1>2, <1>4, <1>5, <1>6, <1>7 DEF CatalogNext, catalogVars, Reload, Turn, Jump, Reorder,
     Ask, Answer, BeginExport, ExportRefused, ExportRow, ExportWrite, ExportPassEnds

\* What the mutex is held for
LEMMA MutexStep ==
    ASSUME MutexInv, export \in ExportType, [CatalogNext]_catalogVars PROVE MutexInv'
<1> USE DEF Threads, ExportType
<1>1. CASE UNCHANGED <<db, depth>> /\ export'.pc = export.pc
  BY <1>1 DEF MutexInv
<1>2. CASE BeginExport
  <2>1. PICK o \in Orders : export' = [pc |-> "step", order |-> o, pass |-> 1, last |-> NoRow,
                                       chunk |-> <<>>, written |-> <<>>]
    BY <1>2 DEF BeginExport
  <2>2. export'.pc = "step" /\ db' = db /\ db = "open" /\ depth' = [depth EXCEPT !["worker"] = 2]
    BY <1>2, <2>1 DEF BeginExport, dbVars
  <2> QED
    BY <2>2 DEF MutexInv
<1>3. CASE ExportRow
  <2>1. /\ export.pc = "step" /\ db' = db
        /\ \/ export'.pc = "step" /\ depth' = depth
           \/ export'.pc = "write" /\ depth' = [depth EXCEPT !["worker"] = @ - 1]
    BY <1>3 DEF ExportRow, dbVars
  <2> QED
    BY <2>1 DEF MutexInv
<1>4. CASE ExportWrite
  <2>1. /\ export.pc = "write" /\ db' = db
        /\ \/ export'.pc = "step" /\ depth' = [depth EXCEPT !["worker"] = @ + 1]
           \/ export'.pc = "failed" /\ depth' = [depth EXCEPT !["worker"] = 0]
    BY <1>4 DEF ExportWrite, dbVars
  <2> QED
    BY <2>1 DEF MutexInv
<1>5. CASE ExportPassEnds
  <2>1. /\ export.pc = "step" /\ db' = db
        /\ \/ export'.pc = "step" /\ depth' = depth
           \/ export'.pc \in {"done", "failed"} /\ depth' = [depth EXCEPT !["worker"] = 0]
    BY <1>5 DEF ExportPassEnds, dbVars
  <2> QED
    BY <2>1 DEF MutexInv
<1>6. CASE ResetBegins
  <2>1. depth["worker"] = 0 /\ db = "open" /\ db' = "resetting" /\ export' = export
        /\ depth' = [depth EXCEPT !["js"] = 1]
    BY <1>6 DEF ResetBegins, Free, exportVars
  <2>2. export.pc \notin {"step", "write"}
    BY <2>1 DEF MutexInv
  <2> QED
    BY <2>1, <2>2 DEF MutexInv
<1>7. CASE ResetEnds \/ ResetFails
  <2>1. db = "resetting" /\ db' = "open" /\ export' = export /\ depth' = [depth EXCEPT !["js"] = 0]
    BY <1>7 DEF ResetEnds, ResetFails, resetFrame, exportVars
  <2> QED
    BY <2>1 DEF MutexInv
<1>8. CASE Dies
  <2>1. db' = "closed" /\ export'.pc = "idle" /\ depth' = [t \in Threads |-> 0]
    BY <1>8 DEF Dies
  <2> QED
    BY <2>1 DEF MutexInv
<1>9. CASE Open
  <2>1. db = "closed" /\ db' = "open" /\ export' = export /\ depth' = depth
    BY <1>9 DEF Open, openFrame, exportVars
  <2> QED
    BY <2>1 DEF MutexInv
<1>10. CASE ExportRefused
  <2>1. export.pc = "idle" /\ export'.pc = "failed" /\ UNCHANGED <<db, depth>>
    BY <1>10 DEF ExportRefused, dbVars
  <2> QED
    BY <2>1 DEF MutexInv
<1> QED
  BY <1>1, <1>2, <1>3, <1>4, <1>5, <1>6, <1>7, <1>8, <1>9, <1>10 DEF CatalogNext, catalogVars, dbVars,
     exportVars, InsertBatch, Reload, Turn, Jump, Reorder, Ask, Answer

LEMMA IndexStep ==
    ASSUME TableInv, MutexInv, IndexInv, [CatalogNext]_catalogVars PROVE IndexInv'
<1>1. CASE UNCHANGED <<files, indexed, index, db>>
  BY <1>1 DEF IndexInv
<1>2. CASE InsertBatch
  <2>1. PICK row \in RowType : row.id = nextId /\ files' = files \cup {row}
    BY <1>2, Inserted
  <2> QED
    BY <1>2, <2>1 DEF InsertBatch, IndexInv
<1>3. CASE ResetBegins \/ ResetEnds
  BY <1>3 DEF ResetBegins, ResetEnds, resetFrame, IndexInv
<1>4. CASE ResetFails
  <2>1. ~indexed /\ index = {} /\ index' = {} /\ db' = "open"
    BY <1>4 DEF ResetFails, resetFrame, IndexInv
  <2>2. indexed' = FALSE \/ (indexed' = TRUE /\ files' = {})
    BY <1>4, <2>1 DEF ResetFails, IndexInv
  <2> QED
    BY <2>1, <2>2 DEF IndexInv
<1>5. CASE Dies
  <2>1. db' = "closed" /\ UNCHANGED <<indexed, index>>
    BY <1>5 DEF Dies
  <2>2. files' = files \/ ~indexed
    BY <1>5 DEF Dies, IndexInv
  <2> QED
    BY <2>1, <2>2 DEF IndexInv
<1>6. CASE Open
  <2> DEFINE ids == {r.id : r \in files}
  <2>1. db' = "open" /\ {r.id : r \in files'} = ids
    BY <1>6 DEF Open, openFrame
  <2>2. indexed \in BOOLEAN /\ index = IF indexed THEN ids ELSE {}
    BY DEF IndexInv
  <2>3. (indexed' = TRUE /\ index' = index \cup ids) \/ UNCHANGED <<indexed, index>>
    BY <1>6 DEF Open
  <2> HIDE DEF ids
  <2>4. indexed' \in BOOLEAN /\ index' = IF indexed' THEN ids ELSE {}
    <3>1. CASE indexed' = TRUE /\ index' = index \cup ids
      <4>1. index = ids \/ index = {}
        BY <2>2
      <4>2. index' = ids
        BY <3>1, <4>1
      <4> QED
        BY <3>1, <4>2
    <3>2. CASE UNCHANGED <<indexed, index>>
      BY <2>2, <3>2
    <3> QED
      BY <2>3, <3>1, <3>2
  <2> QED
    BY <2>1, <2>4 DEF IndexInv
<1> QED
  BY <1>1, <1>2, <1>3, <1>4, <1>5, <1>6 DEF CatalogNext, catalogVars, dbVars, Reload, Turn, Jump,
     Reorder, Ask, Answer, BeginExport, ExportRefused, ExportRow, ExportWrite, ExportPassEnds

----------------------------------------------------------------------------
(* The export                                                              *)

LEMMA SubTable ==
    ASSUME NEW rows, IsTable(rows), NEW part \in SUBSET rows PROVE IsTable(part)
  BY FS_Subset DEF IsTable

\* The export reads the next row of the sorted table, and ends behind the last.
LEMMA PendingFacts ==
    ASSUME TableInv, ExportInv, export.pc = "step"
    PROVE  LET k == Len(Read)
               next == Head(Sorted(export.order, Pending))
           IN  /\ Pending # {} => next \in files
               /\ export.order # "query" /\ Pending # {} =>
                    k + 1 <= Cardinality(files) /\ next = Sorted(export.order, files)[k + 1]
               /\ export.order # "query" /\ Pending = {} => k = Cardinality(files)
<1> DEFINE k == Len(Read)
           order == export.order
           s == Sorted(order, files)
           n == Cardinality(files)
           p == Sorted(order, Pending)
<1>1. IsTable(files) /\ Read \in Seq(RowType) /\ k \in Nat
  BY DEF TableInv, ExportInv, ExportType, Read
<1>2. Pending \in SUBSET files
  BY DEF Pending, Match, Like
<1>3. IsTable(Pending)
  BY <1>1, <1>2, SubTable
<1>4. ASSUME Pending # {}
      PROVE  /\ Head(p) \in Pending
             /\ \A r \in Pending : ~Precedes(order, r, Head(p))
  <2>1. Cardinality(Pending) \in Nat /\ Cardinality(Pending) # 0
    BY <1>3, <1>4, FS_CardinalityType, FS_EmptySet DEF IsTable
  <2>2. /\ p \in Seq(Pending) /\ Len(p) = Cardinality(Pending)
        /\ Rank(order, Pending, p[1]) = 0
    <3>1. p \in Seq(Pending) /\ Len(p) = Cardinality(Pending)
      BY <1>3, SortedFacts
    <3>2. 1 \in 1..Cardinality(Pending)
      BY <2>1
    <3>3. Rank(order, Pending, p[1]) = 1 - 1
      BY <1>3, <3>2, SortedFacts
    <3> QED
      BY <3>1, <3>3
  <2> HIDE DEF p
  <2>3. Head(p) = p[1] /\ p[1] \in Pending
    BY <2>1, <2>2
  <2> DEFINE first == p[1]
  <2>4. ASSUME NEW r \in Pending, Precedes(order, r, first) PROVE FALSE
    <3> HIDE DEF first
    <3>1. first \in Pending /\ Rank(order, Pending, first) = 0
      BY <2>2, <2>3 DEF first
    <3>2. Rank(order, Pending, r) < Rank(order, Pending, first) /\ Rank(order, Pending, r) \in Nat
      <4>1. Rank(order, Pending, r) < Rank(order, Pending, first)
        BY <1>3, <2>4, <3>1, RankFacts
      <4>2. Rank(order, Pending, r) \in 0..(Cardinality(Pending) - 1)
        BY <1>3, RankFacts
      <4> QED
        BY <2>1, <4>1, <4>2
    <3> QED
      BY <3>1, <3>2
  <2> QED
    BY <2>3, <2>4
<1>5. ASSUME order # "query"
      PROVE  /\ Pending # {} => k + 1 <= n /\ Head(p) = s[k + 1]
             /\ Pending = {} => k = n
  <2>1. /\ k <= n /\ \A i \in 1..k : Read[i] = s[i]
        /\ export.last = IF k = 0 THEN NoRow ELSE s[k]
    <3>1. /\ k <= n /\ \A i \in 1..k : Read[i] = s[i]
          /\ export.last = IF Read = <<>> THEN NoRow ELSE Read[k]
      BY <1>5 DEF ExportInv
    <3>2. Read = <<>> <=> k = 0
      BY <1>1
    <3>3. k # 0 => k \in 1..k
      BY <1>1
    <3> HIDE DEF s, k, n
    <3> QED
      BY <3>1, <3>2, <3>3
  <2>2. /\ n \in Nat /\ s \in [1..n -> files]
        /\ \A r \in files : \E i \in 1..n : s[i] = r
        /\ \A i, j \in 1..n : i < j <=> Precedes(order, s[i], s[j])
    BY <1>1, SortedFacts, ZenonT(30)
  <2>3. NoRow \notin files
    BY DEF TableInv, NoRow
  <2>4. Pending = {r \in files : k = 0 \/ Precedes(order, s[k], r)}
    <3>1. Pending = {r \in files : export.last = NoRow \/ Precedes(order, export.last, r)}
      BY <1>5 DEF Pending
    <3>2. k # 0 => s[k] \in files
      BY <1>1, <2>1, <2>2
    <3> HIDE DEF s, k
    <3> QED
      BY <2>1, <2>3, <3>1, <3>2
  <2> HIDE DEF s, k, n, p
  <2>5. \A i \in 1..n : s[i] \in Pending <=> k < i
    <3> SUFFICES ASSUME NEW i \in 1..n PROVE s[i] \in Pending <=> k < i
      OBVIOUS
    <3>1. s[i] \in files
      BY <2>2
    <3>2. CASE k = 0
      BY <2>2, <2>4, <3>1, <3>2
    <3>3. CASE k # 0
      <4>1. k \in 1..n
        BY <1>1, <2>1, <2>2, <3>3 DEF k
      <4> QED
        BY <2>2, <2>4, <3>1, <3>3, <4>1
    <3> QED
      BY <3>2, <3>3
  <2>6. CASE Pending = {}
    <3>1. k + 1 <= n => s[k + 1] \in Pending
      <4>1. k \in Nat
        BY <1>1 DEF k
      <4> QED
        BY <2>2, <2>5, <4>1
    <3>2. k \in Nat
      BY <1>1 DEF k
    <3> QED
      BY <2>1, <2>2, <2>6, <3>1, <3>2
  <2>7. CASE Pending # {}
    <3>1. Head(p) \in Pending /\ \A r \in Pending : ~Precedes(order, r, Head(p))
      BY <1>4, <2>7
    <3>2. PICK j \in 1..n : s[j] = Head(p)
      BY <1>2, <2>2, <3>1
    <3>3. k < j /\ k \in Nat
      BY <1>1, <2>5, <3>1, <3>2 DEF k
    <3>4. k + 1 \in 1..n
      BY <2>2, <3>2, <3>3
    <3>5. s[k + 1] \in Pending
      BY <2>5, <3>3, <3>4
    <3>6. ~(k + 1 < j)
      BY <2>2, <3>1, <3>2, <3>4, <3>5
    <3>7. k + 1 = j
      BY <3>2, <3>3, <3>6
    <3> QED
      BY <2>7, <3>2, <3>4, <3>7
  <2> QED
    BY <2>6, <2>7
<1> QED
  BY <1>2, <1>4, <1>5

LEMMA ExportStep ==
    ASSUME TableInv, MutexInv, ExportInv, [CatalogNext]_catalogVars PROVE ExportInv'
<1> USE DEF Threads
<1>1. export \in ExportType /\ IsTable(files) /\ files \subseteq RowType
  BY DEF ExportInv, TableInv, IsTable
<1>2. NoRow \in RowType /\ <<>> \in Seq(RowType)
  BY DEF NoRow, RowType
<1>3. CASE UNCHANGED <<export, atExport>> /\ (export.pc \in {"step", "write"} => files' = files)
  <2>1. Read' = Read
    BY <1>3 DEF Read
  <2> QED
    BY <1>3, <2>1 DEF ExportInv
<1>4. CASE InsertBatch \/ ResetBegins \/ ResetEnds \/ ResetFails \/ Open
  <2>1. export.pc \in {"step", "write"} => db = "open" /\ depth["worker"] # 0
    BY DEF MutexInv
  <2>2. UNCHANGED <<export, atExport>>
    BY <1>4 DEF InsertBatch, ResetBegins, ResetEnds, ResetFails, resetFrame, Open, openFrame, exportVars
  <2>3. export.pc \in {"step", "write"} => files' = files
    BY <1>4, <2>1 DEF InsertBatch, ResetBegins, ResetEnds, ResetFails, Open, openFrame, Free
  <2> QED
    BY <1>3, <2>2, <2>3
<1>5. CASE Dies
  <2>1. export' = [export EXCEPT !.pc = "idle", !.chunk = <<>>]
    BY <1>5 DEF Dies
  <2>2. export' \in ExportType /\ export'.pc = "idle"
    BY <1>1, <1>2, <2>1 DEF ExportType
  <2> QED
    BY <2>2 DEF ExportInv
<1>6. CASE BeginExport
  <2>1. PICK o \in Orders : export' = [pc |-> "step", order |-> o, pass |-> 1, last |-> NoRow,
                                       chunk |-> <<>>, written |-> <<>>]
    BY <1>6 DEF BeginExport
  <2>2. export' \in ExportType /\ export'.pc = "step" /\ export'.last = NoRow
    BY <1>2, <2>1 DEF ExportType
  <2>3. files' = files /\ atExport' = files /\ Cardinality(files) \in Nat
    BY <1>1, <1>6, FS_CardinalityType DEF BeginExport, dbVars, IsTable
  <2>4. Read' = <<>> /\ Len(Read') = 0
    BY <2>1 DEF Read
  <2> QED
    BY <2>2, <2>3, <2>4 DEF ExportInv
<1>7. CASE ExportRow
  <2> DEFINE r == Head(Sorted(export.order, Pending))
             k == Len(Read)
             n == Cardinality(files)
             s == Sorted(export.order, files)
  <2>1. /\ export.pc = "step" /\ Pending # {}
        /\ export' = [export EXCEPT !.last = r, !.chunk = Append(@, r),
                                    !.pc = IF Len(export.chunk) + 1 = ChunkRows THEN "write" ELSE @]
        /\ UNCHANGED <<files, atExport>>
    BY <1>7 DEF ExportRow, dbVars
  <2>2. /\ r \in files
        /\ export.order # "query" => k + 1 <= n /\ r = s[k + 1]
    BY <2>1, PendingFacts
  <2>3. files = atExport /\ (export.order # "query" => \A i \in 1..k : Read[i] = s[i])
    BY <2>1 DEF ExportInv
  <2> HIDE DEF r, s, n
  <2>4. /\ export' \in ExportType /\ export'.pc \in {"step", "write"} /\ export'.last = r
        /\ export'.order = export.order /\ r \in RowType
    <3> DEFINE c == Append(export.chunk, r)
               full == IF Len(export.chunk) + 1 = ChunkRows THEN "write" ELSE "step"
    <3>1. r \in RowType
      BY <1>1, <2>2
    <3>2. export.chunk \in Seq(RowType)
      BY <1>1 DEF ExportType
    <3>3. c \in Seq(RowType) /\ full \in {"step", "write"}
      BY <3>1, <3>2
    <3>4. export' = [export EXCEPT !.last = r, !.chunk = c, !.pc = full]
      BY <2>1
    <3> HIDE DEF c, full
    <3> QED
      BY <1>1, <3>1, <3>3, <3>4 DEF ExportType
  <2>5. /\ export'.chunk = Append(export.chunk, r) /\ export'.written = export.written
        /\ export.chunk \in Seq(RowType) /\ export.written \in Seq(RowType)
    BY <1>1, <2>1 DEF ExportType
  <2>6. /\ Len(Read') = k + 1 /\ Read' # <<>> /\ Read'[k + 1] = r /\ k \in Nat
        /\ \A i \in 1..k : Read'[i] = Read[i]
    <3> DEFINE T == RowType
               w == export.written
               c == export.chunk
    <3>1. w \in Seq(T) /\ c \in Seq(T) /\ r \in T
      BY <2>4, <2>5
    <3>2. Read' = w \o Append(c, r) /\ Read = w \o c
      BY <2>5 DEF Read
    <3> HIDE DEF T, w, c
    <3>3. w \o Append(c, r) = Append(w \o c, r) /\ w \o c \in Seq(T)
      BY <3>1
    <3> QED
      BY <3>1, <3>2, <3>3
  <2>7. ASSUME export.order # "query"
        PROVE  \A i \in 1..(k + 1) : Read'[i] = s[i]
    <3> HIDE DEF k
    <3> SUFFICES ASSUME NEW i \in 1..(k + 1) PROVE Read'[i] = s[i]
      OBVIOUS
    <3>1. i \in 1..k \/ i = k + 1
      BY <2>6
    <3> QED
      BY <2>2, <2>3, <2>6, <2>7, <3>1
  <2> HIDE DEF k
  <2>8. export'.last = Read'[Len(Read')]
    BY <2>4, <2>6
  <2>9. export.order # "query" => Len(Read') <= n /\ \A i \in 1..Len(Read') : Read'[i] = s[i]
    BY <2>2, <2>6, <2>7
  <2> QED
    BY <2>1, <2>3, <2>4, <2>6, <2>8, <2>9 DEF ExportInv, s, n
<1>8. CASE ExportWrite
  <2>1. export.pc = "write" /\ UNCHANGED <<files, atExport>>
    BY <1>8 DEF ExportWrite, dbVars
  <2>2. CASE export' = [export EXCEPT !.written = @ \o export.chunk, !.chunk = <<>>, !.pc = "step"]
    <3>1. /\ export' \in ExportType /\ export'.pc = "step" /\ export'.order = export.order
          /\ export'.last = export.last
          /\ export'.written = export.written \o export.chunk /\ export'.chunk = <<>>
      <4> DEFINE w == export.written \o export.chunk
      <4>1. export.written \in Seq(RowType) /\ export.chunk \in Seq(RowType)
        BY <1>1 DEF ExportType
      <4>2. w \in Seq(RowType)
        BY <4>1
      <4>3. export' = [export EXCEPT !.written = w, !.chunk = <<>>, !.pc = "step"]
        BY <2>2
      <4> HIDE DEF w
      <4>4. /\ export' \in ExportType /\ export'.pc = "step" /\ export'.order = export.order
            /\ export'.last = export.last /\ export'.written = w /\ export'.chunk = <<>>
        BY <1>1, <1>2, <4>2, <4>3 DEF ExportType
      <4> QED
        BY <4>4 DEF w
    <3>2. Read' = Read
      <4>1. export.written \o export.chunk \in Seq(RowType)
        BY <1>1 DEF ExportType
      <4> QED
        BY <3>1, <4>1 DEF Read
    <3> QED
      BY <2>1, <3>1, <3>2 DEF ExportInv
  <2>3. CASE export' = [export EXCEPT !.written = <<>>, !.chunk = <<>>, !.pc = "failed"]
    <3>1. export' \in ExportType /\ export'.pc = "failed" /\ export'.written = <<>>
      BY <1>1, <1>2, <2>3 DEF ExportType
    <3> QED
      BY <3>1 DEF ExportInv
  <2> QED
    BY <1>8, <2>2, <2>3 DEF ExportWrite
<1>9. CASE ExportPassEnds
  <2>1. export.pc = "step" /\ Pending = {} /\ UNCHANGED <<files, atExport>>
    BY <1>9 DEF ExportPassEnds, dbVars
  <2>2. CASE export.order = "query" /\ export' = [export EXCEPT !.pass = 2, !.last = NoRow]
    <3>1. export' \in ExportType /\ export'.pc = "step" /\ export'.order = "query"
      BY <1>1, <1>2, <2>1, <2>2 DEF ExportType
    <3> QED
      BY <2>1, <3>1 DEF ExportInv
  <2>3. CASE export' = [export EXCEPT !.written = Read, !.chunk = <<>>, !.pc = "done"]
    <3>1. Read \in Seq(RowType)
      BY <1>1 DEF ExportType, Read
    <3>2. /\ export' \in ExportType /\ export'.pc = "done" /\ export'.written = Read
          /\ export'.order = export.order
      BY <1>1, <1>2, <2>3, <3>1 DEF ExportType
    <3>3. ASSUME export.order # "query" PROVE Read = Sorted(export.order, atExport)
      <4> DEFINE s == Sorted(export.order, files)
                 n == Cardinality(files)
      <4>1. Len(Read) = n /\ \A i \in 1..Len(Read) : Read[i] = s[i]
        BY <2>1, <3>3, PendingFacts DEF ExportInv
      <4>2. s \in Seq(files) /\ Len(s) = n
        BY <1>1, SortedFacts
      <4>3. files = atExport
        BY <2>1 DEF ExportInv
      <4> HIDE DEF s, n
      <4>4. Read = s
        BY <3>1, <4>1, <4>2
      <4> QED
        BY <4>3, <4>4 DEF s
    <3> QED
      BY <2>1, <3>2, <3>3 DEF ExportInv
  <2>4. CASE export' = [export EXCEPT !.written = <<>>, !.chunk = <<>>, !.pc = "failed"]
    <3>1. export' \in ExportType /\ export'.pc = "failed" /\ export'.written = <<>>
      BY <1>1, <1>2, <2>4 DEF ExportType
    <3> QED
      BY <3>1 DEF ExportInv
  <2> QED
    BY <1>9, <2>2, <2>3, <2>4 DEF ExportPassEnds, Read
<1>10. CASE UNCHANGED <<exportVars, dbVars>>
  BY <1>3, <1>10 DEF exportVars, dbVars
<1>11. CASE ExportRefused
  <2>1. export' = [pc |-> "failed", order |-> "query", pass |-> 1, last |-> NoRow,
                   chunk |-> <<>>, written |-> <<>>]
    BY <1>11 DEF ExportRefused
  <2>2. export' \in ExportType /\ export'.pc = "failed" /\ export'.written = <<>>
    BY <1>2, <2>1 DEF ExportType, Orders
  <2> QED
    BY <2>2 DEF ExportInv
<1> QED
  BY <1>4, <1>5, <1>6, <1>7, <1>8, <1>9, <1>10, <1>11 DEF CatalogNext, catalogVars, Reload, Turn, Jump,
     Reorder, Ask, Answer

----------------------------------------------------------------------------
(* Chains of pages                                                         *)

LEMMA LastOf ==
    ASSUME NEW T, NEW s \in Seq(T), s # <<>>
    PROVE  /\ Len(s) \in Nat /\ Len(s) > 0 /\ DOMAIN s = 1..Len(s) /\ Len(s) \in DOMAIN s
           /\ Last(s) = s[Len(s)] /\ Last(s) \in T
  BY DEF Last

LEMMA EmptyChain ==
    ASSUME NEW order, NEW rows, NEW kept
    PROVE  IsChain(order, <<>>, rows) /\ NoneSkipped(order, <<>>, kept)
<1>1. DOMAIN <<>> = {}
  OBVIOUS
<1> QED
  BY <1>1 DEF IsChain, NoneSkipped

\* A chain of one page that leaves no row of the table out between its own
LEMMA OnePage ==
    ASSUME NEW order, NEW page \in Nat, NEW w, NEW rows, NEW kept \in SUBSET rows,
           w \in Seq(rows), w # <<>>,
           \A i, j \in DOMAIN w : i < j => Precedes(order, w[i], w[j]),
           \A r \in rows, i \in DOMAIN w :
               Precedes(order, w[i], r) /\ Precedes(order, r, Last(w)) => \E j \in DOMAIN w : w[j] = r,
           NEW pages, pages = [p \in {page} |-> w]
    PROVE  IsChain(order, pages, rows) /\ NoneSkipped(order, pages, kept)
<1>1. DOMAIN pages = {page} /\ pages[page] = w
  OBVIOUS
<1>2. \A m \in page..page : m = page
  OBVIOUS
<1>3. IsChain(order, pages, rows)
  BY <1>1, <1>2 DEF IsChain
<1>4. NoneSkipped(order, pages, kept)
  BY <1>1 DEF NoneSkipped
<1> QED
  BY <1>3, <1>4

\* A row more in the table disturbs no chain.
LEMMA ChainKeeps ==
    ASSUME NEW order, NEW pages, NEW rows, NEW more, rows \subseteq more,
           IsChain(order, pages, rows)
    PROVE  IsChain(order, pages, more)
<1>1. \A p \in DOMAIN pages : pages[p] \in Seq(rows) /\ pages[p] # <<>>
  BY DEF IsChain
<1>2. \A p \in DOMAIN pages : pages[p] \in Seq(more)
  BY <1>1
<1> QED
  BY <1>1, <1>2 DEF IsChain

\* Every row of a chain is the last one of a page behind it, or precedes it.
LEMMA BeforeLast ==
    ASSUME NEW order, NEW pages, NEW rows, IsChain(order, pages, rows),
           NEW p \in DOMAIN pages, NEW q \in DOMAIN pages, q <= p, NEW i \in DOMAIN pages[q]
    PROVE  pages[q][i] = Last(pages[p]) \/ Precedes(order, pages[q][i], Last(pages[p]))
<1> DEFINE P == pages[p]
           n == Len(P)
<1>1. p \in Nat /\ q \in Nat /\ P \in Seq(rows) /\ P # <<>>
  BY DEF IsChain
<1>2. n \in DOMAIN P /\ Last(P) = P[n] /\ DOMAIN P = 1..n /\ n \in Nat
  BY <1>1, LastOf
<1>3. CASE q < p
  BY <1>2, <1>3 DEF IsChain
<1>4. CASE q = p /\ i < n
  BY <1>2, <1>4 DEF IsChain
<1>5. CASE q = p /\ i = n
  BY <1>2, <1>5
<1> QED
  BY <1>1, <1>2, <1>3, <1>4, <1>5

\* The next page of a chain: sorted rows after the last one of the page before,
\* with no row of the table left out between.
LEMMA NextPage ==
    ASSUME NEW order, NEW rows, IsTable(rows), NEW kept \in SUBSET rows,
           NEW P, IsChain(order, P, rows), NoneSkipped(order, P, kept),
           NEW page \in Nat, page - 1 \in DOMAIN P,
           NEW w \in Seq(rows), w # <<>>,
           \A i, j \in DOMAIN w : i < j => Precedes(order, w[i], w[j]),
           \A i \in DOMAIN w : Precedes(order, Last(P[page - 1]), w[i]),
           \A r \in rows : /\ Precedes(order, Last(P[page - 1]), r) /\ Precedes(order, r, Last(w))
                           => \E j \in DOMAIN w : w[j] = r,
           NEW pages, DOMAIN pages = {page} \cup {q \in DOMAIN P : q < page}, pages[page] = w,
           \A p \in DOMAIN P : p < page => pages[p] = P[p]
    PROVE  IsChain(order, pages, rows) /\ NoneSkipped(order, pages, kept)
<1> DEFINE D == {page} \cup {q \in DOMAIN P : q < page}
           l == Last(P[page - 1])
<1>1. /\ DOMAIN P \subseteq Nat
      /\ \A p, q \in DOMAIN P : \A m \in p..q : m \in DOMAIN P
      /\ \A p \in DOMAIN P : P[p] \in Seq(rows) /\ P[p] # <<>>
      /\ \A p, q \in DOMAIN P : \A i \in DOMAIN P[p], j \in DOMAIN P[q] :
           p < q \/ (p = q /\ i < j) => Precedes(order, P[p][i], P[q][j])
  BY DEF IsChain
<1>2. /\ DOMAIN pages = D /\ page \in D /\ pages[page] = w
      /\ \A p \in D : p = page \/ (p \in DOMAIN P /\ p < page /\ p # page /\ pages[p] = P[p])
      /\ \A p \in DOMAIN P : p < page => p \in D
  BY <1>1
<1>3. page - 1 \in D /\ page - 1 < page /\ pages[page - 1] = P[page - 1]
  BY <1>2
<1>4. l \in rows /\ \E j \in DOMAIN P[page - 1] : P[page - 1][j] = l
  BY <1>1, LastOf
<1> HIDE DEF D
<1>5. \A p \in D : p # page => \A i \in DOMAIN pages[p] :
         pages[p][i] \in rows /\ (pages[p][i] = l \/ Precedes(order, pages[p][i], l))
  <2> SUFFICES ASSUME NEW p \in D, NEW i \in DOMAIN pages[p], p # page
               PROVE  pages[p][i] \in rows /\ (pages[p][i] = l \/ Precedes(order, pages[p][i], l))
    OBVIOUS
  <2>1. p \in DOMAIN P /\ p < page /\ pages[p] = P[p] /\ p \in Nat
    BY <1>1, <1>2
  <2>2. p <= page - 1
    BY <2>1
  <2>3. P[p][i] = l \/ Precedes(order, P[p][i], l)
    BY <2>1, <2>2, BeforeLast
  <2>4. P[p] \in Seq(rows)
    BY <1>1, <2>1
  <2> QED
    BY <2>1, <2>3, <2>4
<1>6. \A r, s, t \in rows : Precedes(order, r, s) /\ Precedes(order, s, t) => Precedes(order, r, t)
  BY OrderFacts
<1>7. \A r, s \in rows : Precedes(order, r, s) \/ Precedes(order, s, r) \/ r = s
  BY OrderFacts
<1>8. \A r, s \in rows : ~(Precedes(order, r, s) /\ Precedes(order, s, r))
  BY OrderFacts
<1>9. /\ \A i \in DOMAIN w : w[i] \in rows
      /\ \A i \in DOMAIN w : Precedes(order, l, w[i])
      /\ \A r \in rows : Precedes(order, l, r) /\ Precedes(order, r, Last(w)) => \E j \in DOMAIN w : w[j] = r
  OBVIOUS
<1>10. Last(w) \in rows
  BY LastOf
<1> HIDE DEF l
<1>11. IsChain(order, pages, rows)
  <2>1. DOMAIN pages \subseteq Nat
    BY <1>1, <1>2
  <2>2. ASSUME NEW p \in D, NEW q \in D, NEW m \in p..q PROVE m \in D
    <3>1. p \in Nat /\ q \in Nat /\ m \in Nat /\ p <= m /\ m <= q /\ q <= page
      BY <1>1, <1>2
    <3>2. CASE m = page
      BY <1>2, <3>2
    <3>3. CASE m < page
      <4>1. p \in DOMAIN P
        BY <1>2, <3>1, <3>3
      <4>2. m \in p..(page - 1)
        BY <3>1, <3>3
      <4>3. m \in DOMAIN P
        BY <1>1, <4>1, <4>2
      <4> QED
        BY <1>2, <3>3, <4>3
    <3> QED
      BY <3>1, <3>2, <3>3
  <2>3. \A p \in D : pages[p] \in Seq(rows) /\ pages[p] # <<>>
    BY <1>1, <1>2
  <2>4. ASSUME NEW p \in D, NEW q \in D, NEW i \in DOMAIN pages[p], NEW j \in DOMAIN pages[q],
               p < q \/ (p = q /\ i < j)
        PROVE  Precedes(order, pages[p][i], pages[q][j])
    <3>1. CASE q # page
      <4>1. q \in DOMAIN P /\ q < page /\ pages[q] = P[q] /\ q \in Nat
        BY <1>1, <1>2, <3>1
      <4>2. p # page
        BY <1>1, <1>2, <2>4, <4>1
      <4>3. p \in DOMAIN P /\ pages[p] = P[p]
        BY <1>2, <4>2
      <4> QED
        BY <1>1, <2>4, <4>1, <4>3
    <3>2. CASE q = page /\ p = page
      BY <1>2, <2>4, <3>2
    <3>3. CASE q = page /\ p # page
      <4>1. pages[p][i] \in rows /\ (pages[p][i] = l \/ Precedes(order, pages[p][i], l))
        BY <1>5, <3>3
      <4>2. pages[q][j] \in rows /\ Precedes(order, l, pages[q][j])
        BY <1>2, <1>9, <3>3
      <4> QED
        BY <1>4, <1>6, <4>1, <4>2
    <3> QED
      BY <3>1, <3>2, <3>3
  <2> QED
    BY <1>2, <2>1, <2>2, <2>3, <2>4 DEF IsChain
<1>12. ASSUME NEW r \in kept, NEW p \in D, NEW q \in D, NEW i \in DOMAIN pages[q],
              Precedes(order, pages[q][i], r), Precedes(order, r, Last(pages[p]))
       PROVE  \E m \in D : m <= p /\ \E j \in DOMAIN pages[m] : pages[m][j] = r
  <2>1. r \in rows
    OBVIOUS
  <2>2. p \in Nat /\ q \in Nat /\ p <= page /\ q <= page
    BY <1>1, <1>2
  <2>3. CASE r = l
    \* the last row of the page before is on it
    <3>1. CASE p = page
      <4>1. \E j \in DOMAIN pages[page - 1] : pages[page - 1][j] = r
        BY <1>3, <1>4, <2>3
      <4> QED
        BY <1>3, <3>1, <4>1
    <3>2. CASE p # page
      <4>1. p \in DOMAIN P /\ pages[p] = P[p] /\ P[p] \in Seq(rows) /\ P[p] # <<>>
        BY <1>1, <1>2, <3>2
      <4>2. PICK k \in DOMAIN pages[p] : Last(pages[p]) = pages[p][k]
        BY <4>1, LastOf
      <4>3. pages[p][k] \in rows /\ (pages[p][k] = l \/ Precedes(order, pages[p][k], l))
        BY <1>5, <3>2, <4>2
      <4> QED
        BY <1>4, <1>8, <2>1, <2>3, <1>12, <4>2, <4>3
    <3> QED
      BY <3>1, <3>2
  <2>4. CASE Precedes(order, r, l)
    <3>1. q # page
      <4>1. q = page => pages[q][i] \in rows /\ Precedes(order, l, pages[q][i])
        BY <1>2, <1>9
      <4> QED
        BY <1>4, <1>6, <1>8, <1>12, <2>1, <2>4, <4>1
    <3>2. q \in DOMAIN P /\ pages[q] = P[q]
      BY <1>2, <3>1
    <3>3. CASE p = page
      <4>1. PICK m \in DOMAIN P : m <= page - 1 /\ \E j \in DOMAIN P[m] : P[m][j] = r
        BY <1>12, <2>4, <3>2 DEF NoneSkipped, l
      <4>2. m \in Nat /\ m < page /\ m \in D /\ m # page
        BY <1>1, <1>2, <4>1
      <4>3. pages[m] = P[m]
        BY <1>2, <4>2
      <4> QED
        BY <3>3, <4>1, <4>2, <4>3
    <3>4. CASE p # page
      <4>1. p \in DOMAIN P /\ pages[p] = P[p] /\ p < page
        BY <1>2, <3>4
      <4>2. PICK m \in DOMAIN P : m <= p /\ \E j \in DOMAIN P[m] : P[m][j] = r
        BY <1>12, <3>2, <4>1 DEF NoneSkipped
      <4>3. m \in Nat /\ m < page /\ m \in D /\ m # page
        BY <1>1, <1>2, <2>2, <4>1, <4>2
      <4>4. pages[m] = P[m]
        BY <1>2, <4>3
      <4> QED
        BY <4>2, <4>3, <4>4
    <3> QED
      BY <3>3, <3>4
  <2>5. CASE Precedes(order, l, r)
    <3>1. p = page
      <4> SUFFICES ASSUME p # page PROVE FALSE
        OBVIOUS
      <4>1. p \in DOMAIN P /\ pages[p] = P[p] /\ P[p] \in Seq(rows) /\ P[p] # <<>>
        BY <1>1, <1>2
      <4>2. PICK k \in DOMAIN pages[p] : Last(pages[p]) = pages[p][k]
        BY <4>1, LastOf
      <4>3. pages[p][k] \in rows /\ (pages[p][k] = l \/ Precedes(order, pages[p][k], l))
        BY <1>5, <4>2
      <4> QED
        BY <1>4, <1>6, <1>8, <2>1, <2>5, <1>12, <4>2, <4>3
    <3>2. \E j \in DOMAIN w : w[j] = r
      BY <1>2, <1>9, <1>12, <2>1, <2>5, <3>1
    <3> QED
      BY <1>2, <2>2, <3>1, <3>2
  <2> QED
    BY <1>4, <1>7, <2>1, <2>3, <2>4, <2>5
<1>13. NoneSkipped(order, pages, kept)
  BY <1>2, <1>12 DEF NoneSkipped
<1> QED
  BY <1>11, <1>13

----------------------------------------------------------------------------
(* The page getFiles returns                                               *)

\* A window of the sorted table: in order, and it skips no row behind its offset.
IsOrdered(order, rows, off, w) ==
    /\ w \in Seq(rows) /\ DOMAIN w = 1..Len(w) /\ Len(w) \in 1..PageSize
    /\ \A i \in DOMAIN w : w[i] \in rows /\ Rank(order, rows, w[i]) = off + i - 1
    /\ \A i, j \in DOMAIN w : i < j => Precedes(order, w[i], w[j])
    /\ \A r \in rows : off <= Rank(order, rows, r) /\ Precedes(order, r, Last(w))
                         => \E j \in DOMAIN w : w[j] = r
    /\ \A r \in rows, i \in DOMAIN w : Precedes(order, w[i], r) => off <= Rank(order, rows, r)
    /\ Len(w) < PageSize => Cardinality(rows) <= off + Len(w)

LEMMA WindowOrder ==
    ASSUME NEW order, NEW rows, IsTable(rows), NEW off \in Nat, NEW w,
           IsWindow(order, rows, off, w), w # <<>>
    PROVE  IsOrdered(order, rows, off, w)
<1>1. /\ w \in Seq(rows) /\ Len(w) \in 0..PageSize /\ DOMAIN w = 1..Len(w)
      /\ Len(w) < PageSize => Cardinality(rows) <= off + Len(w)
      /\ \A i \in 1..Len(w) : w[i] \in rows /\ Rank(order, rows, w[i]) = off + i - 1
      /\ \A r \in rows : off <= Rank(order, rows, r) /\ Rank(order, rows, r) < off + Len(w)
                           => \E i \in 1..Len(w) : w[i] = r
  BY DEF IsWindow
<1>2. Len(w) \in 1..PageSize /\ Last(w) = w[Len(w)] /\ Len(w) \in DOMAIN w
  <2>1. Len(w) > 0 /\ Last(w) = w[Len(w)] /\ Len(w) \in DOMAIN w
    BY <1>1, LastOf
  <2> QED
    BY <1>1, <2>1, PageSizeType
<1>3. ASSUME NEW i \in DOMAIN w, NEW j \in DOMAIN w, i < j PROVE Precedes(order, w[i], w[j])
  <2> DEFINE x == w[i]
             y == w[j]
  <2>1. x \in rows /\ y \in rows /\ Rank(order, rows, x) = off + i - 1 /\ Rank(order, rows, y) = off + j - 1
    BY <1>1
  <2>2. i \in Nat /\ j \in Nat
    BY <1>1
  <2> HIDE DEF x, y
  <2>3. Rank(order, rows, x) < Rank(order, rows, y)
    BY <1>3, <2>1, <2>2
  <2>4. Precedes(order, x, y)
    BY <2>1, <2>3, RankFacts
  <2> QED
    BY <2>4 DEF x, y
<1>4. ASSUME NEW r \in rows, off <= Rank(order, rows, r), Precedes(order, r, Last(w))
      PROVE  \E j \in DOMAIN w : w[j] = r
  <2> DEFINE l == Last(w)
  <2>1. l \in rows /\ Rank(order, rows, l) = off + Len(w) - 1
    BY <1>1, <1>2
  <2>2. Precedes(order, r, l)
    BY <1>4
  <2> HIDE DEF l
  <2>3. Rank(order, rows, r) < Rank(order, rows, l)
    BY <2>1, <2>2, RankFacts
  <2>4. Rank(order, rows, r) \in 0..(Cardinality(rows) - 1) /\ Cardinality(rows) \in Nat
    BY RankFacts
  <2>5. Rank(order, rows, r) < off + Len(w)
    BY <1>2, <2>1, <2>3, <2>4
  <2> QED
    BY <1>1, <1>4, <2>5
<1>5. ASSUME NEW r \in rows, NEW i \in DOMAIN w, Precedes(order, w[i], r)
      PROVE  off <= Rank(order, rows, r)
  <2> DEFINE x == w[i]
  <2>1. x \in rows /\ Rank(order, rows, x) = off + i - 1 /\ i \in Nat /\ i >= 1
    BY <1>1
  <2>2. Precedes(order, x, r)
    BY <1>5
  <2> HIDE DEF x
  <2>3. Rank(order, rows, x) < Rank(order, rows, r)
    BY <2>1, <2>2, RankFacts
  <2>4. Rank(order, rows, r) \in 0..(Cardinality(rows) - 1) /\ Cardinality(rows) \in Nat
    BY RankFacts
  <2> QED
    BY <2>1, <2>3, <2>4
<1> QED
  BY <1>1, <1>2, <1>3, <1>4, <1>5 DEF IsOrdered

\* The keyset predicate: the rows behind the cursor in the order
LEMMA AfterFacts ==
    ASSUME NEW order \in {"asc", "desc"}, NEW rows, IsTable(rows), NEW cursor \in RowType
    PROVE  /\ IsTable(AfterCursor(order, rows, cursor))
           /\ AfterCursor(order, rows, cursor) = {r \in rows : Precedes(order, cursor, r)}
           /\ \A r \in AfterCursor(order, rows, cursor), s \in rows :
                Precedes(order, r, s) => s \in AfterCursor(order, rows, cursor)
<1>1. AfterCursor(order, rows, cursor) \in SUBSET rows
  BY DEF AfterCursor
<1>2. \A r \in rows : r.id \in Nat /\ r.key \in Nat
  BY DEF IsTable, RowType
<1>3. cursor.id \in Nat /\ cursor.key \in Nat
  BY DEF RowType
<1>4. AfterCursor(order, rows, cursor) = {r \in rows : Precedes(order, cursor, r)}
  <2>1. CASE order = "asc"
    BY <1>2, <1>3, <2>1 DEF AfterCursor, Precedes
  <2>2. CASE order = "desc"
    BY <1>2, <1>3, <2>2 DEF AfterCursor, Precedes
  <2> QED
    BY <2>1, <2>2
<1>5. \A r, s \in rows : Precedes(order, cursor, r) /\ Precedes(order, r, s) => Precedes(order, cursor, s)
  <2>1. CASE order = "asc"
    BY <1>2, <1>3, <2>1 DEF Precedes
  <2>2. CASE order = "desc"
    BY <1>2, <1>3, <2>2 DEF Precedes
  <2> QED
    BY <2>1, <2>2
<1> QED
  BY <1>1, <1>4, <1>5, SubTable

LEMMA SelectedFacts ==
    ASSUME TableInv, NEW order
    PROVE  Selected(order) \subseteq files /\ IsTable(Selected(order))
           /\ Selected(order) \subseteq RowType
           /\ Cardinality(Selected(order)) \in Nat /\ Count(order) = Cardinality(Selected(order))
<1>1. Selected(order) \in SUBSET files /\ IsTable(files)
  BY DEF Selected, Like, TableInv
<1>2. IsTable(Selected(order))
  BY <1>1, SubTable
<1>3. Cardinality(Selected(order)) \in Nat /\ Selected(order) \subseteq RowType
  BY <1>2, FS_CardinalityType DEF IsTable
<1> QED
  BY <1>1, <1>2, <1>3 DEF Selected, Count

\* What an answer says of the rows its order goes through: its rows are in order
\* and leave none of them out; behind a cursor they begin with the next one, and
\* behind an offset with the row at that place.
IsAnswer(order, rows, page, cursor, w) ==
    /\ w \in Seq(rows) /\ DOMAIN w = 1..Len(w) /\ Len(w) \in 1..PageSize
    /\ \A i, j \in DOMAIN w : i < j => Precedes(order, w[i], w[j])
    /\ \A r \in rows, i \in DOMAIN w :
         Precedes(order, w[i], r) /\ Precedes(order, r, Last(w)) => \E j \in DOMAIN w : w[j] = r
    /\ order \in {"asc", "desc"} /\ cursor.id > 0 =>
         /\ \A i \in DOMAIN w : Precedes(order, cursor, w[i])
         /\ \A r \in rows : Precedes(order, cursor, r) /\ Precedes(order, r, Last(w))
                              => \E j \in DOMAIN w : w[j] = r
    /\ order \in {"id", "query"} =>
         /\ \A i \in DOMAIN w : Rank(order, rows, w[i]) = page * PageSize + i - 1
         /\ \A r \in rows : page * PageSize <= Rank(order, rows, r) /\ Precedes(order, r, Last(w))
                              => \E j \in DOMAIN w : w[j] = r
         /\ Len(w) < PageSize => Cardinality(rows) <= page * PageSize + Len(w)

LEMMA PageFacts ==
    ASSUME TableInv, NEW order \in Orders, NEW page \in Nat, NEW cursor \in RowType,
           NEW w, w = Page(order, page, cursor), w # <<>>
    PROVE  IsAnswer(order, Selected(order), page, cursor, w)
<1> DEFINE rows == Selected(order)
<1>1. IsTable(rows) /\ IsTable(files) /\ page * PageSize \in Nat
  BY SelectedFacts, PageSizeType DEF TableInv
<1>2. CASE order \in {"asc", "desc"} /\ cursor.id > 0
  <2> DEFINE after == AfterCursor(order, rows, cursor)
  <2>1. rows = files /\ w = Limited(Sorted(order, after), 0)
    BY <1>2 DEF Page, Selected
  <2>2. /\ IsTable(after) /\ after = {r \in rows : Precedes(order, cursor, r)}
        /\ \A r \in after, s \in rows : Precedes(order, r, s) => s \in after
    BY <1>1, <1>2, AfterFacts
  <2> HIDE DEF after, rows
  <2>3. /\ w \in Seq(after) /\ DOMAIN w = 1..Len(w) /\ Len(w) \in 1..PageSize
        /\ \A i \in DOMAIN w : w[i] \in after
        /\ \A i, j \in DOMAIN w : i < j => Precedes(order, w[i], w[j])
        /\ \A r \in after : 0 <= Rank(order, after, r) /\ Precedes(order, r, Last(w))
                              => \E j \in DOMAIN w : w[j] = r
    <3>1. IsOrdered(order, after, 0, w)
      BY <2>1, <2>2, WindowFacts, WindowOrder
    <3> QED
      BY <3>1 DEF IsOrdered
  <2>4. \A r \in after : 0 <= Rank(order, after, r)
    BY <2>2, RankFacts
  <2>5. after \subseteq rows
    BY <2>2
  <2>6. w \in Seq(rows)
    BY <2>3, <2>5
  <2>7. \A r \in rows : Precedes(order, cursor, r) /\ Precedes(order, r, Last(w)) => \E j \in DOMAIN w : w[j] = r
    BY <2>2, <2>3, <2>4
  <2>8. \A r \in rows, i \in DOMAIN w :
           Precedes(order, w[i], r) /\ Precedes(order, r, Last(w)) => \E j \in DOMAIN w : w[j] = r
    BY <2>2, <2>3, <2>4
  <2>9. \A i \in DOMAIN w : Precedes(order, cursor, w[i])
    BY <2>2, <2>3
  <2> QED
    BY <1>2, <2>3, <2>6, <2>7, <2>8, <2>9 DEF IsAnswer, rows
<1>3. CASE ~(order \in {"asc", "desc"} /\ cursor.id > 0)
  <2>1. w = Limited(Sorted(order, rows), page * PageSize)
    BY <1>3 DEF Page, Selected
  <2> HIDE DEF rows
  <2>2. /\ w \in Seq(rows) /\ DOMAIN w = 1..Len(w) /\ Len(w) \in 1..PageSize
        /\ \A i \in DOMAIN w : w[i] \in rows /\ Rank(order, rows, w[i]) = page * PageSize + i - 1
        /\ \A i, j \in DOMAIN w : i < j => Precedes(order, w[i], w[j])
        /\ \A r \in rows : page * PageSize <= Rank(order, rows, r) /\ Precedes(order, r, Last(w))
                                => \E j \in DOMAIN w : w[j] = r
        /\ \A r \in rows, i \in DOMAIN w : Precedes(order, w[i], r) => page * PageSize <= Rank(order, rows, r)
        /\ Len(w) < PageSize => Cardinality(rows) <= page * PageSize + Len(w)
    <3>1. IsOrdered(order, rows, page * PageSize, w)
      BY <1>1, <2>1, WindowFacts, WindowOrder
    <3> QED
      BY <3>1 DEF IsOrdered
  <2>3. \A r \in rows, i \in DOMAIN w :
           Precedes(order, w[i], r) /\ Precedes(order, r, Last(w)) => \E j \in DOMAIN w : w[j] = r
    BY <2>2
  <2> QED
    BY <1>3, <2>2, <2>3 DEF IsAnswer, rows
<1> QED
  BY <1>2, <1>3

----------------------------------------------------------------------------
(* The requests                                                            *)

RequestType == [gen : Nat, order : Orders, page : Nat, cursor : RowType]

\* A request: the page and the order become those of the list, and the one
\* request of this generation names both.
LEMMA AskKeeps ==
    ASSUME RequestsInv, NEW order \in Orders, NEW page \in Nat, NEW cursors,
           \A p \in DOMAIN cursors : cursors[p] \in RowType,
           Ask(order, page, cursors)
    PROVE  /\ RequestsInv'
           /\ list'.order = order /\ list'.page = page /\ list'.total = list.total
           /\ UNCHANGED <<files, segment, atStart>>
<1> DEFINE cursor == IF page > 0 /\ page - 1 \in DOMAIN cursors THEN cursors[page - 1] ELSE NoRow
           request == [gen |-> list.gen + 1, order |-> order, page |-> page, cursor |-> cursor]
<1>1. list' = [order |-> order, page |-> page, gen |-> list.gen + 1, cursors |-> cursors,
               total |-> list.total]
  <2>1. list' = [list EXCEPT !.order = order, !.page = page, !.gen = @ + 1, !.cursors = cursors]
    BY DEF Ask
  <2>2. list = [order |-> list.order, page |-> list.page, gen |-> list.gen,
                cursors |-> list.cursors, total |-> list.total]
    BY DEF RequestsInv
  <2> QED
    BY <2>1, <2>2
<1>2. /\ list'.order = order /\ list'.page = page /\ list'.total = list.total
      /\ list'.gen = list.gen + 1 /\ list'.cursors = cursors
      /\ list' = [order |-> list'.order, page |-> list'.page, gen |-> list'.gen,
                  cursors |-> list'.cursors, total |-> list'.total]
  BY <1>1
<1>3. list.gen \in Nat /\ list.total \in Nat
  BY DEF RequestsInv
<1>4. loading \in Seq(RequestType)
  BY DEF RequestsInv, RequestType
<1>5. cursor \in RowType
  BY DEF RowType, NoRow
<1> HIDE DEF cursor
<1>6. /\ request \in RequestType
      /\ request.gen = list.gen + 1 /\ request.order = order /\ request.page = page
  BY <1>3, <1>5 DEF RequestType
<1>7. loading' = Append(loading, request)
  BY DEF Ask, cursor
<1> HIDE DEF request
<1>8. loading' \in Seq(RequestType)
  BY <1>4, <1>6, <1>7
<1>9. ASSUME NEW k \in DOMAIN loading'
      PROVE  /\ loading'[k].gen <= list'.gen
             /\ loading'[k].gen = list'.gen => loading'[k].order = list'.order /\ loading'[k].page = list'.page
  <2>1. CASE k \in DOMAIN loading
    <3>1. loading'[k] = loading[k]
      BY <1>4, <1>7, <2>1
    <3>2. loading[k] \in RequestType
      BY <1>4, <2>1
    <3>3. loading[k].gen <= list.gen /\ loading[k].gen \in Nat
      BY <2>1, <3>2 DEF RequestsInv, RequestType
    <3> QED
      BY <1>2, <1>3, <3>1, <3>3
  <2>2. CASE k \notin DOMAIN loading
    <3>1. loading'[k] = request
      BY <1>4, <1>6, <1>7, <2>2
    <3> QED
      BY <1>2, <1>3, <1>6, <3>1
  <2> QED
    BY <2>1, <2>2
<1>10. UNCHANGED <<files, segment, atStart>>
  BY DEF Ask, dbVars
<1>11. RequestsInv'
  BY <1>2, <1>3, <1>8, <1>9 DEF RequestsInv, RequestType, Wanted
<1> QED
  BY <1>2, <1>10, <1>11

\* What is asked for, by the button, the page field, a change of the order, and
\* by rows that arrive
LEMMA Asked ==
    ASSUME RequestsInv, Reload \/ Turn \/ Jump \/ Reorder
    PROVE  /\ RequestsInv' /\ list'.total = list.total /\ UNCHANGED <<files, segment, atStart>>
           /\ list'.page \in Nat
           /\ \/ list'.order = list.order /\ list'.page = list.page
              \/ list'.order = list.order /\ list'.page \in 0..LastPage
              \/ list'.page = 0
<1>1. /\ list.order \in Orders /\ list.page \in Nat /\ list.total \in Nat
      /\ \A p \in DOMAIN list.cursors : list.cursors[p] \in RowType
  BY DEF RequestsInv
<1>2. \A p \in 0..LastPage : p \in Nat
  OBVIOUS
<1>3. CASE Reload
  BY <1>1, <1>3, AskKeeps DEF Reload
<1>4. CASE Turn \/ Jump
  <2>1. PICK p \in 0..LastPage : Ask(list.order, p, list.cursors)
    BY <1>4 DEF Turn, Jump
  <2> QED
    BY <1>1, <1>2, <2>1, AskKeeps
<1>5. CASE Reorder
  <2>1. PICK o \in Orders : Ask(o, 0, <<>>)
    BY <1>5 DEF Reorder
  <2>2. \A p \in DOMAIN <<>> : <<>>[p] \in RowType
    OBVIOUS
  <2>3. 0 \in Nat
    OBVIOUS
  <2>4. RequestsInv' /\ list'.page = 0 /\ list'.total = list.total /\ UNCHANGED <<files, segment, atStart>>
    BY <2>1, <2>2, <2>3, AskKeeps
  <2> QED
    BY <2>3, <2>4
<1> QED
  BY <1>3, <1>4, <1>5

\* The answer to the oldest request
LEMMA Answered ==
    ASSUME TableInv, RequestsInv, Answer
    PROVE  LET request == Head(loading)
               rows == Page(request.order, request.page, request.cursor)
           IN  /\ RequestsInv' /\ UNCHANGED files
               /\ request.order \in Orders /\ request.page \in Nat /\ request.cursor \in RowType
               /\ IF Wanted(request)
                  THEN /\ list'.order = request.order /\ list'.page = request.page
                       /\ list.order = request.order /\ list.page = request.page
                       /\ list'.total = Count(request.order)
                  ELSE UNCHANGED <<list, segment, atStart>>
<1> DEFINE request == Head(loading)
           rows == Page(request.order, request.page, request.cursor)
           cursors == IF rows = <<>> THEN list.cursors
                      ELSE [p \in DOMAIN list.cursors \cup {request.page} |->
                              IF p = request.page THEN Last(rows) ELSE list.cursors[p]]
<1>1. loading \in Seq(RequestType) /\ loading # <<>> /\ loading' = Tail(loading) /\ UNCHANGED files
  BY DEF RequestsInv, RequestType, Answer, dbVars
<1>2. request = loading[1] /\ 1 \in DOMAIN loading /\ request \in RequestType
  BY <1>1
<1>3. request.order \in Orders /\ request.page \in Nat /\ request.cursor \in RowType
  BY <1>2 DEF RequestType
<1>4. Wanted(request) => list.order = request.order /\ list.page = request.page
  BY <1>2 DEF RequestsInv
<1>5. /\ loading' \in Seq(RequestType)
      /\ \A k \in DOMAIN loading' : k + 1 \in DOMAIN loading /\ loading'[k] = loading[k + 1]
  BY <1>1
<1>6. \A k \in DOMAIN loading' :
         /\ loading'[k].gen <= list.gen
         /\ loading'[k].gen = list.gen => loading'[k].order = list.order /\ loading'[k].page = list.page
  BY <1>5 DEF RequestsInv, Wanted
<1>7. CASE ~Wanted(request)
  <2>1. UNCHANGED <<list, segment, atStart>>
    BY <1>7 DEF Answer
  <2>2. RequestsInv'
    BY <1>5, <1>6, <2>1 DEF RequestsInv, RequestType, Wanted
  <2> QED
    BY <1>1, <1>3, <1>7, <2>1, <2>2
<1>8. CASE Wanted(request)
  <2>1. list' = [list EXCEPT !.total = Count(request.order), !.cursors = cursors]
    BY <1>8 DEF Answer
  <2>2. list = [order |-> list.order, page |-> list.page, gen |-> list.gen,
                cursors |-> list.cursors, total |-> list.total]
    BY DEF RequestsInv
  <2>3. \A p \in DOMAIN cursors : cursors[p] \in RowType
    <3>1. \A p \in DOMAIN list.cursors : list.cursors[p] \in RowType
      BY DEF RequestsInv
    <3>2. ASSUME rows # <<>> PROVE Last(rows) \in RowType
      <4>1. rows \in Seq(Selected(request.order))
        BY <1>3, <3>2, PageFacts DEF IsAnswer
      <4> HIDE DEF rows
      <4>2. Last(rows) \in Selected(request.order)
        BY <3>2, <4>1, LastOf
      <4> QED
        BY <4>2, SelectedFacts
    <3> HIDE DEF rows
    <3> QED
      BY <3>1, <3>2
  <2>4. Count(request.order) \in Nat
    BY SelectedFacts
  <2> HIDE DEF cursors, rows, request
  <2>5. list' = [order |-> list.order, page |-> list.page, gen |-> list.gen,
                 cursors |-> cursors, total |-> Count(request.order)]
    BY <2>1, <2>2
  <2>6. /\ list'.order = list.order /\ list'.page = list.page /\ list'.gen = list.gen
        /\ list'.cursors = cursors /\ list'.total = Count(request.order)
        /\ list' = [order |-> list'.order, page |-> list'.page, gen |-> list'.gen,
                    cursors |-> list'.cursors, total |-> list'.total]
    BY <2>5
  <2>7. list.order \in Orders /\ list.page \in Nat /\ list.gen \in Nat
    BY DEF RequestsInv
  <2>8. RequestsInv'
    BY <1>5, <1>6, <2>3, <2>4, <2>6, <2>7 DEF RequestsInv, RequestType, Wanted
  <2> QED
    BY <1>1, <1>3, <1>4, <1>8, <2>6, <2>8 DEF request, rows
<1> QED
  BY <1>7, <1>8

----------------------------------------------------------------------------
(* The segment                                                             *)

LEMMA Offsets ==
    /\ \A p \in Nat : p * PageSize \in Nat /\ (p + 1) * PageSize = p * PageSize + PageSize
    /\ \A p \in Nat : p - 1 \in Nat => p * PageSize = (p - 1) * PageSize + PageSize
  BY PageSizeType

\* A page the pager offers lies behind pages the table can fill.
LEMMA OfferedPage ==
    ASSUME list.total \in Nat, NEW p \in 0..LastPage, p > 0
    PROVE  p * PageSize < list.total
<1> DEFINE t == list.total
           q == (t - 1) \div PageSize
<1>1. t > 0 /\ LastPage = q
  BY DEF LastPage
<1>2. q \in Nat /\ q * PageSize <= t - 1
  BY <1>1, PageSizeType
<1>3. p \in Nat /\ p <= q
  BY <1>1, <1>2
<1> HIDE DEF q
<1>4. p * PageSize <= q * PageSize
  BY <1>2, <1>3, PageSizeType
<1> QED
  BY <1>2, <1>3, <1>4, PageSizeType

\* An empty segment says nothing.
LEMMA NoPages ==
    ASSUME segment' = NoSegment, atStart' \subseteq files'
    PROVE  PagesInv' /\ OffsetInv'
<1>1. segment'.order = "id" /\ segment'.pages = <<>> /\ DOMAIN <<>> = {} /\ "id" \in Orders
  BY DEF NoSegment, Orders
<1>2. PagesInv'
  BY <1>1, EmptyChain DEF PagesInv
<1>3. OffsetInv'
  BY <1>1 DEF OffsetInv
<1> QED
  BY <1>2, <1>3

\* A batch: its row has the highest id, so that no place of a page changes, and
\* it was not there when the first page was read.
LEMMA BatchSegment ==
    ASSUME TableInv, PagesInv, OffsetInv, InsertBatch
    PROVE  PagesInv' /\ OffsetInv'
<1> DEFINE o == segment.order
           sel == Selected(o)
           more == Selected(o)'
<1>1. UNCHANGED <<list, segment, atStart>>
  BY DEF InsertBatch, listVars
<1>2. PICK row \in RowType : files' = files \cup {row} /\ \A r \in files : r.id < row.id
  BY Inserted
<1>3. \A r \in files : r.id \in Nat
  BY DEF TableInv, IsTable, RowType
<1>4. row \notin files
  BY <1>2, <1>3
<1>5. /\ sel \subseteq files /\ sel \subseteq more /\ more \subseteq sel \cup {row}
      /\ atStart \cap more = atStart \cap sel
  <2>1. atStart \subseteq files
    BY DEF PagesInv
  <2> QED
    BY <1>1, <1>2, <1>4, <2>1 DEF Selected, Like
<1>6. segment'.order = o /\ segment'.pages = segment.pages /\ Selected(segment.order)' = more
  BY <1>1
<1> HIDE DEF sel, more
<1>7. PagesInv'
  <2>1. /\ o \in Orders /\ atStart \subseteq files
        /\ IsChain(o, segment.pages, sel) /\ NoneSkipped(o, segment.pages, atStart \cap sel)
    BY DEF PagesInv, sel
  <2>2. IsChain(o, segment.pages, more)
    BY <1>5, <2>1, ChainKeeps
  <2> QED
    BY <1>1, <1>2, <1>5, <1>6, <2>1, <2>2 DEF PagesInv
<1>8. ASSUME o \in {"id", "query"}, NEW r \in files
      PROVE  Rank(o, more, r) = Rank(o, sel, r)
  <2>1. ~Precedes(o, row, r)
    BY <1>2, <1>3, <1>8 DEF Precedes, RowType
  <2>2. {s \in more : Precedes(o, s, r)} = {s \in sel : Precedes(o, s, r)}
    BY <1>5, <2>1
  <2> QED
    BY <2>2 DEF Rank
<1>9. \A p \in DOMAIN segment.pages : Last(segment.pages[p]) \in files
  <2>1. \A p \in DOMAIN segment.pages : segment.pages[p] \in Seq(sel) /\ segment.pages[p] # <<>>
    BY DEF PagesInv, IsChain, sel
  <2> QED
    BY <1>5, <2>1, LastOf
<1>10. OffsetInv'
  <2> SUFFICES ASSUME o \in {"id", "query"} PROVE OffsetInv'
    BY <1>6 DEF OffsetInv
  <2>1. \A p \in DOMAIN segment.pages :
           Rank(o, more, Last(segment.pages[p])) = Rank(o, sel, Last(segment.pages[p]))
    BY <1>8, <1>9
  <2> QED
    BY <1>1, <1>6, <2>1 DEF OffsetInv, sel
<1> QED
  BY <1>7, <1>10

\* A request: the page it is for lies behind full pages.
LEMMA AskSegment ==
    ASSUME RequestsInv, PagesInv, OffsetInv, Reload \/ Turn \/ Jump \/ Reorder
    PROVE  PagesInv' /\ OffsetInv'
<1>1. /\ list'.total = list.total /\ UNCHANGED <<files, segment, atStart>>
      /\ list'.page \in Nat
      /\ \/ list'.order = list.order /\ list'.page = list.page
         \/ list'.order = list.order /\ list'.page \in 0..LastPage
         \/ list'.page = 0
  BY Asked
<1>2. \A o : Selected(o)' = Selected(o)
  BY <1>1 DEF Selected, Like
<1>3. PagesInv'
  BY <1>1, <1>2 DEF PagesInv
<1>4. DOMAIN segment.pages \subseteq Nat /\ list.total \in Nat
  BY DEF PagesInv, IsChain, RequestsInv
<1>5. ASSUME segment.order \in {"id", "query"}, list'.order = segment.order,
             list'.page - 1 \in DOMAIN segment.pages
      PROVE  Len(segment.pages[list'.page - 1]) = PageSize
  <2>1. list'.page > 0 /\ list'.page \in Nat
    BY <1>1, <1>4, <1>5
  <2>2. CASE list'.order = list.order /\ list'.page = list.page
    BY <1>5, <2>2 DEF OffsetInv
  <2>3. CASE list'.order = list.order /\ list'.page \in 0..LastPage
    <3> DEFINE p == list'.page
    <3>1. p * PageSize < list.total
      BY <1>4, <2>1, <2>3, OfferedPage
    <3>2. \/ Len(segment.pages[p - 1]) = PageSize
          \/ list.total <= ((p - 1) + 1) * PageSize
      BY <1>5 DEF OffsetInv
    <3>3. (p - 1) + 1 = p /\ p * PageSize \in Nat
      BY <2>1, PageSizeType
    <3> QED
      BY <1>4, <3>1, <3>2, <3>3
  <2> QED
    BY <1>1, <2>1, <2>2, <2>3
<1>6. OffsetInv'
  BY <1>1, <1>2, <1>5 DEF OffsetInv
<1> QED
  BY <1>3, <1>6

\* An answer that continues nothing: one page, and the rows of now.
LEMMA FirstPage ==
    ASSUME TableInv, NEW order \in Orders, NEW page \in Nat, NEW cursor, NEW w, w # <<>>,
           IsAnswer(order, Selected(order), page, cursor, w),
           files' = files, atStart' = files,
           segment' = [order |-> order, pages |-> [p \in {page} |-> w]],
           list'.total = Count(order), list'.page = page
    PROVE  PagesInv' /\ OffsetInv'
<1> DEFINE sel == Selected(order)
           pages == [p \in {page} |-> w]
<1>1. /\ segment'.order = order /\ segment'.pages = pages
      /\ Selected(segment.order)' = sel /\ files' \cap sel = sel /\ sel \subseteq files
  BY SelectedFacts DEF Selected, Like
<1>2. DOMAIN pages = {page} /\ pages[page] = w
  OBVIOUS
<1>3. /\ w \in Seq(sel)
      /\ \A i, j \in DOMAIN w : i < j => Precedes(order, w[i], w[j])
      /\ \A r \in sel, i \in DOMAIN w :
           Precedes(order, w[i], r) /\ Precedes(order, r, Last(w)) => \E j \in DOMAIN w : w[j] = r
  BY DEF IsAnswer
<1>4. IsChain(order, pages, sel) /\ NoneSkipped(order, pages, sel)
  <2>1. sel \in SUBSET sel /\ pages = [p \in {page} |-> w]
    OBVIOUS
  <2> HIDE DEF sel, pages
  <2> QED
    BY <1>3, <2>1, OnePage
<1>5. Cardinality(sel) \in Nat /\ Count(order) = Cardinality(sel)
  BY SelectedFacts
<1> HIDE DEF sel, pages
<1>6. PagesInv'
  BY <1>1, <1>4 DEF PagesInv
<1>7. ASSUME order \in {"id", "query"}
      PROVE  /\ Rank(order, sel, Last(w)) + 1 = page * PageSize + Len(w)
             /\ Len(w) = PageSize \/ list'.total <= (page + 1) * PageSize
  <2>1. /\ DOMAIN w = 1..Len(w) /\ Len(w) \in 1..PageSize
        /\ \A i \in DOMAIN w : Rank(order, sel, w[i]) = page * PageSize + i - 1
        /\ Len(w) < PageSize => Cardinality(sel) <= page * PageSize + Len(w)
    BY <1>7 DEF IsAnswer, sel
  <2>2. Last(w) = w[Len(w)] /\ Len(w) \in DOMAIN w
    BY <1>3, LastOf
  <2>3. Rank(order, sel, Last(w)) = page * PageSize + Len(w) - 1
    BY <2>1, <2>2
  <2>4. page * PageSize \in Nat /\ (page + 1) * PageSize = page * PageSize + PageSize
    BY Offsets
  <2> DEFINE m == page * PageSize
             n == (page + 1) * PageSize
             k == Rank(order, sel, Last(w))
  <2>5. /\ k = m + Len(w) - 1 /\ m \in Nat /\ n = m + PageSize
        /\ Len(w) \in 1..PageSize /\ (Len(w) < PageSize => Cardinality(sel) <= m + Len(w))
    BY <2>1, <2>3, <2>4
  <2> HIDE DEF m, n, k
  <2>6. k + 1 = m + Len(w) /\ (Len(w) = PageSize \/ Cardinality(sel) <= n)
    BY <1>5, <2>5, PageSizeType
  <2> QED
    BY <1>5, <2>6 DEF m, n, k
<1>8. page + 1 \notin {page} /\ page - 1 \notin {page}
  OBVIOUS
<1>9. OffsetInv'
  BY <1>1, <1>2, <1>7, <1>8 DEF OffsetInv
<1> QED
  BY <1>6, <1>9

\* An answer that continues the segment: asked for behind its last row, by the
\* cursor or by the number of rows before it.
LEMMA NextAnswer ==
    ASSUME TableInv, PagesInv, OffsetInv, RequestsInv,
           NEW request \in RequestType, Continues(request), NEW w, w # <<>>,
           IsAnswer(request.order, Selected(request.order), request.page, request.cursor, w),
           UNCHANGED <<files, atStart>>,
           segment' = [order |-> request.order,
                       pages |-> [p \in {request.page} \cup {q \in DOMAIN segment.pages : q < request.page} |->
                                     IF p = request.page THEN w ELSE segment.pages[p]]],
           list.order = request.order, list.page = request.page,
           list'.total = Count(request.order), list'.page = request.page
    PROVE  PagesInv' /\ OffsetInv'
<1> DEFINE order == request.order
           page == request.page
           cursor == request.cursor
           sel == Selected(order)
           P == segment.pages
           D == {page} \cup {q \in DOMAIN P : q < page}
           pages == [p \in D |-> IF p = page THEN w ELSE P[p]]
           l == Last(P[page - 1])
           kept == atStart \cap sel
<1>1. /\ order \in Orders /\ page \in Nat /\ cursor \in RowType
      /\ order = segment.order /\ page - 1 \in DOMAIN P
      /\ order \in {"asc", "desc"} => cursor = l
  BY DEF Continues, RequestType
<1>2. /\ segment'.order = order /\ segment'.pages = pages /\ Selected(segment.order)' = sel
      /\ (atStart \cap Selected(segment.order))' = kept /\ sel \subseteq files /\ IsTable(sel)
  BY <1>1, SelectedFacts DEF Selected, Like
<1>3. IsChain(order, P, sel) /\ NoneSkipped(order, P, kept) /\ atStart \subseteq files
  BY <1>1 DEF PagesInv
<1>4. /\ DOMAIN P \subseteq Nat /\ \A p, q \in DOMAIN P : \A m \in p..q : m \in DOMAIN P
      /\ \A p \in DOMAIN P : P[p] \in Seq(sel) /\ P[p] # <<>>
  BY <1>3 DEF IsChain
<1>5. IsAnswer(order, sel, page, cursor, w)
  OBVIOUS
<1>6. l \in sel /\ l \in files /\ l.id > 0
  <2>1. l \in sel
    BY <1>1, <1>4, LastOf
  <2> QED
    BY <1>2, <2>1 DEF TableInv
<1>7. list.order = order /\ list.page = page
  OBVIOUS
<1>8. Cardinality(sel) \in Nat /\ list'.total = Cardinality(sel) /\ list'.page = page
  BY SelectedFacts
<1> HIDE DEF order, page, cursor, sel, pages, D
<1>9. w \in Seq(sel) /\ \A i, j \in DOMAIN w : i < j => Precedes(order, w[i], w[j])
  BY <1>5 DEF IsAnswer
<1>10. ASSUME order \in {"id", "query"}
       PROVE  Rank(order, sel, l) + 1 = page * PageSize /\ Len(P[page - 1]) = PageSize
  <2>1. /\ Rank(order, sel, l) + 1 = (page - 1) * PageSize + Len(P[page - 1])
        /\ Len(P[page - 1]) = PageSize
    BY <1>1, <1>7, <1>10 DEF OffsetInv, sel
  <2>2. page - 1 \in Nat
    BY <1>1, <1>4
  <2> QED
    BY <1>1, <2>1, <2>2, Offsets
<1>11. /\ \A i \in DOMAIN w : Precedes(order, l, w[i])
       /\ \A r \in sel : Precedes(order, l, r) /\ Precedes(order, r, Last(w)) => \E j \in DOMAIN w : w[j] = r
  <2> HIDE DEF l
  <2>1. CASE order \in {"asc", "desc"}
    BY <1>1, <1>5, <1>6, <2>1 DEF IsAnswer
  <2>2. CASE order \in {"id", "query"}
    <3>1. /\ DOMAIN w = 1..Len(w) /\ Len(w) \in Nat
          /\ \A i \in DOMAIN w : Rank(order, sel, w[i]) = page * PageSize + i - 1
          /\ \A r \in sel : page * PageSize <= Rank(order, sel, r) /\ Precedes(order, r, Last(w))
                              => \E j \in DOMAIN w : w[j] = r
      <4>1. Len(w) \in Nat
        BY <1>9
      <4> QED
        BY <1>5, <2>2, <4>1 DEF IsAnswer
    <3>2. Rank(order, sel, l) + 1 = page * PageSize /\ page * PageSize \in Nat
      BY <1>1, <1>10, <2>2, Offsets DEF l
    <3>3. ASSUME NEW r \in sel PROVE Rank(order, sel, r) \in Nat
      <4>1. Rank(order, sel, r) \in 0..(Cardinality(sel) - 1)
        BY <1>2, RankFacts
      <4> QED
        BY <1>8, <4>1
    <3>4. ASSUME NEW i \in DOMAIN w PROVE Precedes(order, l, w[i])
      <4> DEFINE x == w[i]
      <4>1. x \in sel /\ Rank(order, sel, x) = page * PageSize + i - 1 /\ i \in Nat /\ i > 0
        BY <1>9, <3>1
      <4> HIDE DEF x
      <4>2. Rank(order, sel, l) < Rank(order, sel, x)
        BY <1>6, <3>2, <3>3, <4>1
      <4>3. Precedes(order, l, x)
        BY <1>2, <1>6, <4>1, <4>2, RankFacts
      <4> QED
        BY <4>3 DEF x
    <3>5. ASSUME NEW r \in sel, Precedes(order, l, r) PROVE page * PageSize <= Rank(order, sel, r)
      <4>1. Rank(order, sel, l) < Rank(order, sel, r)
        BY <1>2, <1>6, <3>5, RankFacts
      <4> QED
        BY <1>6, <3>2, <3>3, <4>1
    <3> QED
      BY <3>1, <3>4, <3>5
  <2> QED
    BY <1>1, <2>1, <2>2 DEF Orders
<1>12. IsChain(order, pages, sel) /\ NoneSkipped(order, pages, kept)
  <2>1. kept \in SUBSET sel
    OBVIOUS
  <2> HIDE DEF kept, P
  <2>2. /\ IsTable(sel) /\ IsChain(order, P, sel) /\ NoneSkipped(order, P, kept)
        /\ page \in Nat /\ page - 1 \in DOMAIN P /\ w \in Seq(sel) /\ w # <<>>
        /\ \A i, j \in DOMAIN w : i < j => Precedes(order, w[i], w[j])
        /\ \A i \in DOMAIN w : Precedes(order, Last(P[page - 1]), w[i])
        /\ \A r \in sel : /\ Precedes(order, Last(P[page - 1]), r) /\ Precedes(order, r, Last(w))
                          => \E j \in DOMAIN w : w[j] = r
    BY <1>1, <1>2, <1>3, <1>9, <1>11 DEF l
  <2>3. /\ DOMAIN pages = {page} \cup {q \in DOMAIN P : q < page} /\ pages[page] = w
        /\ \A p \in DOMAIN P : p < page => pages[p] = P[p]
    BY <1>1, <1>4 DEF pages, D, P
  <2> QED
    <3> HIDE DEF l
    <3>1. Last(P[page - 1]) = l
      BY DEF l
    <3> QED
      BY <2>1, <2>2, <2>3, NextPage, SMTT(60)
<1>13. PagesInv'
  BY <1>1, <1>2, <1>3, <1>12 DEF PagesInv
<1>14. ASSUME order \in {"id", "query"} PROVE OffsetInv'
  <2>1. /\ DOMAIN w = 1..Len(w) /\ Len(w) \in 1..PageSize
        /\ \A i \in DOMAIN w : Rank(order, sel, w[i]) = page * PageSize + i - 1
        /\ Len(w) < PageSize => Cardinality(sel) <= page * PageSize + Len(w)
    BY <1>5, <1>14 DEF IsAnswer
  <2>2. Last(w) = w[Len(w)] /\ Len(w) \in DOMAIN w
    BY <1>9, LastOf
  <2>3. Rank(order, sel, Last(w)) = page * PageSize + Len(w) - 1
    BY <2>1, <2>2
  <2>4. page * PageSize \in Nat /\ (page + 1) * PageSize = page * PageSize + PageSize
    BY <1>1, Offsets
  <2>5. /\ Rank(order, sel, Last(w)) + 1 = page * PageSize + Len(w)
        /\ Len(w) = PageSize \/ list'.total <= (page + 1) * PageSize
    <3> DEFINE m == page * PageSize
               n == (page + 1) * PageSize
               k == Rank(order, sel, Last(w))
    <3>1. /\ k = m + Len(w) - 1 /\ m \in Nat /\ n = m + PageSize
          /\ Len(w) \in 1..PageSize /\ (Len(w) < PageSize => Cardinality(sel) <= m + Len(w))
      BY <2>1, <2>3, <2>4
    <3> HIDE DEF m, n, k
    <3>2. k + 1 = m + Len(w) /\ (Len(w) = PageSize \/ Cardinality(sel) <= n)
      BY <1>8, <3>1, PageSizeType
    <3> QED
      BY <1>8, <3>2 DEF m, n, k
  <2>6. DOMAIN pages = D /\ pages[page] = w
    BY DEF pages, D
  <2>7. /\ page \in D /\ page + 1 \notin D /\ page - 1 \in D
        /\ \A p \in D : p = page \/ (p \in DOMAIN P /\ p < page /\ p # page)
    BY <1>1, <1>4 DEF D
  <2>8. \A p \in D : p # page => pages[p] = P[p]
    BY DEF pages
  <2>9. ASSUME NEW p \in D, p # page
        PROVE  /\ Rank(order, sel, Last(P[p])) + 1 = p * PageSize + Len(P[p])
               /\ Len(P[p]) = PageSize
    <3>1. p \in DOMAIN P /\ p \in Nat /\ p < page
      BY <1>4, <2>7, <2>9
    <3>2. /\ Rank(order, sel, Last(P[p])) + 1 = p * PageSize + Len(P[p])
          /\ Len(P[p]) = PageSize \/ p + 1 \notin DOMAIN P
      BY <1>1, <1>14, <3>1 DEF OffsetInv, sel
    <3>3. CASE p = page - 1
      BY <1>10, <1>14, <3>2, <3>3
    <3>4. CASE p # page - 1
      <4>1. p + 1 \in p..(page - 1)
        BY <1>1, <3>1, <3>4
      <4>2. p + 1 \in DOMAIN P
        BY <1>1, <1>4, <3>1, <4>1
      <4> QED
        BY <3>2, <4>2
    <3> QED
      BY <3>3, <3>4
  <2>10. page - 1 # page
    BY <1>1
  <2>11. Len(pages[page - 1]) = PageSize
    BY <2>7, <2>8, <2>9, <2>10
  <2>12. ASSUME NEW p \in D
         PROVE  /\ Rank(order, sel, Last(pages[p])) + 1 = p * PageSize + Len(pages[p])
                /\ \/ Len(pages[p]) = PageSize
                   \/ list'.total <= (p + 1) * PageSize /\ p + 1 \notin D
    BY <2>5, <2>6, <2>7, <2>8, <2>9
  <2> HIDE DEF P
  <2> QED
    BY <1>2, <1>8, <2>6, <2>11, <2>12 DEF OffsetInv
<1>15. OffsetInv'
  BY <1>2, <1>14 DEF OffsetInv
<1> QED
  BY <1>13, <1>15

LEMMA AnswerSegment ==
    ASSUME TableInv, RequestsInv, PagesInv, OffsetInv, Answer
    PROVE  PagesInv' /\ OffsetInv'
<1> DEFINE request == Head(loading)
           w == Page(request.order, request.page, request.cursor)
<1>1. /\ UNCHANGED files
      /\ request.order \in Orders /\ request.page \in Nat /\ request.cursor \in RowType
      /\ IF Wanted(request)
         THEN /\ list'.order = request.order /\ list'.page = request.page
              /\ list.order = request.order /\ list.page = request.page
              /\ list'.total = Count(request.order)
         ELSE UNCHANGED <<list, segment, atStart>>
  BY Answered
<1>2. request \in RequestType
  <2>1. loading \in Seq(RequestType) /\ loading # <<>>
    BY DEF RequestsInv, RequestType, Answer
  <2> QED
    BY <2>1
<1>3. w # <<>> => IsAnswer(request.order, Selected(request.order), request.page, request.cursor, w)
  BY <1>1, PageFacts
<1>4. CASE ~Wanted(request)
  <2>1. UNCHANGED <<list, segment, atStart, files>>
    BY <1>1, <1>4
  <2> QED
    BY <2>1 DEF PagesInv, OffsetInv, Selected, Like
<1>5. CASE Wanted(request)
  <2>1. /\ segment' = IF w = <<>> THEN NoSegment
                      ELSE [order |-> request.order,
                            pages |-> [p \in {request.page} \cup {q \in DOMAIN segment.pages :
                                                 Continues(request) /\ q < request.page} |->
                                         IF p = request.page THEN w ELSE segment.pages[p]]]
        /\ atStart' = IF Continues(request) THEN atStart ELSE files
    BY <1>5 DEF Answer
  <2>2. atStart \subseteq files
    BY DEF PagesInv
  <2> HIDE DEF request, w
  <2>3. CASE w = <<>>
    BY <1>1, <2>1, <2>2, <2>3, NoPages
  <2>4. CASE w # <<>> /\ ~Continues(request)
    <3>1. {request.page} \cup {q \in DOMAIN segment.pages : Continues(request) /\ q < request.page}
            = {request.page}
      BY <2>4
    <3>2. [p \in {request.page} |-> IF p = request.page THEN w ELSE segment.pages[p]]
            = [p \in {request.page} |-> w]
      OBVIOUS
    <3>3. segment' = [order |-> request.order, pages |-> [p \in {request.page} |-> w]]
      BY <2>1, <2>4, <3>1, <3>2
    <3> QED
      BY <1>1, <1>3, <1>5, <2>1, <2>4, <3>3, FirstPage
  <2>5. CASE w # <<>> /\ Continues(request)
    <3>1. {q \in DOMAIN segment.pages : Continues(request) /\ q < request.page}
            = {q \in DOMAIN segment.pages : q < request.page}
      BY <2>5
    <3>2. segment' = [order |-> request.order,
                      pages |-> [p \in {request.page} \cup {q \in DOMAIN segment.pages : q < request.page} |->
                                    IF p = request.page THEN w ELSE segment.pages[p]]]
      BY <2>1, <2>5, <3>1
    <3> QED
      BY <1>1, <1>2, <1>3, <1>5, <2>1, <2>5, <3>2, NextAnswer
  <2> QED
    BY <2>3, <2>4, <2>5
<1> QED
  BY <1>4, <1>5

LEMMA SegmentStep ==
    ASSUME TableInv, SegmentInv, [CatalogNext]_catalogVars PROVE SegmentInv'
<1>1. CASE UNCHANGED <<files, listVars>>
  BY <1>1 DEF SegmentInv, RequestsInv, PagesInv, OffsetInv, Selected, Like, Wanted, listVars
<1>2. CASE InsertBatch
  <2>1. RequestsInv'
    BY <1>2 DEF InsertBatch, listVars, SegmentInv, RequestsInv, Wanted
  <2> QED
    BY <1>2, <2>1, BatchSegment DEF SegmentInv
<1>3. CASE Reload \/ Turn \/ Jump \/ Reorder
  BY <1>3, Asked, AskSegment DEF SegmentInv
<1>4. CASE Answer
  BY <1>4, Answered, AnswerSegment DEF SegmentInv
<1>6. CASE ResetFails
  <2>1. list' = list /\ loading' = loading
    BY <1>6 DEF ResetFails
  <2>2. RequestsInv'
    BY <2>1 DEF SegmentInv, RequestsInv, Wanted
  <2>3. CASE UNCHANGED <<files, segment, atStart>>
    BY <1>1, <2>1, <2>3 DEF listVars
  <2>4. CASE segment' = NoSegment /\ atStart' = {}
    BY <2>2, <2>4, NoPages DEF SegmentInv
  <2> QED
    BY <1>6, <2>3, <2>4 DEF ResetFails
<1>5. CASE ResetEnds \/ Dies
  <2>1. /\ segment' = NoSegment /\ atStart' = {} /\ loading' = <<>>
        /\ \E gen \in {list.gen, list.gen + 1} :
              list' = [list EXCEPT !.cursors = <<>>, !.page = 0, !.total = 0, !.gen = gen]
    <3>1. list = [order |-> list.order, page |-> list.page, gen |-> list.gen,
                  cursors |-> list.cursors, total |-> list.total]
      BY DEF SegmentInv, RequestsInv
    <3>2. CASE ResetEnds
      BY <3>2 DEF ResetEnds
    <3>3. CASE Dies
      <4>1. list' = [list EXCEPT !.cursors = <<>>, !.page = 0, !.total = 0]
        BY <3>3 DEF Dies
      <4>2. list' = [list EXCEPT !.cursors = <<>>, !.page = 0, !.total = 0, !.gen = list.gen]
        BY <3>1, <4>1
      <4> QED
        BY <3>3, <4>2 DEF Dies
    <3> QED
      BY <1>5, <3>2, <3>3
  <2>2. PICK gen \in {list.gen, list.gen + 1} :
           list' = [list EXCEPT !.cursors = <<>>, !.page = 0, !.total = 0, !.gen = gen]
    BY <2>1
  <2>3. /\ list = [order |-> list.order, page |-> list.page, gen |-> list.gen,
                   cursors |-> list.cursors, total |-> list.total]
        /\ list.order \in Orders /\ list.gen \in Nat
    BY DEF SegmentInv, RequestsInv
  <2>4. list' = [order |-> list.order, page |-> 0, gen |-> gen, cursors |-> <<>>, total |-> 0]
    BY <2>2, <2>3
  <2>5. gen \in Nat
    BY <2>2, <2>3
  <2>6. /\ list'.order = list.order /\ list'.page = 0 /\ list'.gen = gen /\ list'.total = 0
        /\ list'.cursors = <<>>
        /\ list' = [order |-> list'.order, page |-> list'.page, gen |-> list'.gen,
                    cursors |-> list'.cursors, total |-> list'.total]
    BY <2>4
  <2>7. loading' \in Seq(RequestType) /\ DOMAIN loading' = {} /\ DOMAIN list'.cursors = {}
    BY <2>1, <2>6
  <2>8. RequestsInv'
    BY <2>3, <2>5, <2>6, <2>7 DEF RequestsInv, RequestType
  <2> QED
    BY <2>1, <2>8, NoPages DEF SegmentInv
<1> QED
  BY <1>1, <1>2, <1>3, <1>4, <1>5, <1>6 DEF CatalogNext, catalogVars, dbVars, BeginExport,
     ExportRefused, ExportRow, ExportWrite, ExportPassEnds, ResetBegins, Open, openFrame

----------------------------------------------------------------------------
(* The theorems                                                            *)

LEMMA CatalogInitInv == CatalogInit => CatalogInv
<1> SUFFICES ASSUME CatalogInit PROVE CatalogInv
  OBVIOUS
<1>1. TableInv
  BY FS_EmptySet DEF CatalogInit, TableInv, IsTable
<1>2. MutexInv
  BY DEF CatalogInit, MutexInv, Threads
<1>3. IndexInv
  BY DEF CatalogInit, IndexInv
<1>4. ExportInv
  <2>1. NoRow \in RowType
    BY DEF NoRow, RowType
  <2> QED
    BY <2>1 DEF CatalogInit, ExportInv, ExportType, Orders
<1>5. RequestsInv
  BY DEF CatalogInit, RequestsInv, Orders
<1>6. PagesInv /\ OffsetInv
  <2>1. segment.order = "id" /\ segment.pages = <<>> /\ DOMAIN <<>> = {} /\ atStart = {}
    BY DEF CatalogInit, NoSegment
  <2>2. PagesInv
    BY <2>1, EmptyChain DEF PagesInv, Orders
  <2>3. OffsetInv
    BY <2>1 DEF OffsetInv
  <2> QED
    BY <2>2, <2>3
<1> QED
  BY <1>1, <1>2, <1>3, <1>4, <1>5, <1>6 DEF CatalogInv, SegmentInv

LEMMA CatalogInvariant == CatalogSpec => []CatalogInv
<1>1. CatalogInit => CatalogInv
  BY CatalogInitInv
<1>2. CatalogInv /\ [CatalogNext]_catalogVars => CatalogInv'
  <2> SUFFICES ASSUME CatalogInv, [CatalogNext]_catalogVars PROVE CatalogInv'
    OBVIOUS
  <2>1. TableInv /\ MutexInv /\ IndexInv /\ ExportInv /\ SegmentInv /\ export \in ExportType
    BY DEF CatalogInv, ExportInv
  <2>2. TableInv'
    BY <2>1, TableStep
  <2>3. MutexInv'
    BY <2>1, MutexStep
  <2>4. IndexInv'
    BY <2>1, IndexStep
  <2>5. ExportInv'
    BY <2>1, ExportStep
  <2>6. SegmentInv'
    BY <2>1, SegmentStep
  <2> QED
    BY <2>2, <2>3, <2>4, <2>5, <2>6 DEF CatalogInv
<1> QED
  BY <1>1, <1>2, PTL DEF CatalogSpec

\* The rows of the segment are its pages' rows.
LEMMA PlacesAre ==
    /\ \A p \in DOMAIN segment.pages : \A i \in DOMAIN segment.pages[p] : <<p, i>> \in Places
    /\ \A a \in Places : /\ a[1] \in DOMAIN segment.pages /\ a[2] \in DOMAIN segment.pages[a[1]]
                         /\ a = <<a[1], a[2]>>
  BY DEF Places

\* Whenever the store is open with its index, the index holds exactly the ids of
\* the table, and an index that is not there holds nothing: a row and its entry
\* come in one step, a reset drops the whole index before the first row, whether
\* it then ends, fails (metadata_store.cpp:1187-1198) or dies, and whatever
\* creates the index again also fills it.
THEOREM IndexIsComplete == CatalogSpec => []IndexMirrorsRows
<1>1. CatalogInv => IndexMirrorsRows
  BY DEF CatalogInv, IndexInv, IndexMirrorsRows
<1> QED
  BY <1>1, CatalogInvariant, PTL

\* A finished export of a sorted list is the table of the moment it began, for
\* any size of its chunks: it lets go of one of its two locks for each write and
\* of the other only at its end (exportCsv).
THEOREM ExportsAreSnapshots == CatalogSpec => []ExportIsSnapshot
<1>1. CatalogInv => ExportIsSnapshot
  BY DEF CatalogInv, ExportInv, ExportIsSnapshot
<1> QED
  BY <1>1, CatalogInvariant, PTL

\* Turning the pages of a list that a scan is still filling shows its rows in
\* order and skips none that was there at the first page, whatever batches,
\* requests and answers come in between (getFiles, loadPage).
THEOREM PagingLeavesNoGap == CatalogSpec => []PagesLeaveNoGap
<1>1. CatalogInv => PagesLeaveNoGap
  <2> SUFFICES ASSUME CatalogInv PROVE PagesLeaveNoGap
    OBVIOUS
  <2> DEFINE o == segment.order
             P == segment.pages
             sel == Selected(o)
  <2>1. /\ IsChain(o, P, sel) /\ NoneSkipped(o, P, atStart \cap sel) /\ atStart \subseteq files
        /\ IsTable(files)
    BY DEF CatalogInv, SegmentInv, PagesInv, TableInv
  <2>2. /\ DOMAIN P \subseteq Nat
        /\ \A p \in DOMAIN P : P[p] \in Seq(sel) /\ P[p] # <<>>
        /\ \A p, q \in DOMAIN P : \A i \in DOMAIN P[p], j \in DOMAIN P[q] :
             p < q \/ (p = q /\ i < j) => Precedes(o, P[p][i], P[q][j])
    BY <2>1 DEF IsChain
  <2>3. ASSUME NEW a \in Places, NEW b \in Places, a[1] < b[1] \/ (a[1] = b[1] /\ a[2] < b[2])
        PROVE  Precedes(o, Shown(a), Shown(b))
    BY <2>2, <2>3, PlacesAre DEF Shown
  <2>4. ASSUME NEW r \in atStart, NEW a \in Places, NEW b \in Places,
               o = "query" => r.name # "none",
               Precedes(o, Shown(a), r), Precedes(o, r, Shown(b))
        PROVE  \E c \in Places : Shown(c) = r
    <3> DEFINE p == b[1]
               i == b[2]
               x == P[p][i]
               l == Last(P[p])
    <3>1. r \in sel /\ r \in files
      BY <2>1, <2>4 DEF Selected, Like
    <3>2. p \in DOMAIN P /\ i \in DOMAIN P[p] /\ Shown(b) = x
      BY PlacesAre DEF Shown
    <3>3. p \in Nat /\ p <= p
      BY <2>2, <3>2
    <3>4. x = l \/ Precedes(o, x, l)
      BY <2>1, <3>2, <3>3, BeforeLast
    <3>5. x \in files /\ l \in files
      <4>1. P[p] \in Seq(sel) /\ P[p] # <<>> /\ sel \subseteq files
        BY <2>2, <3>2 DEF Selected, Like
      <4> QED
        BY <3>2, <4>1, LastOf
    <3> HIDE DEF x, l
    <3>6. Precedes(o, r, l)
      BY <2>1, <2>4, <3>1, <3>2, <3>4, <3>5, OrderFacts
    <3>7. a[1] \in DOMAIN P /\ a[2] \in DOMAIN P[a[1]] /\ Precedes(o, P[a[1]][a[2]], r)
      BY <2>4, PlacesAre DEF Shown
    <3>8. PICK m \in DOMAIN P : \E j \in DOMAIN P[m] : P[m][j] = r
      BY <2>1, <3>1, <3>2, <3>6, <3>7 DEF NoneSkipped, l
    <3>9. PICK j \in DOMAIN P[m] : P[m][j] = r
      BY <3>8
    <3>10. <<m, j>> \in Places /\ Shown(<<m, j>>) = r
      BY <3>9, PlacesAre DEF Shown
    <3> QED
      BY <3>10
  <2> QED
    BY <2>3, <2>4 DEF PagesLeaveNoGap
<1> QED
  BY <1>1, CatalogInvariant, PTL

----------------------------------------------------------------------------
(* Reading a file                                                          *)

LEMMA FileFacts ==
    ASSUME NEW file, WellFormed(file)
    PROVE  /\ file.size \in Nat /\ file.at \in Nat /\ file.letters \in Nat
           /\ Len(file.runs) \in Nat /\ DOMAIN file.runs = 1..Len(file.runs)
           /\ \A k \in 1..Len(file.runs) :
                /\ file.runs[k].length \in Nat /\ file.runs[k].length > 0
                /\ file.runs[k].there \in Int /\ file.runs[k].there <= file.runs[k].length
                /\ file.runs[k].bad \subseteq Nat
<1>1. file.runs \in Seq(Range(file.runs))
  BY DEF WellFormed
<1>2. Len(file.runs) \in Nat /\ DOMAIN file.runs = 1..Len(file.runs)
  BY <1>1
<1>3. \A k \in 1..Len(file.runs) :
        /\ file.runs[k].length \in Nat \ {0}
        /\ file.runs[k].there \in Int /\ file.runs[k].there <= file.runs[k].length
        /\ file.runs[k].bad \subseteq 0..file.runs[k].length
  BY <1>2 DEF WellFormed
<1>4. \A k \in 1..Len(file.runs) : 0..file.runs[k].length \subseteq Nat
  BY <1>3
<1> QED
  BY <1>2, <1>3, <1>4 DEF WellFormed

\* The runs of a file lie side by side from 0 on.
LEMMA RunFacts ==
    ASSUME NEW file, WellFormed(file)
    PROVE  /\ RunEnds(file) \in [0..Len(file.runs) -> Nat] /\ RunEnds(file)[0] = 0
           /\ \A k \in 1..Len(file.runs) :
                RunEnds(file)[k] = RunEnds(file)[k - 1] + file.runs[k].length
           /\ \A j, k \in 0..Len(file.runs) : j <= k => RunEnds(file)[j] <= RunEnds(file)[k]
<1> DEFINE n == Len(file.runs)
           length == [k \in 1..n |-> file.runs[k].length]
           step == [x \in (1..n) \X Nat |-> x[2] + length[x[1]]]
           ends == RunEnds(file)
           Before(j) == {k \in 0..n : j <= k => ends[j] <= ends[k]}
<1>1. n \in Nat /\ length \in [1..n -> Nat] /\ \A k \in 1..n : length[k] = file.runs[k].length
  BY FileFacts
<1> HIDE DEF n, length
<1>2. step \in [(1..n) \X Nat -> Nat]
  BY <1>1
<1>3. \A k \in 1..n, m \in Nat : step[<<k, m>>] = m + length[k]
  BY <1>1
<1> HIDE DEF step
<1>4. PICK f \in [0..n -> Nat] : f[0] = 0 /\ \A k \in 1..n : f[k] = step[<<k, f[k - 1]>>]
  <2>1. StepOn(n, Nat, 0, step)
    BY <1>1, <1>2 DEF StepOn
  <2>2. PICK f : Recursive(f, n, Nat, 0, step)
    BY <1>1, <2>1, Recursion
  <2> QED
    BY <2>2 DEF Recursive
<1>5. f = [k \in 0..n |-> IF k = 0 THEN 0 ELSE f[k - 1] + file.runs[k].length]
  <2>1. ASSUME NEW k \in 0..n, k # 0 PROVE f[k] = f[k - 1] + file.runs[k].length
    <3>1. k \in 1..n /\ k - 1 \in 0..n
      BY <1>1, <2>1
    <3> QED
      BY <1>1, <1>3, <1>4, <3>1
  <2> QED
    BY <1>4, <2>1
<1>6. ends = [k \in 0..n |-> IF k = 0 THEN 0 ELSE ends[k - 1] + file.runs[k].length]
  BY <1>5 DEF RunEnds, n
<1> HIDE DEF ends
<1>7. ends[0] = 0 /\ \A k \in 1..n : ends[k] = ends[k - 1] + file.runs[k].length
  BY <1>1, <1>6
<1>8. \A k \in 0..n : ends[k] \in Nat
  <2> DEFINE S == {k \in 0..n : ends[k] \in Nat}
  <2>1. 0 \in S
    BY <1>1, <1>7
  <2>2. ASSUME NEW k \in 1..n, k - 1 \in S PROVE k \in S
    <3>1. ends[k - 1] \in Nat /\ file.runs[k].length \in Nat /\ k \in 0..n
      BY <1>1, <2>2, FileFacts DEF n
    <3> QED
      BY <1>7, <3>1
  <2> HIDE DEF S
  <2>3. 0..n \subseteq S
    BY <1>1, <2>1, <2>2, AllUpTo
  <2> QED
    BY <2>3 DEF S
<1>9. ASSUME NEW j \in 0..n, NEW k \in 0..n, j <= k PROVE ends[j] <= ends[k]
  <2> DEFINE S == Before(j)
  <2>1. 0 \in S
    BY <1>1, <1>7
  <2>2. ASSUME NEW m \in 1..n, m - 1 \in S PROVE m \in S
    <3>1. ends[m] \in Nat /\ ends[m - 1] \in Nat /\ ends[j] \in Nat /\ ends[m - 1] <= ends[m]
      <4>1. m \in 0..n /\ m - 1 \in 0..n /\ ends[m] = ends[m - 1] + file.runs[m].length
        BY <1>1, <1>7
      <4>2. file.runs[m].length \in Nat
        BY FileFacts DEF n
      <4> QED
        BY <1>8, <4>1, <4>2
    <3>2. m \in 0..n /\ m - 1 \in 0..n /\ (j <= m => j <= m - 1 \/ j = m)
      BY <1>1
    <3> QED
      BY <2>2, <3>1, <3>2
  <2> HIDE DEF S
  <2>3. 0..n \subseteq S
    BY <1>1, <2>1, <2>2, AllUpTo
  <2> QED
    BY <1>9, <2>3 DEF S
<1> QED
  BY <1>1, <1>6, <1>7, <1>8, <1>9 DEF ends, n

\* What a run of a file holds, only that run can hold.
LEMMA OneRun ==
    ASSUME NEW file, WellFormed(file), NEW k \in 1..Len(file.runs), NEW p \in Int,
           InRun(file, k, p), ReadableAt(file, p)
    PROVE  LET there == p - RunEnds(file)[k - 1]
           IN  there < file.runs[k].there /\ there \notin file.runs[k].bad
<1> DEFINE n == Len(file.runs)
           ends == RunEnds(file)
<1>1. n \in Nat /\ DOMAIN file.runs = 1..n
  BY FileFacts
<1>2. PICK j \in 1..n :
        /\ p - ends[j - 1] >= 0 /\ p - ends[j - 1] < file.runs[j].there
        /\ p - ends[j - 1] \notin file.runs[j].bad
  BY <1>1 DEF ReadableAt
<1>3. /\ j - 1 \in 0..n /\ k - 1 \in 0..n /\ j \in 0..n /\ k \in 0..n
      /\ (j < k => j <= k - 1) /\ (k < j => k <= j - 1)
  BY <1>1
<1>4. /\ ends[j] \in Nat /\ ends[k] \in Nat /\ ends[j - 1] \in Nat /\ ends[k - 1] \in Nat
      /\ ends[j] = ends[j - 1] + file.runs[j].length
      /\ (j < k => ends[j] <= ends[k - 1]) /\ (k < j => ends[k] <= ends[j - 1])
  BY <1>3, RunFacts
<1>5. /\ file.runs[j].there \in Int /\ file.runs[j].length \in Nat
      /\ file.runs[j].there <= file.runs[j].length
  BY FileFacts
<1>6. ends[k - 1] <= p /\ p < ends[k]
  BY DEF InRun
<1> HIDE DEF ends
<1>7. ~(j < k)
  <2> SUFFICES ASSUME j < k PROVE FALSE
    OBVIOUS
  <2>1. p < ends[j]
    BY <1>2, <1>4, <1>5, SMTT(30)
  <2> QED
    BY <1>4, <1>6, <2>1
<1>8. ~(k < j)
  <2> SUFFICES ASSUME k < j PROVE FALSE
    OBVIOUS
  <2>1. p >= ends[j - 1]
    BY <1>2, <1>4
  <2> QED
    BY <1>4, <1>6, <2>1
<1>9. j = k
  BY <1>1, <1>7, <1>8
<1> QED
  BY <1>2, <1>9 DEF ends

----------------------------------------------------------------------------
(* copyFromRuns                                                            *)

Buffers == [base : Nat, first : Nat, filled : Nat, skipped : Nat, unread : BOOLEAN, stop : BOOLEAN]

LEMMA AtMostFacts ==
    ASSUME NEW m \in Nat, NEW n \in Nat
    PROVE  /\ AtMost(m, n) \in Nat /\ AtMost(m, n) <= m /\ AtMost(m, n) <= n
           /\ AtMost(m, n) = m \/ AtMost(m, n) = n
  BY DEF AtMost

Skip(from, acc) == IF from > acc.base THEN from - acc.base ELSE 0
Take(run, from, want, acc) == AtMost(run.length - Skip(from, acc), want - acc.filled)
Unread(run, from, want, acc) ==
    \E b \in run.bad : b >= Skip(from, acc) /\ b < Skip(from, acc) + Take(run, from, want, acc)
Usable(run, from, want, acc) ==
    IF run.there = Hole THEN Take(run, from, want, acc)
    ELSE IF Unread(run, from, want, acc) \/ run.there <= Skip(from, acc) THEN 0
    ELSE AtMost(Take(run, from, want, acc), run.there - Skip(from, acc))

\* The copying is over, or a run lies before what is read, ends what was
\* copied, is passed over or is copied.
IsOver(acc, want) == acc.stop \/ acc.filled >= want
CopyCases(run, from, want, acc, skip, take, usable, unread, next) ==
    /\ IsOver(acc, want) => next = acc
    /\ ~IsOver(acc, want) /\ acc.base + run.length <= from =>
         next = [acc EXCEPT !.base = @ + run.length]
    /\ ~IsOver(acc, want) /\ acc.base + run.length > from =>
         /\ skip \in Nat /\ skip < run.length
         /\ take \in Nat /\ take > 0 /\ take <= run.length - skip /\ take <= want - acc.filled
         /\ take = run.length - skip \/ take = want - acc.filled
         /\ usable \in Nat /\ usable <= take
         /\ usable = 0 /\ acc.filled > 0 =>
              next = [acc EXCEPT !.stop = TRUE, !.unread = @ \/ unread]
         /\ usable = 0 /\ acc.filled = 0 =>
              next = [acc EXCEPT !.base = @ + run.length, !.skipped = @ + take,
                                 !.unread = @ \/ unread]
         /\ usable > 0 =>
              next = [acc EXCEPT !.base = @ + run.length,
                                 !.first = IF acc.filled = 0 THEN acc.base + skip ELSE @,
                                 !.filled = @ + usable, !.stop = usable < take]

LEMMA CopyRunCases ==
    ASSUME NEW file, WellFormed(file), NEW from \in Nat, NEW want \in Nat, NEW acc \in Buffers,
           NEW k \in 1..Len(file.runs), NEW run, run = file.runs[k]
    PROVE  CopyCases(run, from, want, acc, Skip(from, acc), Take(run, from, want, acc),
                     Usable(run, from, want, acc), Unread(run, from, want, acc),
                     CopyRun(file, from, want, acc, k))
<1> DEFINE skip == Skip(from, acc)
           take == Take(run, from, want, acc)
           usable == Usable(run, from, want, acc)
           next == CopyRun(file, from, want, acc, k)
<1>1. run.length \in Nat /\ run.length > 0 /\ run.there \in Int
  BY FileFacts
<1>2. acc.base \in Nat /\ acc.filled \in Nat
  BY DEF Buffers
<1>3. CASE IsOver(acc, want)
  <2>1. next = acc
    BY <1>3 DEF IsOver, CopyRun
  <2> QED
    BY <1>3, <2>1 DEF CopyCases
<1>4. CASE ~IsOver(acc, want) /\ acc.base + run.length <= from
  <2>1. next = [acc EXCEPT !.base = @ + run.length]
    BY <1>1, <1>2, <1>4 DEF IsOver, CopyRun
  <2>2. ~(acc.base + run.length > from)
    BY <1>1, <1>2, <1>4
  <2> QED
    BY <1>4, <2>1, <2>2 DEF CopyCases
<1>5. CASE ~IsOver(acc, want) /\ acc.base + run.length > from
  <2>1. skip \in Nat /\ skip < run.length
    BY <1>1, <1>2, <1>5 DEF Skip
  <2>2. acc.filled < want
    BY <1>2, <1>5 DEF IsOver
  <2>3. /\ take \in Nat /\ take > 0 /\ take <= run.length - skip /\ take <= want - acc.filled
        /\ take = run.length - skip \/ take = want - acc.filled
    <3>1. take = AtMost(run.length - skip, want - acc.filled)
      BY DEF Take
    <3>2. run.length - skip \in Nat /\ run.length - skip > 0
      BY <1>1, <2>1
    <3>3. want - acc.filled \in Nat /\ want - acc.filled > 0
      BY <1>2, <2>2
    <3> HIDE DEF skip, take
    <3> QED
      BY <3>1, <3>2, <3>3, AtMostFacts
  <2>4. usable \in Nat /\ usable <= take
    BY <1>1, <2>1, <2>3 DEF Usable, AtMost
  <2>5. ~acc.stop /\ ~(acc.filled >= want) /\ ~(acc.base + run.length <= from)
    BY <1>1, <1>2, <1>5 DEF IsOver
  <2>6. next = IF usable = 0
               THEN IF acc.filled > 0
                    THEN [acc EXCEPT !.stop = TRUE, !.unread = @ \/ Unread(run, from, want, acc)]
                    ELSE [[acc EXCEPT !.base = @ + run.length]
                            EXCEPT !.skipped = @ + take, !.unread = @ \/ Unread(run, from, want, acc)]
               ELSE [[acc EXCEPT !.base = @ + run.length]
                       EXCEPT !.first = IF acc.filled = 0 THEN acc.base + skip ELSE @,
                              !.filled = @ + usable, !.stop = usable < take]
    BY <2>5, ZenonT(30) DEF CopyRun, Skip, Take, Unread, Usable
  <2>7. usable = 0 /\ acc.filled > 0 =>
          next = [acc EXCEPT !.stop = TRUE, !.unread = @ \/ Unread(run, from, want, acc)]
    BY <2>6, Zenon
  <2>8. usable = 0 /\ acc.filled = 0 =>
          next = [acc EXCEPT !.base = @ + run.length, !.skipped = @ + take,
                             !.unread = @ \/ Unread(run, from, want, acc)]
    BY <1>2, <2>6 DEF Buffers
  <2>9. usable > 0 =>
          next = [acc EXCEPT !.base = @ + run.length,
                             !.first = IF acc.filled = 0 THEN acc.base + skip ELSE @,
                             !.filled = @ + usable, !.stop = usable < take]
    BY <1>2, <2>4, <2>6 DEF Buffers
  <2> HIDE DEF skip, take, usable, next
  <2>10. CopyCases(run, from, want, acc, skip, take, usable, Unread(run, from, want, acc), next)
    BY <1>1, <1>2, <1>5, <2>1, <2>2, <2>3, <2>4, <2>5, <2>7, <2>8, <2>9 DEF CopyCases
  <2> QED
    BY <2>10 DEF skip, take, usable, next
<1> QED
  <2>1. acc.base + run.length <= from \/ acc.base + run.length > from
    BY <1>1, <1>2
  <2> QED
    BY <1>3, <1>4, <1>5, <2>1

LEMMA CopyRunType ==
    ASSUME NEW file, WellFormed(file), NEW from \in Nat, NEW want \in Nat, NEW acc \in Buffers,
           NEW k \in 1..Len(file.runs)
    PROVE  CopyRun(file, from, want, acc, k) \in Buffers
<1> DEFINE run == file.runs[k]
           skip == Skip(from, acc)
           take == Take(run, from, want, acc)
           usable == Usable(run, from, want, acc)
           unread == Unread(run, from, want, acc)
           next == CopyRun(file, from, want, acc, k)
<1>1. run.length \in Nat /\ unread \in BOOLEAN
  BY FileFacts DEF Unread
<1>2. CopyCases(run, from, want, acc, skip, take, usable, unread, next)
  BY CopyRunCases
<1> HIDE DEF run, skip, take, usable, unread, next
<1>3. acc.base \in Nat /\ acc.filled \in Nat
  BY DEF Buffers
<1>4. CASE acc.base + run.length <= from
  <2>1. next = acc \/ next = [acc EXCEPT !.base = @ + run.length]
    BY <1>2, <1>4 DEF CopyCases
  <2> QED
    BY <1>1, <1>3, <2>1 DEF Buffers, next
<1>5. CASE acc.base + run.length > from
  <2>1. CASE IsOver(acc, want)
    BY <1>2, <2>1 DEF CopyCases, next
  <2>2. CASE ~IsOver(acc, want)
    <3>1. /\ skip \in Nat /\ take \in Nat /\ usable \in Nat
          /\ usable = 0 /\ acc.filled > 0 =>
               next = [acc EXCEPT !.stop = TRUE, !.unread = @ \/ unread]
          /\ usable = 0 /\ acc.filled = 0 =>
               next = [acc EXCEPT !.base = @ + run.length, !.skipped = @ + take,
                                  !.unread = @ \/ unread]
          /\ usable > 0 =>
               next = [acc EXCEPT !.base = @ + run.length,
                                  !.first = IF acc.filled = 0 THEN acc.base + skip ELSE @,
                                  !.filled = @ + usable, !.stop = usable < take]
      BY <1>2, <1>5, <2>2 DEF CopyCases
    <3>2. usable = 0 \/ usable > 0
      BY <3>1
    <3>3. acc.filled = 0 \/ acc.filled > 0
      BY <1>3
    <3>4. CASE usable = 0 /\ acc.filled > 0
      <4>1. next = [acc EXCEPT !.stop = TRUE, !.unread = @ \/ unread]
        BY <3>1, <3>4
      <4> QED
        BY <1>1, <4>1 DEF Buffers, next
    <3>5. CASE usable = 0 /\ acc.filled = 0
      <4>1. next = [acc EXCEPT !.base = @ + run.length, !.skipped = @ + take,
                               !.unread = @ \/ unread]
        BY <3>1, <3>5
      <4>2. acc.base + run.length \in Nat /\ acc.skipped + take \in Nat
        BY <1>1, <1>3, <3>1 DEF Buffers
      <4>3. next \in Buffers
        BY <1>1, <4>1, <4>2 DEF Buffers
      <4> QED
        BY <4>3 DEF next
    <3>6. CASE usable > 0
      <4> DEFINE place == IF acc.filled = 0 THEN acc.base + skip ELSE acc.first
                 partial == usable < take
      <4>1. next = [acc EXCEPT !.base = @ + run.length, !.first = place,
                               !.filled = @ + usable, !.stop = partial]
        BY <3>1, <3>6
      <4>2. place \in Nat /\ partial \in BOOLEAN
        BY <1>3, <3>1 DEF Buffers
      <4> HIDE DEF place, partial
      <4>3. acc.base + run.length \in Nat /\ acc.filled + usable \in Nat
        BY <1>1, <1>3, <3>1, SMTT(30)
      <4>4. next \in Buffers
        BY <1>1, <4>1, <4>2, <4>3 DEF Buffers
      <4> QED
        BY <4>4 DEF next
    <3> QED
      BY <3>2, <3>3, <3>4, <3>5, <3>6
  <2> QED
    BY <2>1, <2>2
<1>6. acc.base + run.length <= from \/ acc.base + run.length > from
  BY <1>1, <1>3
<1> QED
  BY <1>4, <1>5, <1>6

\* The recursive definition of CopyRuns has a solution.
LEMMA CopyRunsFacts ==
    ASSUME NEW file, WellFormed(file), NEW from \in Nat, NEW want \in Nat
    PROVE  /\ CopyRuns(file, from, want) \in [0..Len(file.runs) -> Buffers]
           /\ CopyRuns(file, from, want)[0] = Nothing(from)
           /\ \A k \in 1..Len(file.runs) :
                CopyRuns(file, from, want)[k] =
                  CopyRun(file, from, want, CopyRuns(file, from, want)[k - 1], k)
<1> DEFINE n == Len(file.runs)
           step == [x \in (1..n) \X Buffers |-> CopyRun(file, from, want, x[2], x[1])]
           copied == CopyRuns(file, from, want)
<1>1. n \in Nat
  BY FileFacts
<1>2. step \in [(1..n) \X Buffers -> Buffers]
  BY CopyRunType
<1>3. \A k \in 1..n, acc \in Buffers : step[<<k, acc>>] = CopyRun(file, from, want, acc, k)
  OBVIOUS
<1>4. Nothing(from) \in Buffers
  BY DEF Nothing, Buffers
<1> HIDE DEF n, step
<1>5. PICK f : Recursive(f, n, Buffers, Nothing(from), step)
  BY <1>1, <1>2, <1>4, Recursion DEF StepOn
<1>6. /\ f \in [0..n -> Buffers] /\ f[0] = Nothing(from)
      /\ \A k \in 1..n : f[k] = CopyRun(file, from, want, f[k - 1], k)
  <2>1. ASSUME NEW k \in 1..n PROVE f[k] = CopyRun(file, from, want, f[k - 1], k)
    <3>1. k - 1 \in 0..n
      BY <1>1
    <3> QED
      BY <1>3, <1>5, <3>1 DEF Recursive
  <2> QED
    BY <1>5, <2>1 DEF Recursive
<1>7. \A g, k : (CHOOSE next \in {CopyRun(file, from, want, acc, k) : acc \in {g[k - 1]}} : TRUE)
                 = CopyRun(file, from, want, g[k - 1], k)
  OBVIOUS
<1>8. f = [k \in 0..n |-> IF k = 0 THEN Nothing(from)
             ELSE CHOOSE next \in {CopyRun(file, from, want, acc, k) : acc \in {f[k - 1]}} : TRUE]
  <2>1. ASSUME NEW k \in 0..n, k # 0 PROVE f[k] = CopyRun(file, from, want, f[k - 1], k)
    BY <1>1, <1>6, <2>1
  <2> QED
    BY <1>6, <1>7, <2>1
<1>9. copied = [k \in 0..n |-> IF k = 0 THEN Nothing(from)
             ELSE CHOOSE next \in {CopyRun(file, from, want, acc, k) : acc \in {copied[k - 1]}} : TRUE]
  BY <1>8 DEF CopyRuns, n
<1> HIDE DEF copied
<1>10. copied[0] = Nothing(from) /\ \A k \in 1..n : copied[k] = CopyRun(file, from, want, copied[k - 1], k)
  <2>1. 0 \in 0..n /\ \A k \in 1..n : k \in 0..n /\ k # 0
    BY <1>1
  <2> QED
    BY <1>7, <1>9, <2>1
<1>11. \A k \in 0..n : copied[k] \in Buffers
  <2> DEFINE S == {k \in 0..n : copied[k] \in Buffers}
  <2>1. 0 \in S
    BY <1>1, <1>4, <1>10
  <2>2. ASSUME NEW k \in 1..n, k - 1 \in S PROVE k \in S
    <3>1. k \in 0..n /\ copied[k - 1] \in Buffers /\ k \in 1..Len(file.runs)
      BY <1>1, <2>2 DEF n
    <3>2. CopyRun(file, from, want, copied[k - 1], k) \in Buffers
      BY <3>1, CopyRunType
    <3> QED
      BY <1>10, <3>1, <3>2
  <2> HIDE DEF S
  <2>3. 0..n \subseteq S
    BY <1>1, <2>1, <2>2, AllUpTo
  <2> QED
    BY <2>3 DEF S
<1> QED
  BY <1>9, <1>10, <1>11 DEF copied, n

----------------------------------------------------------------------------
(* What a buffer holds                                                     *)

HoleAt(file, p) == \E k \in DOMAIN file.runs : file.runs[k].there = Hole /\ InRun(file, k, p)
NoneIn(file, a, b) == \A p \in Int : a <= p /\ p < b => ~ReadableAt(file, p)

\* What was passed over counts up to b, or for all that was asked for.
Accounted(from, want, skipped, b) ==
    \/ b <= from /\ skipped = 0
    \/ b = from + skipped
    \/ skipped >= want /\ b >= from + want

\* What is in the buffer is the file's, without a gap; what can be read and
\* is not in it lies behind it, unless something did not read.
Covers(file, acc) ==
    \A p \in Int : acc.first <= p /\ p < acc.first + acc.filled
                    => ReadableAt(file, p) \/ HoleAt(file, p)
InOnePiece(file, from, want, acc, k) ==
    /\ acc \in Buffers /\ acc.filled <= want /\ acc.first >= from
    /\ ~IsOver(acc, want) => /\ acc.base = RunEnds(file)[k]
                             /\ acc.filled > 0 => acc.first + acc.filled = acc.base
    /\ acc.stop => acc.filled > 0 /\ acc.filled < want
Misses(file, from, want, acc) ==
    /\ acc.filled = 0 => NoneIn(file, from, acc.base) /\ Accounted(from, want, acc.skipped, acc.base)
    /\ acc.filled > 0 => NoneIn(file, from, acc.first) /\ Accounted(from, want, acc.skipped, acc.first)
    /\ acc.stop => ~ReadableAt(file, acc.first + acc.filled)
CopyInv(file, from, want, acc, k) ==
    /\ InOnePiece(file, from, want, acc, k)
    /\ Covers(file, acc)
    /\ ~acc.unread => Misses(file, from, want, acc)

LEMMA RunBounds ==
    ASSUME NEW file, WellFormed(file), NEW k \in 1..Len(file.runs), NEW run, run = file.runs[k]
    PROVE  /\ RunEnds(file)[k - 1] \in Nat
           /\ RunEnds(file)[k] = RunEnds(file)[k - 1] + run.length
           /\ run.length \in Nat /\ run.length > 0 /\ run.there \in Int /\ run.there <= run.length
           /\ run.bad \subseteq Nat
<1>1. k - 1 \in 0..Len(file.runs)
  BY FileFacts
<1> QED
  BY <1>1, FileFacts, RunFacts

\* What is usable of a run is there, and what is not, when nothing failed, is not.
AtRun(file, from, want, acc, k, run, skip, take, usable) ==
    /\ acc \in Buffers /\ k \in 1..Len(file.runs) /\ run = file.runs[k]
    /\ ~IsOver(acc, want) /\ acc.base + run.length > from /\ acc.base = RunEnds(file)[k - 1]
    /\ skip = Skip(from, acc) /\ take = Take(run, from, want, acc)
    /\ usable = Usable(run, from, want, acc)

LEMMA UsableIsThere ==
    ASSUME NEW file, WellFormed(file), NEW from \in Nat, NEW want \in Nat, NEW acc, NEW k,
           NEW run, NEW skip, NEW take, NEW usable,
           AtRun(file, from, want, acc, k, run, skip, take, usable)
    PROVE  /\ usable > 0 =>
                \A p \in Int : acc.base + skip <= p /\ p < acc.base + skip + usable
                                => ReadableAt(file, p) \/ HoleAt(file, p)
           /\ usable = 0 /\ ~Unread(run, from, want, acc) => run.there <= skip
           /\ usable > 0 /\ usable < take => run.there = skip + usable
           /\ \A p \in Int : acc.base <= p /\ p < acc.base + run.length /\ p - acc.base >= run.there
                              => ~ReadableAt(file, p)
<1>1. /\ skip \in Nat /\ skip < run.length /\ take \in Nat /\ take > 0 /\ take <= run.length - skip
      /\ usable \in Nat /\ usable <= take
  BY CopyRunCases, ZenonT(30) DEF CopyCases, AtRun
<1>2. /\ acc.base \in Nat /\ acc.base = RunEnds(file)[k - 1] /\ RunEnds(file)[k] = acc.base + run.length
      /\ run.length \in Nat /\ run.there \in Int
  BY RunBounds DEF AtRun
<1>3. k \in DOMAIN file.runs /\ run = file.runs[k] /\ run.bad \subseteq Nat
  BY FileFacts DEF AtRun
<1>4. ASSUME usable > 0, NEW p \in Int, acc.base + skip <= p, p < acc.base + skip + usable
      PROVE  ReadableAt(file, p) \/ HoleAt(file, p)
  <2>1. CASE run.there = Hole
    <3>1. InRun(file, k, p)
      BY <1>1, <1>2, <1>4 DEF InRun
    <3> QED
      BY <1>3, <2>1, <3>1 DEF HoleAt
  <2>2. CASE run.there # Hole
    <3>1. ~Unread(run, from, want, acc) /\ run.there > skip /\ usable = AtMost(take, run.there - skip)
      BY <1>1, <1>2, <1>4, <2>2, SMTT(30) DEF Usable, AtRun
    <3>2. usable <= run.there - skip
      <4>1. run.there - skip \in Nat
        BY <1>1, <1>2, <3>1
      <4> QED
        BY <1>1, <3>1, <4>1 DEF AtMost
    <3>3. p - acc.base >= 0 /\ p - acc.base < run.there
      BY <1>1, <1>2, <1>4, <3>2
    <3>4. p - acc.base \notin run.bad
      <4>1. skip <= p - acc.base /\ p - acc.base < skip + take /\ p - acc.base \in Int
        BY <1>1, <1>2, <1>4
      <4>2. \A x \in run.bad : ~(x >= skip /\ x < skip + take)
        BY <3>1 DEF Unread, AtRun
      <4>3. \A x \in run.bad : x # p - acc.base
        BY <4>1, <4>2
      <4> QED
        BY <4>3
    <3> QED
      BY <1>2, <1>3, <3>3, <3>4 DEF ReadableAt
  <2> QED
    BY <2>1, <2>2
<1>5. ASSUME usable = 0, ~Unread(run, from, want, acc) PROVE run.there <= skip
  <2> SUFFICES ASSUME ~(run.there <= skip) PROVE FALSE
    OBVIOUS
  <2>1. run.there # Hole /\ usable = AtMost(take, run.there - skip)
    BY <1>1, <1>5 DEF Usable, AtRun
  <2>2. run.there - skip \in Nat /\ run.there - skip > 0
    BY <1>1, <1>2
  <2> QED
    BY <1>1, <1>5, <2>1, <2>2 DEF AtMost
<1>6. ASSUME usable > 0, usable < take PROVE run.there = skip + usable
  <2>1. run.there > skip /\ usable = AtMost(take, run.there - skip)
    BY <1>1, <1>2, <1>6 DEF Usable, AtRun
  <2>2. run.there - skip \in Nat
    BY <1>1, <1>2, <2>1
  <2> QED
    BY <1>1, <1>2, <1>6, <2>1, <2>2 DEF AtMost
<1>7. ASSUME NEW p \in Int, acc.base <= p, p < acc.base + run.length, p - acc.base >= run.there
      PROVE  ~ReadableAt(file, p)
  <2>1. InRun(file, k, p)
    BY <1>2, <1>7 DEF InRun
  <2>2. ~(p - acc.base < run.there)
    BY <1>2, <1>7
  <2> QED
    BY <1>3, <2>1, <2>2, OneRun DEF AtRun
<1> QED
  BY <1>4, <1>5, <1>6, <1>7

\* One run more: each way a run is treated keeps what is said of the buffer.
LEMMA CopyRunKeeps ==
    ASSUME NEW file, WellFormed(file), NEW from \in Nat, NEW want \in Nat, want > 0, NEW acc,
           NEW k \in 1..Len(file.runs), CopyInv(file, from, want, acc, k - 1)
    PROVE  CopyInv(file, from, want, CopyRun(file, from, want, acc, k), k)
<1> DEFINE run == file.runs[k]
           skip == Skip(from, acc)
           take == Take(run, from, want, acc)
           usable == Usable(run, from, want, acc)
           unread == Unread(run, from, want, acc)
           next == CopyRun(file, from, want, acc, k)
<1>1. /\ acc \in Buffers /\ acc.filled <= want /\ acc.first >= from
      /\ acc.stop => acc.filled > 0 /\ acc.filled < want
  BY DEF CopyInv, InOnePiece
<1>2. /\ acc.base \in Nat /\ acc.filled \in Nat /\ acc.first \in Nat /\ acc.skipped \in Nat
      /\ acc.stop \in BOOLEAN /\ acc.unread \in BOOLEAN
  BY <1>1 DEF Buffers
<1>3. /\ run.length \in Nat /\ run.length > 0 /\ run.there \in Int
      /\ RunEnds(file)[k] = RunEnds(file)[k - 1] + run.length
  <2>1. \A r : r = file.runs[k] =>
          /\ r.length \in Nat /\ r.length > 0 /\ r.there \in Int
          /\ RunEnds(file)[k] = RunEnds(file)[k - 1] + r.length
    BY RunBounds
  <2> QED
    BY <2>1
<1>4. CopyCases(run, from, want, acc, skip, take, usable, unread, next)
  BY <1>1, CopyRunCases
<1>5. next \in Buffers
  BY <1>1, CopyRunType
<1>6. ~IsOver(acc, want) =>
        /\ acc.base = RunEnds(file)[k - 1]
        /\ acc.filled > 0 => acc.first + acc.filled = acc.base
  BY DEF CopyInv, InOnePiece
<1>7. skip = IF from > acc.base THEN from - acc.base ELSE 0
  BY DEF Skip
<1>8. ~IsOver(acc, want) => ~acc.stop /\ acc.filled < want
  BY <1>2 DEF IsOver
<1>9. ~IsOver(acc, want) /\ acc.base + run.length > from =>
        /\ usable > 0 =>
             \A p \in Int : acc.base + skip <= p /\ p < acc.base + skip + usable
                             => ReadableAt(file, p) \/ HoleAt(file, p)
        /\ usable = 0 /\ ~unread => run.there <= skip
        /\ usable > 0 /\ usable < take => run.there = skip + usable
        /\ \A p \in Int : acc.base <= p /\ p < acc.base + run.length /\ p - acc.base >= run.there
                           => ~ReadableAt(file, p)
  BY <1>1, <1>6, UsableIsThere DEF AtRun
<1>10. Covers(file, acc) /\ (~acc.unread => Misses(file, from, want, acc))
  BY DEF CopyInv
<1> HIDE DEF run, skip, take, usable, unread, next
<1>11. CASE IsOver(acc, want)
  <2>1. next = acc
    BY <1>4, <1>11 DEF CopyCases
  <2>2. CopyInv(file, from, want, next, k)
    BY <1>11, <2>1 DEF CopyInv, InOnePiece
  <2> QED
    BY <2>2 DEF next
<1>12. CASE ~IsOver(acc, want) /\ acc.base + run.length <= from
  <2>1. next = [acc EXCEPT !.base = @ + run.length]
    BY <1>4, <1>12 DEF CopyCases
  <2>2. /\ next.base = acc.base + run.length /\ next.filled = acc.filled /\ next.first = acc.first
        /\ next.skipped = acc.skipped /\ next.stop = acc.stop /\ next.unread = acc.unread
    BY <1>1, <2>1 DEF Buffers
  <2>3. acc.filled = 0
    BY <1>1, <1>2, <1>3, <1>6, <1>12
  <2>4. InOnePiece(file, from, want, next, k)
    BY <1>1, <1>2, <1>3, <1>5, <1>6, <1>12, <2>2, <2>3 DEF InOnePiece
  <2>5. Covers(file, next)
    BY <1>10, <2>2 DEF Covers
  <2>6. ASSUME ~next.unread PROVE Misses(file, from, want, next)
    <3>1. Accounted(from, want, acc.skipped, acc.base)
      BY <1>10, <2>2, <2>3, <2>6 DEF Misses
    <3>2. acc.skipped = 0
      BY <1>2, <1>3, <1>12, <3>1 DEF Accounted
    <3>3. NoneIn(file, from, next.base)
      BY <1>2, <1>3, <1>12, <2>2 DEF NoneIn
    <3>4. Accounted(from, want, next.skipped, next.base)
      BY <1>12, <2>2, <3>2 DEF Accounted
    <3> QED
      BY <1>1, <1>2, <2>2, <2>3, <3>3, <3>4 DEF Misses
  <2>7. CopyInv(file, from, want, next, k)
    BY <2>4, <2>5, <2>6 DEF CopyInv
  <2> QED
    BY <2>7 DEF next
<1>13. CASE ~IsOver(acc, want) /\ acc.base + run.length > from
  <2>1. /\ skip \in Nat /\ skip < run.length
        /\ take \in Nat /\ take > 0 /\ take <= run.length - skip /\ take <= want - acc.filled
        /\ take = run.length - skip \/ take = want - acc.filled
        /\ usable \in Nat /\ usable <= take
    BY <1>4, <1>13 DEF CopyCases
  <2>2. acc.filled > 0 => skip = 0 /\ acc.first + acc.filled = acc.base
    BY <1>1, <1>2, <1>6, <1>7, <1>13
  <2>3. acc.base + skip >= from
    BY <1>2, <1>7
  <2>4. CASE usable = 0 /\ acc.filled > 0
    <3>1. next = [acc EXCEPT !.stop = TRUE, !.unread = @ \/ unread]
      BY <1>4, <1>13, <2>4 DEF CopyCases
    <3>2. /\ next.base = acc.base /\ next.filled = acc.filled /\ next.first = acc.first
          /\ next.skipped = acc.skipped /\ next.stop = TRUE /\ next.unread = (acc.unread \/ unread)
      BY <1>1, <3>1 DEF Buffers
    <3>3. InOnePiece(file, from, want, next, k)
      BY <1>1, <1>5, <1>8, <1>13, <2>4, <3>2 DEF InOnePiece, IsOver
    <3>4. Covers(file, next)
      BY <1>10, <3>2 DEF Covers
    <3>5. ASSUME ~next.unread PROVE Misses(file, from, want, next)
      <4>1. ~acc.unread /\ ~unread
        BY <3>2, <3>5
      <4>2. run.there <= 0
        BY <1>9, <1>13, <2>2, <2>4, <4>1
      <4>3. ~ReadableAt(file, acc.base)
        <5>1. acc.base \in Int /\ acc.base <= acc.base /\ acc.base < acc.base + run.length
              /\ acc.base - acc.base >= run.there
          BY <1>2, <1>3, <4>2
        <5> QED
          BY <1>9, <1>13, <5>1
      <4>4. Misses(file, from, want, acc)
        BY <1>10, <4>1
      <4> QED
        BY <1>2, <2>2, <2>4, <3>2, <4>3, <4>4 DEF Misses
    <3>6. CopyInv(file, from, want, next, k)
      BY <3>3, <3>4, <3>5 DEF CopyInv
    <3> QED
      BY <3>6 DEF next
  <2>5. CASE usable = 0 /\ acc.filled = 0
    <3>1. next = [acc EXCEPT !.base = @ + run.length, !.skipped = @ + take, !.unread = @ \/ unread]
      BY <1>4, <1>13, <2>5 DEF CopyCases
    <3>2. /\ next.base = acc.base + run.length /\ next.filled = 0 /\ next.first = acc.first
          /\ next.skipped = acc.skipped + take /\ next.stop = acc.stop
          /\ next.unread = (acc.unread \/ unread)
      BY <1>1, <2>5, <3>1 DEF Buffers
    <3>3. InOnePiece(file, from, want, next, k)
      BY <1>1, <1>2, <1>3, <1>5, <1>6, <1>8, <1>13, <2>5, <3>2 DEF InOnePiece
    <3>4. Covers(file, next)
      BY <1>2, <3>2 DEF Covers
    <3>5. ASSUME ~next.unread PROVE Misses(file, from, want, next)
      <4>1. ~acc.unread /\ ~unread
        BY <3>2, <3>5
      <4>2. run.there <= skip
        BY <1>9, <1>13, <2>5, <4>1
      <4>3. NoneIn(file, from, acc.base) /\ Accounted(from, want, acc.skipped, acc.base)
        BY <1>10, <2>5, <4>1 DEF Misses
      <4>4. ASSUME NEW p \in Int, from <= p, p < next.base PROVE ~ReadableAt(file, p)
        <5>1. CASE p < acc.base
          BY <4>3, <4>4, <5>1 DEF NoneIn
        <5>2. CASE ~(p < acc.base)
          <6>1. acc.base <= p /\ p < acc.base + run.length
            BY <1>2, <1>3, <3>2, <4>4, <5>2
          <6>2. p - acc.base >= skip
            BY <1>2, <1>7, <4>4, <6>1
          <6>3. p - acc.base >= run.there
            BY <1>2, <1>3, <2>1, <4>2, <6>2
          <6> QED
            BY <1>9, <1>13, <6>1, <6>3
        <5> QED
          BY <5>1, <5>2
      <4>5. Accounted(from, want, next.skipped, next.base)
        <5>1. take = run.length - skip \/ take = want
          BY <2>1, <2>5
        <5>2. CASE acc.base <= from /\ acc.skipped = 0
          <6>1. acc.base + skip = from
            BY <1>2, <1>7, <5>2
          <6>2. next.skipped = take
            BY <2>1, <3>2, <5>2
          <6>3. take = run.length - skip => next.base = from + next.skipped
            <7>1. next.base = (acc.base + skip) + (run.length - skip)
              BY <1>2, <1>3, <2>1, <3>2
            <7> QED
              BY <6>1, <6>2, <7>1
          <6>4. next.base >= from + next.skipped
            <7>1. (acc.base + skip) + take <= acc.base + run.length
              BY <1>2, <1>3, <2>1, SMTT(30)
            <7> QED
              BY <3>2, <6>1, <6>2, <7>1
          <6>5. take = want => next.skipped >= want /\ next.base >= from + want
            BY <6>2, <6>4
          <6> QED
            BY <5>1, <6>3, <6>5 DEF Accounted
        <5>3. CASE acc.base = from + acc.skipped
          <6>1. skip = 0
            BY <1>2, <1>7, <5>3
          <6>2. take = run.length => next.base = from + next.skipped
            BY <1>2, <1>3, <2>1, <3>2, <5>3
          <6>3. take = want => next.skipped >= want /\ next.base >= from + want
            BY <1>2, <1>3, <2>1, <3>2, <5>3, <6>1, SMTT(30)
          <6> QED
            BY <1>3, <5>1, <6>1, <6>2, <6>3 DEF Accounted
        <5>4. CASE acc.skipped >= want /\ acc.base >= from + want
          <6>1. next.skipped >= want /\ next.base >= from + want
            BY <1>2, <1>3, <2>1, <3>2, <5>4, SMTT(30)
          <6> QED
            BY <6>1 DEF Accounted
        <5> QED
          BY <4>3, <5>2, <5>3, <5>4 DEF Accounted
      <4> QED
        BY <1>2, <1>8, <1>13, <3>2, <4>4, <4>5 DEF Misses, NoneIn
    <3>6. CopyInv(file, from, want, next, k)
      BY <3>3, <3>4, <3>5 DEF CopyInv
    <3> QED
      BY <3>6 DEF next
  <2>6. CASE usable > 0
    <3> DEFINE place == IF acc.filled = 0 THEN acc.base + skip ELSE acc.first
    <3>1. next = [acc EXCEPT !.base = @ + run.length, !.first = place,
                             !.filled = @ + usable, !.stop = usable < take]
      BY <1>4, <1>13, <2>6 DEF CopyCases
    <3>2. /\ next.base = acc.base + run.length /\ next.filled = acc.filled + usable
          /\ next.first = place /\ next.skipped = acc.skipped /\ next.stop = (usable < take)
          /\ next.unread = acc.unread
      BY <1>1, <3>1 DEF Buffers
    <3>3. place \in Nat /\ place >= from /\ place + acc.filled = acc.base + skip
      BY <1>1, <1>2, <2>1, <2>2, <2>3, SMTT(30)
    <3>4. acc.filled > 0 => place = acc.first
      BY <1>2
    <3>5. acc.filled = 0 => place = acc.base + skip
      OBVIOUS
    <3> HIDE DEF place
    <3>6. InOnePiece(file, from, want, next, k)
      <4>1. next.filled <= want /\ next.first >= from /\ next.filled > 0
        BY <1>2, <2>1, <2>6, <3>2, <3>3, SMTT(30)
      <4>2. ASSUME ~IsOver(next, want)
            PROVE  next.base = RunEnds(file)[k] /\ next.first + next.filled = next.base
        <5>1. ~(usable < take) /\ ~(next.filled >= want)
          BY <3>2, <4>2 DEF IsOver
        <5>2. usable = take /\ acc.filled + usable < want
          BY <1>2, <2>1, <3>2, <5>1
        <5>3. take = run.length - skip
          BY <1>2, <2>1, <5>2
        <5>4. next.base = RunEnds(file)[k]
          BY <1>3, <1>6, <1>13, <3>2
        <5>5. next.first + next.filled = (place + acc.filled) + (run.length - skip)
          BY <1>2, <1>3, <2>1, <3>2, <3>3, <5>2, <5>3
        <5>6. (acc.base + skip) + (run.length - skip) = acc.base + run.length
          BY <1>2, <1>3, <2>1
        <5> QED
          BY <3>2, <3>3, <5>4, <5>5, <5>6
      <4>3. ASSUME next.stop PROVE next.filled < want
        <5>1. usable < take
          BY <3>2, <4>3
        <5> QED
          BY <1>2, <2>1, <3>2, <5>1
      <4> QED
        BY <1>5, <4>1, <4>2, <4>3 DEF InOnePiece
    <3>7. Covers(file, next)
      <4>1. ASSUME NEW p \in Int, place <= p, p < place + (acc.filled + usable)
            PROVE  ReadableAt(file, p) \/ HoleAt(file, p)
        <5>1. CASE p < place + acc.filled
          <6>1. acc.first <= p /\ p < acc.first + acc.filled
            BY <1>2, <3>3, <3>4, <4>1, <5>1
          <6> QED
            BY <1>10, <6>1 DEF Covers
        <5>2. CASE ~(p < place + acc.filled)
          <6>1. acc.base + skip <= p /\ p < acc.base + skip + usable
            <7>1. acc.base + skip <= p
              BY <1>2, <2>1, <3>3, <5>2
            <7>2. p < (place + acc.filled) + usable
              BY <1>2, <2>1, <3>3, <4>1
            <7> QED
              BY <3>3, <7>1, <7>2
          <6> QED
            BY <1>9, <1>13, <2>6, <6>1
        <5> QED
          BY <5>1, <5>2
      <4> QED
        BY <3>2, <4>1 DEF Covers
    <3>8. ASSUME ~next.unread PROVE Misses(file, from, want, next)
      <4>1. Misses(file, from, want, acc)
        BY <1>10, <3>2, <3>8
      <4>2. ASSUME acc.filled = 0 PROVE NoneIn(file, from, place) /\ Accounted(from, want, acc.skipped, place)
        <5>1. NoneIn(file, from, acc.base) /\ Accounted(from, want, acc.skipped, acc.base)
          BY <4>1, <4>2 DEF Misses
        <5>2. \A p \in Int : from <= p /\ p < place => p < acc.base
          BY <1>2, <1>7, <2>1, <3>5, <4>2
        <5>3. NoneIn(file, from, place)
          BY <5>1, <5>2 DEF NoneIn
        <5>4. Accounted(from, want, acc.skipped, place)
          BY <1>2, <1>7, <2>1, <3>5, <4>2, <5>1, SMTT(30) DEF Accounted
        <5> QED
          BY <5>3, <5>4
      <4>3. acc.filled > 0 => NoneIn(file, from, place) /\ Accounted(from, want, acc.skipped, place)
        BY <3>4, <4>1 DEF Misses
      <4>4. NoneIn(file, from, next.first) /\ Accounted(from, want, next.skipped, next.first)
        BY <1>2, <3>2, <4>2, <4>3
      <4>5. ASSUME next.stop PROVE ~ReadableAt(file, next.first + next.filled)
        <5>1. run.there = skip + usable
          BY <1>9, <1>13, <2>6, <3>2, <4>5
        <5>2. next.first + next.filled = acc.base + skip + usable /\ skip + usable < run.length
          <6>1. usable < take
            BY <3>2, <4>5
          <6>2. next.first + next.filled = (place + acc.filled) + usable
            BY <1>2, <2>1, <3>2, <3>3
          <6>3. skip + usable < run.length
            BY <1>3, <2>1, <6>1
          <6> QED
            BY <3>3, <6>2, <6>3
        <5>3. /\ acc.base + skip + usable \in Int /\ acc.base <= acc.base + skip + usable
              /\ acc.base + skip + usable < acc.base + run.length
              /\ (acc.base + skip + usable) - acc.base >= run.there
          <6> DEFINE there == skip + usable
          <6>1. there \in Nat /\ there < run.length /\ run.there = there
            BY <2>1, <5>1, <5>2
          <6>2. acc.base + skip + usable = acc.base + there
            BY <1>2, <2>1
          <6> HIDE DEF there
          <6> QED
            BY <1>2, <1>3, <6>1, <6>2, SMTT(30)
        <5> QED
          BY <1>9, <1>13, <5>2, <5>3
      <4>6. next.filled > 0
        BY <1>2, <2>1, <2>6, <3>2
      <4> QED
        BY <4>4, <4>5, <4>6, <1>5 DEF Misses, Buffers
    <3>9. CopyInv(file, from, want, next, k)
      BY <3>6, <3>7, <3>8 DEF CopyInv
    <3> QED
      BY <3>9 DEF next
  <2> QED
    BY <1>2, <2>1, <2>4, <2>5, <2>6
<1> QED
  <2>1. acc.base + run.length <= from \/ acc.base + run.length > from
    BY <1>2, <1>3
  <2> QED
    BY <1>11, <1>12, <1>13, <2>1

LEMMA CopyRunsInv ==
    ASSUME NEW file, WellFormed(file), NEW from \in Nat, NEW want \in Nat, want > 0
    PROVE  CopyInv(file, from, want, CopyRuns(file, from, want)[Len(file.runs)], Len(file.runs))
<1> DEFINE n == Len(file.runs)
           copied == CopyRuns(file, from, want)
           S == {k \in 0..n : CopyInv(file, from, want, copied[k], k)}
<1>1. n \in Nat /\ RunEnds(file)[0] = 0
  BY FileFacts, RunFacts
<1>2. copied[0] = Nothing(from) /\ Nothing(from) \in Buffers
  BY CopyRunsFacts DEF Nothing, Buffers
<1>3. \A k \in 1..n : copied[k] = CopyRun(file, from, want, copied[k - 1], k)
  BY CopyRunsFacts
<1> HIDE DEF copied
<1>4. CopyInv(file, from, want, Nothing(from), 0)
  <2>1. InOnePiece(file, from, want, Nothing(from), 0)
    BY <1>1, <1>2 DEF InOnePiece, Nothing
  <2>2. Covers(file, Nothing(from))
    BY DEF Covers, Nothing
  <2>3. Misses(file, from, want, Nothing(from))
    <3>1. NoneIn(file, from, 0)
      BY DEF NoneIn
    <3>2. Accounted(from, want, 0, 0)
      BY DEF Accounted
    <3> QED
      BY <3>1, <3>2 DEF Misses, Nothing
  <2> QED
    BY <2>1, <2>2, <2>3 DEF CopyInv
<1>5. 0 \in S
  BY <1>1, <1>2, <1>4
<1>6. ASSUME NEW k \in 1..n, k - 1 \in S PROVE k \in S
  <2>1. k \in 0..n /\ CopyInv(file, from, want, copied[k - 1], k - 1)
    BY <1>1, <1>6
  <2>2. CopyInv(file, from, want, CopyRun(file, from, want, copied[k - 1], k), k)
    BY <2>1, CopyRunKeeps
  <2> QED
    BY <1>3, <2>1, <2>2
<1> HIDE DEF S
<1>7. n \in S
  <2>1. 0..n \subseteq S
    BY <1>1, <1>5, <1>6, AllUpTo
  <2> QED
    BY <1>1, <2>1
<1> QED
  BY <1>7 DEF S, copied

----------------------------------------------------------------------------
(* One window of the walk                                                  *)

Overlapped(query) == query.text <= query.length \/ query.text <= MinOverlap
Window(read) == [first |-> read.first, beyond |-> read.first + read.filled]

LEMMA SizesFacts ==
    /\ ChunkBytes \in Nat /\ ChunkBytes > 0 /\ MinOverlap \in Nat /\ MinOverlap > 0
    /\ \A query \in Queries : /\ query.length \in Nat /\ query.length > 0
                              /\ query.text \in Nat /\ query.text > 0
<1>1. \A query \in Queries : {query.length, query.text} \subseteq Nat \ {0}
  BY SearchAssumption
<1>2. {ChunkBytes, FlushBatch, MinOverlap} \subseteq Nat \ {0}
  BY SearchAssumption
<1> QED
  BY <1>1, <1>2

\* What a read says of its window, with what it asks for
LEMMA ReadFacts ==
    ASSUME NEW file, WellFormed(file), NEW from \in Nat, from < file.size,
           NEW query \in Queries, NEW read,
           read = ReadRange(file, from, ChunkBytes + Overlap(query))
    PROVE  /\ Overlap(query) \in Nat /\ Overlap(query) >= query.length /\ Overlap(query) >= MinOverlap
           /\ \E want \in Nat :
                /\ want > 0
                /\ want = ChunkBytes + Overlap(query) \/ want = file.size - from
                /\ want <= file.size - from
                /\ CopyInv(file, from, want, read, Len(file.runs))
<1> DEFINE most == ChunkBytes + Overlap(query)
           want == AtMost(most, file.size - from)
<1>1. /\ Overlap(query) \in Nat /\ Overlap(query) >= query.length /\ Overlap(query) >= MinOverlap
  BY SizesFacts DEF Overlap
<1>2. file.size \in Nat
  BY FileFacts
<1>3. most \in Nat /\ most > 0 /\ file.size - from \in Nat /\ file.size - from > 0
  BY <1>1, <1>2, SizesFacts
<1> HIDE DEF most
<1>4. /\ want \in Nat /\ want > 0 /\ want <= file.size - from
      /\ want = most \/ want = file.size - from
  BY <1>3, AtMostFacts
<1>5. read = CopyRuns(file, from, want)[Len(file.runs)]
  BY DEF ReadRange, most
<1> HIDE DEF want
<1>6. CopyInv(file, from, want, read, Len(file.runs))
  BY <1>4, <1>5, CopyRunsInv
<1> QED
  BY <1>1, <1>4, <1>6 DEF most

\* A text found in a window can be read.
LEMMA HitIsThere ==
    ASSUME NEW file, WellFormed(file), NEW from \in Nat, from < file.size,
           NEW query \in Queries, NEW read,
           read = ReadRange(file, from, ChunkBytes + Overlap(query)),
           Within(file, query, Window(read))
    PROVE  Readable(file, query)
<1>1. PICK want \in Nat : CopyInv(file, from, want, read, Len(file.runs))
  BY ReadFacts
<1>2. Covers(file, read) /\ read \in Buffers
  BY <1>1 DEF CopyInv, InOnePiece
<1>3. read.first \in Nat /\ read.filled \in Nat
  BY <1>2 DEF Buffers
<1>4. file.at \in Nat /\ file.letters \in Nat /\ query.text \in Nat /\ DOMAIN file.runs = 1..Len(file.runs)
  BY FileFacts, SizesFacts
<1>5. /\ query.text <= file.letters /\ file.at >= read.first
      /\ file.at + query.text <= read.first + read.filled
  BY DEF Within, Window
<1>6. ASSUME NEW p \in file.at..(file.at + query.text - 1) PROVE ReadableAt(file, p)
  <2>1. p \in Int /\ read.first <= p /\ p < read.first + read.filled
    BY <1>3, <1>4, <1>5
  <2>2. p \in file.at..(file.at + file.letters - 1)
    BY <1>4, <1>5
  <2>3. ~HoleAt(file, p)
    <3>1. ASSUME NEW k \in DOMAIN file.runs, file.runs[k].there = Hole PROVE ~InRun(file, k, p)
      BY <2>2, <3>1 DEF WellFormed
    <3> QED
      BY <3>1 DEF HoleAt
  <2> QED
    BY <1>2, <2>1, <2>3 DEF Covers
<1> QED
  BY <1>6 DEF Readable

\* A text that begins before the next window is whole in this one, unless
\* something did not read.
LEMMA TextIsMet ==
    ASSUME NEW file, WellFormed(file), NEW from \in Nat, from < file.size,
           NEW query \in Queries, Overlapped(query), NEW read,
           read = ReadRange(file, from, ChunkBytes + Overlap(query)),
           ~read.unread, Holds(file, query), from <= file.at, file.at < NextOffset(from, read)
    PROVE  read.filled > 0 /\ Within(file, query, Window(read))
<1> DEFINE at == file.at
           text == query.text
           first == read.first
           filled == read.filled
           skipped == read.skipped
           overlap == Overlap(query)
           end == RunEnds(file)[Len(file.runs)]
<1>1. PICK want \in Nat :
        /\ want > 0
        /\ want = ChunkBytes + overlap \/ want = file.size - from
        /\ want <= file.size - from /\ CopyInv(file, from, want, read, Len(file.runs))
  BY ReadFacts
<1>2. /\ at \in Nat /\ file.size \in Nat /\ text \in Nat /\ text > 0 /\ ChunkBytes \in Nat
      /\ overlap \in Nat /\ text <= overlap
  <2>1. text <= query.length \/ text <= MinOverlap
    BY DEF Overlapped
  <2> QED
    BY <2>1, FileFacts, SizesFacts, ReadFacts
<1>3. /\ text <= file.letters /\ at + text <= file.size
      /\ \A p \in at..(at + text - 1) : ReadableAt(file, p)
  BY DEF Holds, Within, Readable
<1>4. /\ read \in Buffers /\ filled <= want /\ first >= from
      /\ read.stop => filled > 0 /\ filled < want
      /\ ~IsOver(read, want) => read.base = end /\ (filled > 0 => first + filled = read.base)
      /\ Misses(file, from, want, read)
  BY <1>1 DEF CopyInv, InOnePiece
<1>5. /\ first \in Nat /\ filled \in Nat /\ skipped \in Nat /\ read.base \in Nat /\ read.stop \in BOOLEAN
  BY <1>4 DEF Buffers
<1>6. NextOffset(from, read) = IF filled = 0 \/ skipped + filled >= ChunkBytes THEN from + ChunkBytes
                               ELSE from + (skipped + filled)
  BY DEF NextOffset, Consumed
<1>7. ASSUME NEW p \in Int, ReadableAt(file, p) PROVE p < end
  <2>1. PICK k \in DOMAIN file.runs : p - RunEnds(file)[k - 1] < file.runs[k].there
    BY <1>7 DEF ReadableAt
  <2>4. k \in 1..Len(file.runs)
    BY FileFacts
  <2>2. /\ RunEnds(file)[k - 1] \in Nat /\ RunEnds(file)[k] = RunEnds(file)[k - 1] + file.runs[k].length
        /\ file.runs[k].length \in Nat /\ file.runs[k].there \in Int
        /\ file.runs[k].there <= file.runs[k].length
    BY <2>4, RunBounds
  <2>3. RunEnds(file)[k] <= end /\ end \in Nat
    <3>1. k \in 0..Len(file.runs) /\ Len(file.runs) \in 0..Len(file.runs) /\ k <= Len(file.runs)
      BY <2>4, FileFacts
    <3> QED
      BY <3>1, RunFacts
  <2> HIDE DEF end
  <2> QED
    BY <2>1, <2>2, <2>3
<1>8. at \in Int /\ ReadableAt(file, at)
  BY <1>2, <1>3
<1> HIDE DEF at, text, first, filled, skipped, overlap, end
<1>9. filled > 0
  <2> SUFFICES ASSUME filled = 0 PROVE FALSE
    BY <1>5
  <2>1. ~IsOver(read, want)
    BY <1>1, <1>4 DEF IsOver, filled
  <2>2. NoneIn(file, from, read.base) /\ read.base = end
    BY <1>4, <2>1 DEF Misses, filled
  <2>3. at < end
    BY <1>7, <1>8
  <2> QED
    BY <1>8, <2>2, <2>3 DEF NoneIn, at
<1>10. NoneIn(file, from, first) /\ Accounted(from, want, skipped, first)
  BY <1>4, <1>9 DEF Misses, filled, first, skipped
<1>11. at >= first
  BY <1>2, <1>5, <1>8, <1>10 DEF NoneIn, at
<1>12. at < first + filled
  <2> SUFFICES ASSUME at >= first + filled PROVE FALSE
    BY <1>2, <1>5
  <2>1. at < from + ChunkBytes /\ (skipped + filled < ChunkBytes => at < from + (skipped + filled))
    BY <1>2, <1>5, <1>6, <1>9 DEF at
  <2>2. first = from + skipped \/ (skipped >= want /\ first >= from + want)
    BY <1>4, <1>5, <1>10 DEF Accounted, first
  <2>3. ~(first = from + skipped)
    BY <1>2, <1>5, <1>9, <2>1
  <2>4. at >= from + want
    BY <1>2, <1>5, <2>2, <2>3
  <2>5. want = ChunkBytes + overlap
    BY <1>1, <1>2, <1>3, <2>4 DEF overlap
  <2> QED
    BY <1>2, <2>1, <2>4, <2>5
<1>13. at + text <= first + filled
  <2> SUFFICES ASSUME first + filled < at + text PROVE FALSE
    BY <1>2, <1>5
  <2>1. ReadableAt(file, first + filled)
    <3>1. first + filled \in at..(at + text - 1)
      BY <1>2, <1>5, <1>12
    <3> QED
      BY <1>3, <3>1
  <2>2. CASE read.stop
    BY <1>4, <2>1, <2>2 DEF Misses, first, filled
  <2>3. CASE filled >= want
    <3>1. first + filled >= from + want
      BY <1>4, <1>5, <2>3
    <3>2. CASE want = file.size - from
      BY <1>2, <1>3, <1>5, <3>1, <3>2
    <3>3. CASE want = ChunkBytes + overlap
      <4>1. at < from + ChunkBytes
        <5>1. skipped + filled >= ChunkBytes
          BY <1>2, <1>5, <2>3, <3>3
        <5> QED
          BY <1>6, <5>1 DEF at
      <4> QED
        BY <1>2, <1>5, <3>1, <3>3, <4>1
    <3> QED
      BY <1>1, <3>2, <3>3
  <2>4. CASE ~read.stop /\ ~(filled >= want)
    <3>1. ~IsOver(read, want)
      BY <2>4 DEF IsOver, filled
    <3>2. first + filled = end
      BY <1>4, <1>9, <3>1
    <3>3. first + filled < end
      BY <1>5, <1>7, <2>1
    <3> QED
      BY <1>5, <3>2, <3>3
  <2> QED
    BY <2>2, <2>3, <2>4
<1> QED
  BY <1>3, <1>9, <1>11, <1>13 DEF Within, Window, at, text, first, filled

----------------------------------------------------------------------------
(* The invariant of the searches                                           *)

Walking == search.pc \in {"walk", "flush"}

IsSearch ==
    search = [pc |-> search.pc, query |-> search.query, file |-> search.file,
                 offset |-> search.offset, hit |-> search.hit, pending |-> search.pending,
                 flushed |-> search.flushed, unread |-> search.unread, found |-> search.found,
                 skipped |-> search.skipped, fts |-> search.fts, status |-> search.status]

SearchType ==
    /\ disk \in Volumes
    /\ contentUnread \in BOOLEAN /\ running \in BOOLEAN
    /\ IsSearch
    /\ search.pc \in {"idle", "ended", "walk", "flush", "fts"}
    /\ Walking => search.query \in Queries /\ ~search.fts
    /\ search.file \in Nat /\ search.file > 0 /\ search.offset \in Nat
    /\ search.hit \in BOOLEAN /\ search.unread \in BOOLEAN
    /\ search.found \subseteq FileIds
    /\ search.pc = "fts" => search.fts
    /\ search.pc = "flush" => search.file \in FileIds

\* What a walk has behind it, it found, and what it found is there.
FilesMet ==
    Walking /\ running /\ ~search.unread /\ Overlapped(search.query) =>
      \A f \in FileIds : Holds(disk[f], search.query) =>
        /\ f < search.file => f \in search.found \/ PassedOver(f)
        /\ f = search.file /\ disk[f].at < search.offset => search.hit
FoundThere ==
    /\ ~search.fts => \A f \in search.found : Readable(disk[f], search.query)
    /\ Walking /\ search.hit => search.file \in FileIds /\ Readable(disk[search.file], search.query)

UnreadNoted == (unreadEver => contentUnread) /\ (Complete => ~contentUnread)

SearchInv == SearchType /\ FilesMet /\ FoundThere /\ UnreadNoted /\ WalkMissesNone

----------------------------------------------------------------------------
(* It holds                                                                *)

LEMMA DiskFacts ==
    ASSUME SearchType
    PROVE  /\ Len(disk) \in Nat /\ FileIds = 1..Len(disk)
           /\ \A f \in FileIds : WellFormed(disk[f])
<1>1. disk \in Seq(Range(disk)) /\ \A f \in DOMAIN disk : WellFormed(disk[f])
  BY SearchAssumption DEF SearchType
<1> QED
  BY <1>1 DEF FileIds

LEMMA StatusesApart ==
    /\ Statuses.complete = 1
    /\ \A s \in {Statuses.stopped, Statuses.openFailed, Statuses.tooLong, Statuses.rejected,
                  Statuses.incomplete, 0} : s # Statuses.complete
  BY DEF Statuses

LEMMA SearchStarts == SearchInit => SearchInv
<1> SUFFICES ASSUME SearchInit PROVE SearchInv
  OBVIOUS
<1>1. SearchType
  <2>1. /\ search.pc = "idle" /\ search.file = 1 /\ search.offset = 0 /\ search.hit = FALSE
        /\ search.unread = FALSE /\ search.found = {}
        /\ disk \in Volumes /\ contentUnread = FALSE /\ running = FALSE
    BY DEF SearchInit
  <2>2. IsSearch
    BY DEF SearchInit, IsSearch
  <2>3. search.file \in Nat /\ search.file > 0 /\ search.offset \in Nat
    BY <2>1
  <2>4. search.found \subseteq FileIds /\ search.pc \notin {"walk", "flush", "fts"}
    BY <2>1
  <2>5. /\ search.hit \in BOOLEAN /\ search.unread \in BOOLEAN
        /\ contentUnread \in BOOLEAN /\ running \in BOOLEAN
    BY Zenon DEF SearchInit
  <2> QED
    BY <2>1, <2>2, <2>3, <2>4, <2>5 DEF SearchType, Walking
<1>2. ~Walking /\ ~Complete /\ search.found = {}
  BY DEF SearchInit, Walking, Complete
<1> QED
  BY <1>1, <1>2 DEF SearchInv, FilesMet, FoundThere, UnreadNoted, WalkMissesNone, SearchInit

\* Nothing but a walk, an answer of the index or a start says that a search ended.
LEMMA StartKeeps == ASSUME SearchInv, StartSearch PROVE SearchInv'
<1>1. SearchType
  BY DEF SearchInv
<1>2. /\ search.pc \in {"idle", "ended"}
      /\ UNCHANGED <<disk, stored, contentUnread, unreadEver>>
  BY DEF StartSearch
<1>3. PICK query \in Queries, pc \in {"ended", "walk", "fts"}, fts \in BOOLEAN, status \in Nat :
        /\ search' = [pc |-> pc, query |-> query, file |-> 1, offset |-> 0, hit |-> FALSE,
                      pending |-> <<>>, flushed |-> FALSE, unread |-> FALSE, found |-> {},
                      skipped |-> {}, fts |-> fts, status |-> status]
        /\ running' \in {running, FALSE, TRUE}
        /\ pc = "walk" => ~fts
        /\ pc = "fts" => fts
        /\ pc = "ended" => status # Statuses.complete
  <2>1. PICK query \in Queries :
          LET fresh == [pc |-> "ended", query |-> query, file |-> 1, offset |-> 0, hit |-> FALSE,
                        pending |-> <<>>, flushed |-> FALSE, unread |-> FALSE, found |-> {},
                        skipped |-> {}, fts |-> FALSE, status |-> Refusal(query)]
          IN  \/ /\ Refusal(query) # 0
                 /\ search' = fresh /\ UNCHANGED running
              \/ /\ Refusal(query) = 0
                 /\ search' = [fresh EXCEPT !.status = Statuses.openFailed]
                 /\ running' = FALSE
              \/ /\ Refusal(query) = 0
                 /\ LET fts == ~query.regex /\ IndexComplete /\ query.length <= MinOverlap
                    IN  search' = [fresh EXCEPT !.pc = IF fts THEN "fts" ELSE "walk", !.fts = fts]
                 /\ running' = TRUE
    BY Zenon DEF StartSearch
  <2>2. /\ Refusal(query) \in Nat /\ Statuses.openFailed \in Nat
        /\ Refusal(query) # 0 => Refusal(query) # Statuses.complete
    BY StatusesApart DEF Refusal, Statuses
  <2> DEFINE fts == ~query.regex /\ IndexComplete /\ query.length <= MinOverlap
  <2>3. fts \in BOOLEAN
    OBVIOUS
  <2> HIDE DEF fts
  <2>4. CASE Refusal(query) # 0 /\ search' = [pc |-> "ended", query |-> query, file |-> 1, offset |-> 0,
                hit |-> FALSE, pending |-> <<>>, flushed |-> FALSE, unread |-> FALSE, found |-> {},
                skipped |-> {}, fts |-> FALSE, status |-> Refusal(query)] /\ UNCHANGED running
    BY <2>2, <2>4
  <2>5. CASE search' = [pc |-> "ended", query |-> query, file |-> 1, offset |-> 0,
                hit |-> FALSE, pending |-> <<>>, flushed |-> FALSE, unread |-> FALSE, found |-> {},
                skipped |-> {}, fts |-> FALSE, status |-> Statuses.openFailed] /\ running' = FALSE
    BY <2>2, <2>5, StatusesApart
  <2>6. CASE search' = [pc |-> IF fts THEN "fts" ELSE "walk", query |-> query, file |-> 1, offset |-> 0,
                hit |-> FALSE, pending |-> <<>>, flushed |-> FALSE, unread |-> FALSE, found |-> {},
                skipped |-> {}, fts |-> fts, status |-> Refusal(query)] /\ running' = TRUE
    BY <2>2, <2>3, <2>6
  <2> QED
    BY <2>1, <2>4, <2>5, <2>6, ZenonT(30) DEF fts
<1>4. SearchType'
  <2>1. /\ search'.pc = pc /\ search'.query = query /\ search'.file = 1 /\ search'.offset = 0
        /\ search'.hit = FALSE /\ search'.unread = FALSE /\ search'.found = {} /\ search'.fts = fts
    BY <1>3
  <2>2. IsSearch'
    BY <1>3 DEF IsSearch
  <2>3. disk' \in Volumes /\ contentUnread' \in BOOLEAN /\ running' \in BOOLEAN
    BY <1>1, <1>2, <1>3 DEF SearchType
  <2>4. pc \in {"idle", "ended", "walk", "flush", "fts"} /\ pc # "flush"
    BY <1>3
  <2>5. pc = "fts" => search'.fts
    BY <1>3, <2>1
  <2>6. Walking' => search'.query \in Queries /\ ~search'.fts
    BY <1>3, <2>1, <2>4 DEF Walking
  <2>7. search'.file \in Nat /\ search'.file > 0 /\ search'.offset \in Nat
    BY <2>1
  <2>8. search'.found \subseteq FileIds'
    BY <2>1
  <2>9. search'.hit \in BOOLEAN /\ search'.unread \in BOOLEAN
    BY Zenon, <1>3
  <2> QED
    BY <2>1, <2>2, <2>3, <2>4, <2>5, <2>6, <2>7, <2>8, <2>9 DEF SearchType
<1>5. ~search'.hit /\ search'.found = {} /\ search'.file = 1 /\ search'.offset = 0
  BY <1>3
<1>6. ~Complete'
  BY <1>3 DEF Complete
<1>7. FilesMet'
  <2>1. \A f \in FileIds' : ~(f < 1) /\ ~(disk[f].at < 0)
    BY <1>1, <1>2, DiskFacts, FileFacts DEF FileIds
  <2> QED
    BY <1>2, <1>5, <2>1 DEF FilesMet
<1>8. FoundThere'
  BY <1>5 DEF FoundThere
<1> QED
  BY <1>2, <1>4, <1>6, <1>7, <1>8 DEF SearchInv, UnreadNoted, WalkMissesNone

LEMMA StopKeepsSearch == ASSUME SearchInv, StopSearch \/ UNCHANGED searchVars PROVE SearchInv'
<1>1. /\ UNCHANGED <<disk, contentUnread, search, unreadEver>>
      /\ running' \in BOOLEAN /\ (running' => running)
  <2>1. running \in BOOLEAN
    BY DEF SearchInv, SearchType
  <2>2. CASE StopSearch
    BY <2>1, <2>2 DEF StopSearch
  <2>3. CASE UNCHANGED searchVars
    BY <2>1, <2>3 DEF searchVars
  <2> QED
    BY <2>2, <2>3
<1>2. SearchType'
  <2>1. IsSearch'
    BY <1>1 DEF SearchInv, SearchType, IsSearch
  <2> QED
    BY <1>1, <2>1 DEF SearchInv, SearchType, Walking, FileIds
<1> QED
  BY <1>1, <1>2 DEF SearchInv, FilesMet, FoundThere, UnreadNoted, WalkMissesNone, Walking,
              Complete, PassedOver, FileIds

LEMMA FtsKeeps == ASSUME SearchInv, FtsAnswers PROVE SearchInv'
<1>1. SearchType /\ search.pc = "fts" /\ search.fts
  BY DEF SearchInv, SearchType, FtsAnswers
<1>2. PICK ids \in SUBSET FileIds :
        search' = [search EXCEPT !.pc = "ended", !.found = ids, !.status = Outcome(FtsStatus)]
  BY DEF FtsAnswers
<1>3. running' = FALSE /\ UNCHANGED <<disk, contentUnread, unreadEver>>
  BY DEF FtsAnswers
<1>4. /\ search'.pc = "ended" /\ search'.fts = search.fts /\ search'.query = search.query
      /\ search'.found = ids /\ search'.status = Outcome(FtsStatus)
      /\ search'.file = search.file /\ search'.offset = search.offset
      /\ search'.hit = search.hit /\ search'.unread = search.unread
      /\ search'.skipped = search.skipped
  BY <1>1, <1>2 DEF SearchType, IsSearch
<1>5. SearchType'
  <2>1. IsSearch'
    BY <1>1, <1>2 DEF SearchType, IsSearch
  <2> QED
    BY <1>1, <1>3, <1>4, <2>1 DEF SearchType, Walking, FileIds
<1>6. Complete' => ~contentUnread
  BY <1>4 DEF Complete, Outcome, FtsStatus, Statuses
<1> QED
  BY <1>1, <1>3, <1>4, <1>5, <1>6
     DEF SearchInv, FilesMet, FoundThere, UnreadNoted, WalkMissesNone, Walking

\* One window: what begins in it is found in it.
LEMMA WindowKeeps == ASSUME SearchInv, ReadWindow PROVE SearchInv'
<1> DEFINE file == disk[search.file]
           query == search.query
           read == ReadRange(file, search.offset, ChunkBytes + Overlap(query))
           kept == IF read.filled = 0 THEN search.pending ELSE Append(search.pending, Window(read))
           next == NextOffset(search.offset, read)
           hit == read.filled > 0 /\ Within(file, query, Window(read))
           pc == IF Len(kept) >= FlushBatch THEN "flush" ELSE search.pc
<1>1. /\ SearchType /\ search.pc = "walk" /\ running /\ ~search.fts /\ query \in Queries
      /\ search.file \in FileIds /\ search.offset < file.size /\ search.offset \in Nat
      /\ search.hit \in BOOLEAN /\ search.unread \in BOOLEAN
  BY DEF SearchInv, SearchType, ReadWindow, Walking
<1>2. WellFormed(file)
  BY <1>1, DiskFacts
<1>3. /\ search' = [search EXCEPT !.offset = next, !.unread = @ \/ read.unread,
                                  !.hit = @ \/ hit, !.pending = kept, !.pc = pc]
      /\ UNCHANGED <<disk, contentUnread, running, unreadEver>>
  BY ZenonT(30) DEF ReadWindow, Window
<1>4. read.filled \in Nat /\ read.skipped \in Nat /\ read.unread \in BOOLEAN
  <2>1. PICK want \in Nat : CopyInv(file, search.offset, want, read, Len(file.runs))
    BY <1>1, <1>2, ReadFacts
  <2> QED
    BY <2>1 DEF CopyInv, InOnePiece, Buffers
<1>5. ASSUME hit PROVE Readable(file, query)
  BY <1>1, <1>2, <1>5, HitIsThere
<1>6. ASSUME ~read.unread, Overlapped(query), Holds(file, query),
             search.offset <= file.at, file.at < next
      PROVE  hit
  BY <1>1, <1>2, <1>6, TextIsMet
<1>7. next \in Nat /\ hit \in BOOLEAN /\ pc \in {"walk", "flush"}
  BY <1>1, <1>4, SizesFacts DEF NextOffset, Consumed
<1>8. file.at \in Nat
  BY <1>2, FileFacts
<1> HIDE DEF read, kept, next, hit, pc
<1>9. /\ search'.pc = pc /\ search'.query = query /\ search'.file = search.file
      /\ search'.offset = next /\ search'.hit = (search.hit \/ hit)
      /\ search'.unread = (search.unread \/ read.unread)
      /\ search'.found = search.found /\ search'.fts = search.fts /\ search'.status = search.status
      /\ search'.skipped = search.skipped
  BY <1>1, <1>3 DEF SearchType, IsSearch
<1>10. SearchType'
  <2>1. IsSearch'
    BY <1>1, <1>3 DEF SearchType, IsSearch
  <2> QED
    BY <1>1, <1>3, <1>4, <1>7, <1>9, <2>1 DEF SearchType, Walking, FileIds
<1>11. FilesMet'
  <2> SUFFICES ASSUME ~search.unread, ~read.unread, Overlapped(query),
                      NEW f \in FileIds, Holds(disk[f], query)
               PROVE  /\ f < search.file => f \in search.found \/ PassedOver(f)
                      /\ f = search.file /\ disk[f].at < next => search.hit \/ hit
    BY <1>3, <1>9 DEF FilesMet, PassedOver, FileIds
  <2>1. /\ f < search.file => f \in search.found \/ PassedOver(f)
        /\ f = search.file /\ disk[f].at < search.offset => search.hit
    BY <1>1 DEF SearchInv, FilesMet, Walking
  <2>2. search.offset <= file.at \/ file.at < search.offset
    BY <1>1, <1>8
  <2> QED
    BY <1>6, <2>1, <2>2
<1>12. FoundThere'
  <2>1. \A f \in search.found : Readable(disk[f], query)
    BY <1>1 DEF SearchInv, FoundThere
  <2>2. search.hit => Readable(file, query)
    BY <1>1 DEF SearchInv, FoundThere, Walking
  <2> QED
    BY <1>1, <1>3, <1>5, <1>9, <2>1, <2>2 DEF FoundThere, FileIds
<1>13. ~Complete' /\ UnreadNoted'
  BY <1>3, <1>7, <1>9 DEF SearchInv, UnreadNoted, Complete
<1> QED
  BY <1>10, <1>11, <1>12, <1>13 DEF SearchInv, WalkMissesNone

LEMMA FlushKeeps == ASSUME SearchInv, Flush PROVE SearchInv'
<1>1. /\ SearchType /\ search.pc = "flush" /\ ~search.fts
      /\ search' = [search EXCEPT !.pc = "walk", !.pending = <<>>, !.flushed = TRUE]
      /\ UNCHANGED <<disk, contentUnread, running, unreadEver>>
  BY DEF SearchInv, SearchType, Flush, Walking
<1>2. /\ search'.pc = "walk" /\ search'.query = search.query /\ search'.file = search.file
      /\ search'.offset = search.offset /\ search'.hit = search.hit
      /\ search'.unread = search.unread /\ search'.found = search.found
      /\ search'.fts = search.fts /\ search'.status = search.status
      /\ search'.skipped = search.skipped
  BY <1>1 DEF SearchType, IsSearch
<1>3. SearchType'
  <2>1. IsSearch'
    BY <1>1 DEF SearchType, IsSearch
  <2> QED
    BY <1>1, <1>2, <2>1 DEF SearchType, Walking, FileIds
<1>4. FilesMet' /\ FoundThere'
  BY <1>1, <1>2 DEF SearchInv, FilesMet, FoundThere, PassedOver, Walking, FileIds
<1> QED
  BY <1>1, <1>2, <1>3, <1>4 DEF SearchInv, UnreadNoted, Complete, WalkMissesNone

\* The end of a file: it was read to its end, or the search was asked to stop.
LEMMA EndFileKeeps == ASSUME SearchInv, EndFile PROVE SearchInv'
<1>1. /\ SearchType /\ search.pc = "walk" /\ ~search.fts /\ search.file \in FileIds
      /\ search.offset >= disk[search.file].size \/ ~running
      /\ search' = [search EXCEPT
             !.found = IF search.hit THEN @ \cup {search.file} ELSE @,
             !.file = IF running THEN @ + 1 ELSE Len(disk) + 1,
             !.offset = 0, !.hit = FALSE, !.pending = <<>>, !.flushed = FALSE]
      /\ UNCHANGED <<disk, contentUnread, running, unreadEver>>
  BY DEF SearchInv, SearchType, EndFile, Walking
<1>2. /\ search'.pc = "walk" /\ search'.query = search.query
      /\ search'.file = (IF running THEN search.file + 1 ELSE Len(disk) + 1)
      /\ search'.offset = 0 /\ search'.hit = FALSE /\ search'.unread = search.unread
      /\ search'.found = (IF search.hit THEN search.found \cup {search.file} ELSE search.found)
      /\ search'.fts = search.fts /\ search'.status = search.status
      /\ search'.skipped = search.skipped
  BY <1>1 DEF SearchType, IsSearch
<1>3. Len(disk) \in Nat /\ FileIds = 1..Len(disk) /\ \A f \in FileIds : WellFormed(disk[f])
  BY <1>1, DiskFacts
<1>4. SearchType'
  <2>1. IsSearch'
    BY <1>1 DEF SearchType, IsSearch
  <2>2. search'.file \in Nat /\ search'.found \subseteq FileIds
    BY <1>1, <1>2, <1>3 DEF SearchType
  <2> QED
    BY <1>1, <1>2, <2>1, <2>2 DEF SearchType, Walking, FileIds
<1>5. FilesMet'
  <2> SUFFICES ASSUME running, ~search.unread, Overlapped(search.query),
                      NEW f \in FileIds, Holds(disk[f], search.query)
               PROVE  /\ f < search.file + 1 => f \in search'.found \/ PassedOver(f)
                      /\ ~(disk[f].at < 0)
    BY <1>1, <1>2 DEF FilesMet, PassedOver, FileIds
  <2>1. /\ f < search.file => f \in search.found \/ PassedOver(f)
        /\ f = search.file /\ disk[f].at < search.offset => search.hit
    BY <1>1 DEF SearchInv, FilesMet, Walking
  <2>2. disk[f].at \in Nat /\ disk[f].size \in Nat
    BY <1>3, FileFacts
  <2>3. f = search.file => disk[f].at < search.offset
    <3>1. disk[f].at + search.query.text <= disk[f].size
      BY DEF Holds, Within
    <3>2. search.query.text \in Nat /\ search.query.text > 0 /\ search.offset \in Nat
      BY <1>1, SizesFacts DEF SearchType, Walking
    <3> QED
      BY <1>1, <2>2, <3>1, <3>2
  <2>4. f < search.file + 1 => f < search.file \/ f = search.file
    BY <1>1, <1>3
  <2> QED
    BY <1>2, <2>1, <2>2, <2>3, <2>4
<1>6. FoundThere'
  BY <1>1, <1>2 DEF SearchInv, FoundThere, Walking, FileIds
<1> QED
  BY <1>1, <1>2, <1>4, <1>5, <1>6 DEF SearchInv, UnreadNoted, Complete, WalkMissesNone

\* A file that is passed over is behind the walk and on its list.
LEMMA SkipKeeps == ASSUME SearchInv, SkipFile PROVE SearchInv'
<1>1. /\ SearchType /\ search.pc = "walk" /\ ~search.fts /\ search.file \in FileIds
      /\ search.offset = 0 /\ disk[search.file].source # "disk"
      /\ search' = [search EXCEPT !.file = @ + 1, !.hit = FALSE,
                                  !.skipped = @ \cup {search.file}]
      /\ UNCHANGED <<disk, contentUnread, running, unreadEver>>
  BY DEF SearchInv, SearchType, SkipFile, Walking
<1>2. /\ search'.pc = "walk" /\ search'.query = search.query /\ search'.file = search.file + 1
      /\ search'.offset = 0 /\ search'.hit = FALSE /\ search'.unread = search.unread
      /\ search'.found = search.found /\ search'.fts = search.fts
      /\ search'.status = search.status
      /\ search'.skipped = search.skipped \cup {search.file}
  BY <1>1 DEF SearchType, IsSearch
<1>3. Len(disk) \in Nat /\ FileIds = 1..Len(disk) /\ \A f \in FileIds : WellFormed(disk[f])
  BY <1>1, DiskFacts
<1>4. SearchType'
  <2>1. IsSearch'
    BY <1>1 DEF SearchType, IsSearch
  <2> QED
    BY <1>1, <1>2, <1>3, <2>1 DEF SearchType, Walking, FileIds
<1>5. FilesMet'
  <2> SUFFICES ASSUME running, ~search.unread, Overlapped(search.query),
                      NEW f \in FileIds, Holds(disk[f], search.query)
               PROVE  /\ f < search.file + 1 => f \in search.found \/ PassedOver(f)'
                      /\ ~(disk[f].at < 0)
    BY <1>1, <1>2 DEF FilesMet, PassedOver, FileIds
  <2>1. f < search.file => f \in search.found \/ PassedOver(f)
    BY <1>1 DEF SearchInv, FilesMet, Walking
  <2>2. PassedOver(f) => PassedOver(f)'
    BY <1>1, <1>2 DEF PassedOver
  <2>3. f = search.file => PassedOver(f)'
    BY <1>1, <1>2 DEF PassedOver
  <2>4. f < search.file + 1 => f < search.file \/ f = search.file
    BY <1>1, <1>3
  <2>5. disk[f].at \in Nat
    BY <1>3, FileFacts
  <2> QED
    BY <2>1, <2>2, <2>3, <2>4, <2>5
<1>6. FoundThere'
  BY <1>1, <1>2 DEF SearchInv, FoundThere, Walking, FileIds
<1> QED
  BY <1>1, <1>2, <1>4, <1>5, <1>6 DEF SearchInv, UnreadNoted, Complete, WalkMissesNone

\* The end of a walk that was not stopped and read everything
LEMMA EndWalkKeeps == ASSUME SearchInv, EndWalk PROVE SearchInv'
<1> DEFINE status == Outcome(IF contentUnread' THEN Statuses.incomplete ELSE Statuses.complete)
<1>1. /\ SearchType /\ search.pc = "walk" /\ ~search.fts /\ search.file \notin FileIds
      /\ contentUnread' = (contentUnread \/ search.unread)
      /\ unreadEver' = (unreadEver \/ search.unread)
      /\ search' = [search EXCEPT !.pc = "ended", !.status = status]
      /\ running' = FALSE /\ UNCHANGED disk
  BY DEF SearchInv, SearchType, EndWalk, Walking
<1>2. status = Statuses.complete => running /\ ~contentUnread'
  BY DEF Outcome, Statuses
<1> HIDE DEF status
<1>3. /\ search'.pc = "ended" /\ search'.query = search.query /\ search'.found = search.found
      /\ search'.fts = search.fts /\ search'.status = status /\ search'.file = search.file
      /\ search'.offset = search.offset /\ search'.hit = search.hit /\ search'.unread = search.unread
      /\ search'.skipped = search.skipped
  BY <1>1 DEF SearchType, IsSearch
<1>4. SearchType'
  <2>1. IsSearch'
    BY <1>1 DEF SearchType, IsSearch
  <2> QED
    BY <1>1, <1>3, <2>1 DEF SearchType, Walking, FileIds
<1>5. FoundThere' /\ FilesMet'
  BY <1>1, <1>3 DEF SearchInv, FoundThere, FilesMet, PassedOver, Walking, FileIds
<1>6. UnreadNoted'
  BY <1>1, <1>2, <1>3 DEF SearchInv, SearchType, UnreadNoted, Complete
<1>7. ASSUME Complete', Overlapped(search.query), NEW f \in FileIds, Holds(disk[f], search.query)
      PROVE  f \in search.found \/ PassedOver(f)
  <2>1. running /\ ~search.unread
    BY <1>1, <1>2, <1>3, <1>7 DEF Complete, SearchType
  <2>2. f < search.file
    BY <1>1, DiskFacts DEF SearchType
  <2> QED
    BY <1>1, <1>7, <2>1, <2>2 DEF SearchInv, FilesMet, Walking
<1>8. WalkMissesNone'
  BY <1>1, <1>3, <1>7 DEF SearchInv, WalkMissesNone, FoundThere, PassedOver, Overlapped, FileIds
<1> QED
  BY <1>4, <1>5, <1>6, <1>8 DEF SearchInv

LEMMA DeathKeeps == ASSUME SearchInv, SearchDies PROVE SearchInv'
<1>1. /\ SearchType /\ Walking
      /\ search' = [search EXCEPT !.pc = "idle", !.file = 1, !.offset = 0, !.hit = FALSE,
                                  !.pending = <<>>, !.flushed = FALSE, !.unread = FALSE,
                                  !.found = {}, !.skipped = {}]
      /\ running' = FALSE /\ UNCHANGED <<disk, contentUnread, unreadEver>>
  BY DEF SearchInv, SearchDies, Walking
<1>2. /\ search'.pc = "idle" /\ search'.file = 1 /\ search'.offset = 0 /\ search'.hit = FALSE
      /\ search'.unread = FALSE /\ search'.found = {} /\ search'.fts = search.fts
      /\ search'.query = search.query
  BY <1>1 DEF SearchType, IsSearch
<1>3. SearchType'
  <2>1. IsSearch'
    BY <1>1 DEF SearchType, IsSearch
  <2>2. disk' \in Volumes /\ contentUnread' \in BOOLEAN /\ running' \in BOOLEAN
    BY <1>1 DEF SearchType
  <2>3. search'.file \in Nat /\ search'.file > 0 /\ search'.offset \in Nat
    BY <1>2
  <2>4. search'.found \subseteq FileIds' /\ search'.pc \notin {"walk", "flush", "fts"}
    BY <1>2
  <2>5. search'.hit \in BOOLEAN /\ search'.unread \in BOOLEAN
    BY <1>1 DEF SearchType, IsSearch
  <2> QED
    BY <1>2, <2>1, <2>2, <2>3, <2>4, <2>5 DEF SearchType, Walking
<1> QED
  BY <1>1, <1>2, <1>3
     DEF SearchInv, FilesMet, FoundThere, UnreadNoted, WalkMissesNone, Walking, Complete

THEOREM SearchInvariant == SearchSpec => []SearchInv
<1>1. SearchInv /\ [SearchNext]_searchVars => SearchInv'
  BY StartKeeps, StopKeepsSearch, FtsKeeps, WindowKeeps, FlushKeeps, SkipKeeps, EndFileKeeps,
     EndWalkKeeps, DeathKeeps DEF SearchNext, Worker
<1> QED
  BY <1>1, SearchStarts, PTL DEF SearchSpec

\* A search that says it is complete missed no text, across the edges of
\* windows, runs and sparse runs, of any file it did not pass over (a snapshot's
\* whose volume does not open, a journal's row), and none before it came to its
\* end without having read everything, the ones the index answers included.
THEOREM CompleteSearchesAreTrue == SearchSpec => []CompleteIsTrue
<1>1. SearchInv => CompleteIsTrue
  BY DEF SearchInv, CompleteIsTrue, UnreadIsRemembered, UnreadNoted
<1> QED
  BY <1>1, SearchInvariant, PTL

----------------------------------------------------------------------------
(* searchRawBytes.  What the invariant says of the disk is said of any     *)
(* content, as no step changes it.                                         *)

WholeOf(c) == (Len(c.bytes) \div SectorBytes) * SectorBytes
ReadsAt(c, at) ==
    LET first == ((at - 1) \div RawChunk) * ChunkSectors
    IN  c.bad \cap (first..(first + Least(ChunkSectors, (Len(c.bytes) \div SectorBytes) - first) - 1)) = {}
StandsIn(c, needle) ==
    {k \in 1..(WholeOf(c) - Len(needle) + 1) : SubSeq(c.bytes, k, k + Len(needle) - 1) = needle}

\* A chunk starts where chunks do, or there are no more.
AtChunk(c, pos) == pos <= WholeOf(c) /\ (pos = WholeOf(c) \/ \E m \in Nat : pos = m * RawChunk)

\* What is carried over lies before the chunk and was read; less than a needle
\* may reach back is carried only behind a chunk that did not read.
CarryOk(c, h) ==
    LET lo == h.pos - Len(h.carry)
    IN  /\ Len(h.carry) <= Len(h.needle) - 1 /\ lo \in Nat
        /\ h.carry = SubSeq(c.bytes, lo + 1, h.pos)
        /\ \A at \in (lo + 1)..h.pos : ReadsAt(c, at)
        /\ h.pos < WholeOf(c) =>
             \/ Len(h.carry) = Len(h.needle) - 1
             \/ Len(h.carry) = 0 /\ (h.pos = 0 \/ (h.unread /\ ~ReadsAt(c, h.pos)))

\* What was returned, and what was not, of the places before the chunk
Excused(c, h, k) ==
    \/ Len(h.hits) = MaxHits /\ h.hits[MaxHits] < k
    \/ h.unread /\ \E at \in k..(k + Len(h.needle) - 1) : ~ReadsAt(c, at)
IsHit(c, needle, pos, k) ==
    /\ k \in StandsIn(c, needle) /\ k + Len(needle) - 1 <= pos
    /\ \A at \in k..(k + Len(needle) - 1) : ReadsAt(c, at)
HitsOk(c, h) ==
    /\ Len(h.hits) <= MaxHits
    /\ \A i, j \in 1..Len(h.hits) : i < j => h.hits[i] < h.hits[j]
    /\ \A i \in 1..Len(h.hits) : IsHit(c, h.needle, h.pos, h.hits[i])
    /\ \A k \in StandsIn(c, h.needle) : k + Len(h.needle) - 1 <= h.pos =>
         (\E i \in 1..Len(h.hits) : h.hits[i] = k) \/ Excused(c, h, k)

HexType ==
    [pc : {"idle", "chunk", "done"}, needle : Seq(Nat), pos : Nat, carry : Seq(Nat),
     hits : Seq(Nat), unread : BOOLEAN]

HexOk(c, h) ==
    /\ c \in RawContents /\ h \in HexType
    /\ h.pc = "idle" => h.pos = 0 /\ h.carry = <<>> /\ h.hits = <<>> /\ ~h.unread
    /\ h.pc # "idle" => h.needle \in Needles /\ AtChunk(c, h.pos) /\ CarryOk(c, h) /\ HitsOk(c, h)
    /\ h.pc = "done" => h.pos = WholeOf(c) \/ Len(h.hits) = MaxHits \/ Len(c.bytes) < Len(h.needle)

HexInv == HexOk(content, hex)

LEMMA HexSizes ==
    /\ SectorBytes \in Nat \ {0} /\ ChunkSectors \in Nat \ {0} /\ MaxHits \in Nat \ {0}
    /\ RawChunk \in Nat \ {0} /\ RawChunk = ChunkSectors * SectorBytes
  <1>1. SectorBytes \in Nat \ {0} /\ ChunkSectors \in Nat \ {0} /\ MaxHits \in Nat \ {0}
    BY RawAssumption
  <1>2. \A a, b \in Nat \ {0} : a * b \in Nat \ {0}
    OBVIOUS
  <1> QED
    BY <1>1, <1>2 DEF RawChunk

LEMMA NeedleFits ==
    ASSUME NEW n \in Needles
    PROVE  n \in Seq(Nat) /\ Len(n) \in Nat \ {0} /\ Len(n) - 1 <= RawChunk
  <1>1. n \in Seq(Nat) /\ Len(n) \in 1..(RawChunk + 1)
    BY RawAssumption
  <1> QED
    BY <1>1, HexSizes

LEMMA HexDisk ==
    ASSUME NEW c \in RawContents
    PROVE  LET n == Len(c.bytes)
               e == n \div SectorBytes
           IN  /\ c.bytes \in Seq(Nat) /\ n \in Nat /\ e \in Nat
               /\ WholeOf(c) = e * SectorBytes /\ WholeOf(c) \in Nat /\ WholeOf(c) <= n
               /\ \E r \in 0..(SectorBytes - 1) : n = e * SectorBytes + r
  <1> DEFINE n == Len(c.bytes)
             e == n \div SectorBytes
  <1>1. c.bytes \in Seq(Nat) /\ n \in Nat
    BY RawAssumption
  <1>2. e \in Nat /\ n % SectorBytes \in 0..(SectorBytes - 1) /\ n = e * SectorBytes + (n % SectorBytes)
    BY <1>1, HexSizes, Blocks
  <1>3. WholeOf(c) = e * SectorBytes
    BY DEF WholeOf
  <1> HIDE DEF n, e
  <1> DEFINE w == e * SectorBytes
  <1>4. w \in Nat
    BY <1>2, HexSizes
  <1>5. w <= n
    BY <1>1, <1>2, <1>4, HexSizes
  <1> QED
    BY <1>1, <1>2, <1>3, <1>4, <1>5 DEF n, e

LEMMA HexWholeDiv ==
    ASSUME NEW n \in Nat \ {0}, NEW q \in Nat
    PROVE  (q * n) \div n = q
  <1>1. 0 \in 0..(n - 1) /\ q * n + 0 = q * n
    OBVIOUS
  <1>2. (q * n + 0) \div n = q
    BY <1>1, PlaceIn
  <1> QED
    BY <1>1, <1>2

LEMMA HexMore ==
    ASSUME NEW x \in Nat, NEW y \in Nat, NEW s \in Nat, x <= y
    PROVE  x * s \in Nat /\ x * s <= y * s /\ (x < y => x * s + s <= y * s)
  <1>1. PICK d \in Nat : y = x + d
    <2>1. y - x \in Nat /\ y = x + (y - x)
      OBVIOUS
    <2> QED
      BY <2>1
  <1>2. y * s = x * s + d * s
    BY <1>1
  <1>3. x * s \in Nat /\ d * s \in Nat
    OBVIOUS
  <1>4. ASSUME x < y PROVE d * s >= s
    <2>1. PICK b \in Nat : d = b + 1
      <3>1. d - 1 \in Nat /\ d = (d - 1) + 1
        BY <1>1, <1>4
      <3> QED
        BY <3>1
    <2>2. d * s = b * s + s /\ b * s \in Nat
      BY <2>1
    <2> QED
      BY <2>2
  <1> QED
    BY <1>2, <1>3, <1>4

\* A chunk of the search is the whole sectors up to the next, or up to the end.
LEMMA HexWant ==
    ASSUME NEW c \in RawContents, NEW pos \in Nat, AtChunk(c, pos)
    PROVE  LET want == (Least(RawChunk, Len(c.bytes) - pos) \div SectorBytes) * SectorBytes
               first == pos \div SectorBytes
           IN  /\ want \in Nat /\ pos + want <= WholeOf(c) /\ (want = 0 => pos = WholeOf(c))
               /\ AtChunk(c, pos + want)
               /\ pos + want # WholeOf(c) => want = RawChunk
               /\ \A at \in (pos + 1)..(pos + want) :
                    ReadsAt(c, at) <=> c.bad \cap (first..(first + (want \div SectorBytes) - 1)) = {}
  <1> DEFINE n == Len(c.bytes)
             e == n \div SectorBytes
             want == (Least(RawChunk, n - pos) \div SectorBytes) * SectorBytes
  <1>1. PICK r \in 0..(SectorBytes - 1) : n = e * SectorBytes + r
    BY HexDisk
  <1>2. n \in Nat /\ e \in Nat /\ WholeOf(c) = e * SectorBytes /\ WholeOf(c) \in Nat
    BY HexDisk
  <1>3. PICK q \in 0..e : /\ pos = q * SectorBytes
                          /\ q < e => \E m \in Nat : q = m * ChunkSectors /\ pos = m * RawChunk
    <2>1. CASE pos = WholeOf(c)
      <3>1. e \in 0..e /\ pos = e * SectorBytes /\ ~(e < e)
        BY <1>2, <2>1
      <3> QED
        BY <3>1
    <2>2. CASE pos # WholeOf(c)
      <3>1. PICK m \in Nat : pos = m * RawChunk
        BY <2>2 DEF AtChunk
      <3> DEFINE q == m * ChunkSectors
      <3>2. q \in Nat
        BY HexSizes
      <3>3. pos = q * SectorBytes
        BY <3>1, HexSizes
      <3>4. q <= e
        <4>1. SUFFICES ASSUME e < q PROVE FALSE
          BY <1>2, <3>2
        <4> HIDE DEF q, e
        <4>2. e * SectorBytes + SectorBytes <= q * SectorBytes
          BY <1>2, <3>2, <4>1, HexSizes, HexMore
        <4>3. pos <= e * SectorBytes
          BY <1>2 DEF AtChunk
        <4> DEFINE x == e * SectorBytes
                   y == q * SectorBytes
        <4>4. x \in Nat /\ x + SectorBytes <= y /\ y = pos /\ pos <= x
          BY <1>2, <3>3, <4>2, <4>3
        <4> HIDE DEF x, y
        <4> QED
          BY <4>4, HexSizes
      <3>5. q \in 0..e
        BY <1>2, <3>2, <3>4
      <3> QED
        BY <3>1, <3>3, <3>5
    <2> QED
      BY <2>1, <2>2
  <1> DEFINE count == Least(ChunkSectors, e - q)
  <1> HIDE DEF n, e
  <1>4. q \in Nat /\ e - q \in Nat /\ count \in Nat /\ count <= e - q /\ count <= ChunkSectors
    BY <1>2, <1>3, HexSizes DEF Least
  <1>5. e * SectorBytes = pos + (e - q) * SectorBytes
    BY <1>2, <1>3, <1>4, HexSizes
  <1> DEFINE left == (e - q) * SectorBytes
  <1>6. left \in Nat /\ n - pos = left + r
    <2>1. left \in Nat
      BY <1>4, HexSizes
    <2> DEFINE w == e * SectorBytes
    <2>2. w = pos + left /\ n = w + r
      BY <1>1, <1>5
    <2> HIDE DEF w, left
    <2> QED
      BY <1>2, <2>1, <2>2, HexSizes
  <1>7. Least(RawChunk, n - pos) \div SectorBytes = count
    <2>1. CASE ChunkSectors <= e - q
      <3>1. RawChunk <= left
        BY <1>4, <2>1, HexSizes, HexMore
      <3>2. Least(RawChunk, n - pos) = RawChunk
        <4> HIDE DEF left
        <4> QED
          BY <1>6, <3>1, HexSizes DEF Least
      <3>3. RawChunk = ChunkSectors * SectorBytes + 0 /\ 0 \in 0..(SectorBytes - 1) /\ ChunkSectors \in Nat
        BY HexSizes
      <3>4. RawChunk \div SectorBytes = ChunkSectors
        BY <3>3, HexSizes, PlaceIn
      <3>5. count = ChunkSectors
        BY <2>1, <1>4, HexSizes DEF Least
      <3> QED
        BY <3>2, <3>4, <3>5
    <2>2. CASE e - q < ChunkSectors
      <3>1. left + SectorBytes <= RawChunk
        BY <1>4, <2>2, HexSizes, HexMore
      <3>2. Least(RawChunk, n - pos) = left + r
        <4> HIDE DEF left
        <4> QED
          BY <1>6, <3>1, HexSizes DEF Least
      <3>3. (left + r) \div SectorBytes = e - q
        BY <1>1, <1>4, HexSizes, PlaceIn
      <3>4. count = e - q
        BY <2>2, <1>4, HexSizes DEF Least
      <3> QED
        BY <3>2, <3>3, <3>4
    <2> QED
      BY <1>4, <2>1, <2>2, HexSizes
  <1>8. want = count * SectorBytes
    BY <1>7
  <1>9. pos \div SectorBytes = q /\ want \div SectorBytes = count
    <2>1. (q * SectorBytes) \div SectorBytes = q /\ (count * SectorBytes) \div SectorBytes = count
      BY <1>4, HexSizes, HexWholeDiv
    <2> QED
      BY <1>3, <1>8, <2>1
  <1> HIDE DEF count, want
  <1>10. want \in Nat /\ pos + want <= WholeOf(c)
    <2>1. want \in Nat /\ want <= left
      BY <1>4, <1>8, HexSizes, HexMore
    <2> HIDE DEF left
    <2>2. WholeOf(c) = pos + left
      BY <1>2, <1>5 DEF left
    <2> QED
      BY <1>6, <2>1, <2>2
  <1>11. CASE q = e
    <2>1. pos = WholeOf(c) /\ count = 0
      BY <1>2, <1>3, <1>4, <1>11
    <2>2. want = 0
      BY <1>8, <2>1, HexSizes
    <2> QED
      BY <1>2, <1>10, <2>1, <2>2 DEF want, n, AtChunk
  <1>12. CASE q < e
    <2>1. PICK m \in Nat : q = m * ChunkSectors /\ pos = m * RawChunk
      BY <1>3, <1>12
    <2>2. want > 0
      <3>1. count > 0
        BY <1>4, <1>12, <1>2, HexSizes DEF count, Least
      <3>2. \A a, b \in Nat \ {0} : a * b > 0
        OBVIOUS
      <3> QED
        BY <1>4, <1>8, <3>1, <3>2, HexSizes
    <2>3. pos + want # WholeOf(c) => want = RawChunk
      <3>1. CASE ChunkSectors <= e - q
        BY <1>4, <1>8, <3>1, HexSizes DEF count, Least
      <3>2. CASE e - q < ChunkSectors
        <4>1. count = e - q
          BY <1>4, <3>2, HexSizes DEF count, Least
        <4> QED
          BY <1>2, <1>5, <1>8, <4>1
      <3> QED
        BY <1>4, <3>1, <3>2, HexSizes
    <2>4. AtChunk(c, pos + want)
      <3>1. ASSUME pos + want # WholeOf(c) PROVE pos + want = (m + 1) * RawChunk /\ m + 1 \in Nat
        BY <2>1, <2>3, <3>1, HexSizes
      <3> QED
        BY <1>10, <3>1 DEF AtChunk
    <2>5. want <= RawChunk
      BY <1>4, <1>8, HexSizes, HexMore
    <2>6. ASSUME NEW at \in (pos + 1)..(pos + want)
          PROVE  ReadsAt(c, at) <=> c.bad \cap (q..(q + count - 1)) = {}
      <3> DEFINE b == at - 1 - pos
      <3>1. b \in 0..(RawChunk - 1) /\ at - 1 = pos + b
        BY <1>10, <2>5, HexSizes
      <3> HIDE DEF b
      <3>2. at - 1 = m * RawChunk + b
        BY <2>1, <3>1
      <3>3. (at - 1) \div RawChunk = m
        <4>1. (m * RawChunk + b) \div RawChunk = m
          BY <3>1, HexSizes, PlaceIn
        <4> QED
          BY <3>2, <4>1
      <3>4. ((at - 1) \div RawChunk) * ChunkSectors = q
        BY <2>1, <3>3
      <3> QED
        BY <3>4 DEF ReadsAt, count, e, n
    <2> QED
      BY <1>9, <1>10, <2>2, <2>3, <2>4, <2>6 DEF want, n
  <1> QED
    BY <1>3, <1>2, <1>11, <1>12

Ranked(S) == [i \in 1..Cardinality(S) |-> CHOOSE k \in S : Cardinality({j \in S : j < k}) = i - 1]

\* The numbers of a set by their ranks: increasing, and all of them.
LEMMA RankedNumbers ==
    ASSUME NEW S, S \subseteq Nat, IsFiniteSet(S)
    PROVE  LET n == Cardinality(S)
               f == Ranked(S)
           IN  /\ n \in Nat /\ f \in Seq(S) /\ f \in Seq(Nat) /\ Len(f) = n
               /\ \A i, j \in 1..n : i < j => f[i] < f[j]
               /\ \A k \in S : \E i \in 1..n : f[i] = k
<1> DEFINE n == Cardinality(S)
           Below(x) == {j \in S : j < x}
           rank(x) == Cardinality(Below(x))
           f == [i \in 1..n |-> CHOOSE k \in S : rank(k) = i - 1]
<1>1. n \in Nat
  BY FS_CardinalityType
<1>2. ASSUME NEW x \in S
      PROVE  IsFiniteSet(Below(x)) /\ rank(x) \in Nat /\ x \notin Below(x)
  <2>1. Below(x) \in SUBSET S /\ x \notin Below(x)
    OBVIOUS
  <2> HIDE DEF Below
  <2> QED
    BY <2>1, FS_Subset, FS_CardinalityType
<1>3. ASSUME NEW x \in S, NEW T \in SUBSET S, Below(x) \subseteq T, x \in T
      PROVE  rank(x) < Cardinality(T)
  <2> HIDE DEF Below
  <2>1. IsFiniteSet(T) /\ Cardinality(T) \in Nat
    BY FS_Subset, FS_CardinalityType
  <2>2. /\ Below(x) \cup {x} \in SUBSET T
        /\ Cardinality(Below(x) \cup {x}) = Cardinality(Below(x)) + 1
    BY <1>2, <1>3, FS_AddElement
  <2>3. Cardinality(Below(x) \cup {x}) <= Cardinality(T)
    BY <2>1, <2>2, FS_Subset
  <2> QED
    BY <1>2, <2>1, <2>2, <2>3
<1>4. ASSUME NEW x \in S, NEW y \in S, x < y
      PROVE  rank(x) < rank(y)
  <2>0. \A j \in S : j < x => j < y
    BY <1>4
  <2>1. Below(x) \subseteq Below(y) /\ x \in Below(y) /\ Below(y) \in SUBSET S
    BY <1>4, <2>0
  <2> HIDE DEF Below
  <2> QED
    BY <1>3, <2>1
<1>5. ASSUME NEW x \in S PROVE rank(x) \in 0..(n - 1)
  <2>1. Below(x) \subseteq S
    OBVIOUS
  <2>2. rank(x) < n
    <3> HIDE DEF Below
    <3> QED
      BY <1>3, <2>1
  <2> HIDE DEF Below, n
  <2> QED
    BY <1>1, <1>2, <2>2
<1>6. ASSUME NEW x \in S, NEW y \in S PROVE (rank(x) = rank(y) => x = y) /\ (rank(x) < rank(y) => x < y)
  <2>1. x \in Nat /\ y \in Nat /\ rank(x) \in Nat /\ rank(y) \in Nat
    BY <1>2
  <2>2. x < y => rank(x) < rank(y)
    BY <1>4
  <2>3. y < x => rank(y) < rank(x)
    BY <1>4
  <2>4. x < y \/ y < x \/ x = y
    BY <2>1
  <2>5. x = y => rank(x) = rank(y)
    OBVIOUS
  <2> HIDE DEF rank
  <2> QED
    BY <2>1, <2>2, <2>3, <2>4, <2>5
<1> HIDE DEF Below
<1> DEFINE g == [x \in S |-> rank(x)]
<1>7. g \in Injection(S, 0..(n - 1))
  <2> HIDE DEF rank, n
  <2>1. \A x \in S : g[x] \in 0..(n - 1)
    BY <1>5
  <2>2. \A x, y \in S : g[x] = g[y] => x = y
    BY <1>6
  <2> HIDE DEF g
  <2>3. g \in [S -> 0..(n - 1)]
    BY <2>1 DEF g
  <2> QED
    BY <2>2, <2>3 DEF Injection, IsInjective
<1> HIDE DEF rank, n, g
<1>8. IsFiniteSet(0..(n - 1)) /\ Cardinality(0..(n - 1)) = n
  BY <1>1, FS_Interval
<1>9. g \in Surjection(S, 0..(n - 1))
  BY <1>7, <1>8, FS_Injection DEF n
<1>10. ASSUME NEW i \in 1..n PROVE f[i] \in S /\ rank(f[i]) = i - 1
  <2>1. i - 1 \in 0..(n - 1)
    BY <1>1
  <2>2. \E x \in S : g[x] = i - 1
    BY <1>9, <2>1 DEF Surjection
  <2>3. \E x \in S : rank(x) = i - 1
    BY <2>2 DEF g
  <2> QED
    BY <2>3
<1>11. f \in [1..n -> S]
  BY <1>10
<1>12. f \in Seq(S) /\ f \in Seq(Nat) /\ Len(f) = n
  <2>1. f \in [1..n -> Nat]
    BY <1>11
  <2> HIDE DEF f
  <2> QED
    BY <1>1, <1>11, <2>1
<1> HIDE DEF f
<1>13. ASSUME NEW i \in 1..n, NEW j \in 1..n, i < j PROVE f[i] < f[j]
  <2>1. f[i] \in S /\ f[j] \in S /\ rank(f[i]) = i - 1 /\ rank(f[j]) = j - 1
    BY <1>10
  <2>2. rank(f[i]) < rank(f[j])
    BY <1>1, <1>13, <2>1
  <2> QED
    BY <1>6, <2>1, <2>2
<1>14. ASSUME NEW k \in S PROVE \E i \in 1..n : f[i] = k
  <2> DEFINE i == rank(k) + 1
  <2>1. i \in 1..n /\ rank(k) = i - 1
    BY <1>1, <1>5
  <2> HIDE DEF i
  <2>2. f[i] \in S /\ rank(f[i]) = rank(k)
    BY <1>10, <2>1
  <2>3. f[i] = k
    BY <1>6, <2>2
  <2> QED
    BY <2>1, <2>3
<1> QED
  <2>1. f = Ranked(S)
    BY DEF Ranked, f, n, rank, Below
  <2> QED
    BY <1>1, <1>12, <1>13, <1>14, <2>1 DEF n

HayPlacesOf(hay, needle) ==
    {k \in 1..(Len(hay) - Len(needle) + 1) : SubSeq(hay, k, k + Len(needle) - 1) = needle}

LEMMA OccurrencesFacts ==
    ASSUME NEW hay \in Seq(Nat), NEW needle \in Seq(Nat)
    PROVE  LET f == Occurrences(hay, needle)
           IN  /\ f \in Seq(Nat) /\ Len(f) \in Nat
               /\ \A i \in 1..Len(f) : f[i] \in HayPlacesOf(hay, needle)
               /\ \A i, j \in 1..Len(f) : i < j => f[i] < f[j]
               /\ \A k \in HayPlacesOf(hay, needle) : \E i \in 1..Len(f) : f[i] = k
  <1> DEFINE S == HayPlacesOf(hay, needle)
             f == Ranked(S)
  <1>1. Len(hay) \in Nat /\ Len(needle) \in Nat
    OBVIOUS
  <1>2. S \subseteq Nat /\ S \subseteq 1..(Len(hay) - Len(needle) + 1)
    BY <1>1 DEF HayPlacesOf
  <1>3. IsFiniteSet(1..(Len(hay) - Len(needle) + 1))
    <2> DEFINE m == Len(hay) - Len(needle) + 1
    <2>1. m \in Int /\ 1 \in Int
      BY <1>1
    <2> HIDE DEF m
    <2>2. IsFiniteSet(1..m)
      BY <2>1, FS_Interval
    <2> QED
      BY <2>2 DEF m
  <1>4. IsFiniteSet(S)
    <2> HIDE DEF S
    <2> QED
      BY <1>2, <1>3, FS_Subset
  <1>5. Occurrences(hay, needle) = f
    BY DEF Occurrences, HayPlacesOf, Ranked
  <1> HIDE DEF S
  <1>6. /\ Cardinality(S) \in Nat /\ f \in Seq(S) /\ f \in Seq(Nat) /\ Len(f) = Cardinality(S)
        /\ \A i, j \in 1..Cardinality(S) : i < j => f[i] < f[j]
        /\ \A k \in S : \E i \in 1..Cardinality(S) : f[i] = k
    BY <1>2, <1>4, RankedNumbers
  <1> HIDE DEF f
  <1>7. \A i \in 1..Len(f) : f[i] \in S
    BY <1>6
  <1> QED
    BY <1>5, <1>6, <1>7 DEF S

\* A sequence of the numbers from a to b of another, as SubSeq takes it
LEMMA Cut ==
    ASSUME NEW s \in Seq(Nat), NEW a \in Nat, NEW b \in Nat, a <= b, b <= Len(s)
    PROVE  /\ SubSeq(s, a + 1, b) \in Seq(Nat) /\ Len(SubSeq(s, a + 1, b)) = b - a
           /\ \A i \in 1..(b - a) : SubSeq(s, a + 1, b)[i] = s[a + i]
  <1>1. \A i \in (a + 1)..b : s[i] \in Nat
    OBVIOUS
  <1>2. a + 1 \in Int /\ b \in Int /\ b - (a + 1) + 1 = b - a
    OBVIOUS
  <1>3. /\ SubSeq(s, a + 1, b) \in Seq(Nat)
        /\ Len(SubSeq(s, a + 1, b)) = IF a + 1 <= b THEN b - (a + 1) + 1 ELSE 0
        /\ \A i \in 1..(b - (a + 1) + 1) : SubSeq(s, a + 1, b)[i] = s[(a + 1) + i - 1]
    BY <1>1, <1>2, SubSeqProperties
  <1>4. \A i \in 1..(b - a) : (a + 1) + i - 1 = a + i
    OBVIOUS
  <1>5. Len(SubSeq(s, a + 1, b)) = b - a
    BY <1>3
  <1> QED
    BY <1>2, <1>3, <1>4, <1>5

LEMMA SameBytes ==
    ASSUME NEW s \in Seq(Nat), NEW t \in Seq(Nat), Len(s) = Len(t), \A i \in 1..Len(s) : s[i] = t[i]
    PROVE  s = t
  OBVIOUS

LEMMA CutJoined ==
    ASSUME NEW s \in Seq(Nat), NEW a \in Nat, NEW b \in Nat, NEW d \in Nat, a <= b, b <= d, d <= Len(s)
    PROVE  SubSeq(s, a + 1, b) \o SubSeq(s, b + 1, d) = SubSeq(s, a + 1, d)
  <1> DEFINE u == SubSeq(s, a + 1, b)
             v == SubSeq(s, b + 1, d)
             w == SubSeq(s, a + 1, d)
  <1>0. a <= d /\ b <= Len(s)
    OBVIOUS
  <1>1. u \in Seq(Nat) /\ Len(u) = b - a /\ \A i \in 1..(b - a) : u[i] = s[a + i]
    BY <1>0, Cut
  <1>2. v \in Seq(Nat) /\ Len(v) = d - b /\ \A i \in 1..(d - b) : v[i] = s[b + i]
    BY Cut
  <1>3. w \in Seq(Nat) /\ Len(w) = d - a /\ \A i \in 1..(d - a) : w[i] = s[a + i]
    BY <1>0, Cut
  <1> HIDE DEF u, v, w
  <1>4. /\ u \o v \in Seq(Nat) /\ Len(u \o v) = Len(u) + Len(v)
        /\ \A i \in 1..(Len(u) + Len(v)) : (u \o v)[i] = IF i <= Len(u) THEN u[i] ELSE v[i - Len(u)]
    BY <1>1, <1>2, ConcatProperties
  <1>5. Len(u \o v) = Len(w)
    BY <1>1, <1>2, <1>3, <1>4
  <1>6. ASSUME NEW i \in 1..(d - a) PROVE (u \o v)[i] = w[i]
    <2>1. i \in 1..(Len(u) + Len(v))
      BY <1>1, <1>2
    <2>2. CASE i <= b - a
      <3>1. i \in 1..(b - a)
        BY <2>2
      <3> QED
        BY <1>1, <1>3, <1>4, <1>6, <2>1, <2>2, <3>1
    <2>3. CASE ~(i <= b - a)
      <3>1. i - (b - a) \in 1..(d - b) /\ b + (i - (b - a)) = a + i
        BY <2>3
      <3>2. (u \o v)[i] = v[i - (b - a)]
        BY <1>1, <1>4, <2>1, <2>3
      <3> QED
        BY <1>2, <1>3, <1>6, <3>1, <3>2
    <2> QED
      BY <2>2, <2>3
  <1>7. \A i \in 1..Len(u \o v) : (u \o v)[i] = w[i]
    <2>1. Len(u \o v) = d - a
      BY <1>3, <1>5
    <2> QED
      BY <1>6, <2>1
  <1>8. u \o v = w
    BY <1>3, <1>4, <1>5, <1>7, SameBytes
  <1> QED
    BY <1>8 DEF u, v, w

\* A piece of a piece
LEMMA CutWithin ==
    ASSUME NEW s \in Seq(Nat), NEW a \in Nat, NEW b \in Nat, a <= b, b <= Len(s),
           NEW x \in Nat, NEW y \in Nat, x <= y, y <= b - a
    PROVE  SubSeq(SubSeq(s, a + 1, b), x + 1, y) = SubSeq(s, a + x + 1, a + y)
  <1> DEFINE w == SubSeq(s, a + 1, b)
             u == SubSeq(w, x + 1, y)
             v == SubSeq(s, a + x + 1, a + y)
  <1>1. w \in Seq(Nat) /\ Len(w) = b - a /\ \A i \in 1..(b - a) : w[i] = s[a + i]
    BY Cut
  <1>2. a + x \in Nat /\ a + y \in Nat /\ a + x <= a + y /\ a + y <= Len(s) /\ (a + y) - (a + x) = y - x
    OBVIOUS
  <1>3. v \in Seq(Nat) /\ Len(v) = (a + y) - (a + x) /\ \A i \in 1..((a + y) - (a + x)) : v[i] = s[(a + x) + i]
    BY <1>2, Cut
  <1> HIDE DEF w
  <1>4. u \in Seq(Nat) /\ Len(u) = y - x /\ \A i \in 1..(y - x) : u[i] = w[x + i]
    BY <1>1, Cut
  <1> HIDE DEF u, v
  <1>5. ASSUME NEW i \in 1..Len(u) PROVE u[i] = v[i]
    <2>1. i \in 1..(y - x) /\ x + i \in 1..(b - a) /\ a + (x + i) = (a + x) + i
      BY <1>4
    <2> QED
      BY <1>1, <1>2, <1>3, <1>4, <2>1
  <1>6. u = v
    BY <1>2, <1>3, <1>4, <1>5, SameBytes
  <1> QED
    BY <1>6 DEF u, v, w

HexHay(c, h, want) == h.carry \o SubSeq(c.bytes, h.pos + 1, h.pos + want)

\* What is looked through is a stretch of the disk.
LEMMA HayIsDisk ==
    ASSUME NEW c \in RawContents, NEW h \in HexType, CarryOk(c, h),
           NEW want \in Nat, h.pos + want <= WholeOf(c)
    PROVE  LET hay == HexHay(c, h, want)
               lo == h.pos - Len(h.carry)
           IN  /\ lo \in Nat /\ lo <= h.pos /\ h.pos \in Nat /\ Len(h.carry) \in Nat
               /\ hay = SubSeq(c.bytes, lo + 1, h.pos + want)
               /\ hay \in Seq(Nat) /\ Len(hay) = (h.pos + want) - lo /\ h.pos + want <= Len(c.bytes)
  <1> DEFINE lo == h.pos - Len(h.carry)
             top == h.pos + want
  <1>1. h.pos \in Nat /\ h.carry \in Seq(Nat)
    BY DEF HexType
  <1>2. Len(h.carry) \in Nat
    BY <1>1
  <1>3. lo \in Nat /\ h.carry = SubSeq(c.bytes, lo + 1, h.pos)
    BY DEF CarryOk
  <1>4. lo <= h.pos /\ top \in Nat /\ h.pos <= top
    BY <1>1, <1>2
  <1>5. c.bytes \in Seq(Nat) /\ top <= Len(c.bytes)
    <2>1. c.bytes \in Seq(Nat) /\ Len(c.bytes) \in Nat /\ WholeOf(c) \in Nat /\ WholeOf(c) <= Len(c.bytes)
      BY HexDisk
    <2> QED
      BY <1>4, <2>1
  <1> HIDE DEF lo, top
  <1>6. SubSeq(c.bytes, lo + 1, h.pos) \o SubSeq(c.bytes, h.pos + 1, top) = SubSeq(c.bytes, lo + 1, top)
    BY <1>1, <1>3, <1>4, <1>5, CutJoined
  <1>7. HexHay(c, h, want) = SubSeq(c.bytes, lo + 1, top)
    BY <1>3, <1>6 DEF HexHay, top
  <1>8. lo <= top
    BY <1>1, <1>3, <1>4
  <1>9. SubSeq(c.bytes, lo + 1, top) \in Seq(Nat) /\ Len(SubSeq(c.bytes, lo + 1, top)) = top - lo
    BY <1>3, <1>4, <1>5, <1>8, Cut
  <1> QED
    BY <1>1, <1>2, <1>3, <1>4, <1>5, <1>7, <1>9 DEF lo, top

\* Where the needle is in it, it is on the disk, and the other way round.
LEMMA HayPlaces ==
    ASSUME NEW c \in RawContents, NEW h \in HexType, CarryOk(c, h), h.needle \in Needles,
           NEW want \in Nat, h.pos + want <= WholeOf(c), NEW k \in Nat
    PROVE  LET lo == h.pos - Len(h.carry)
           IN  /\ k \in HayPlacesOf(HexHay(c, h, want), h.needle) =>
                    k > 0 /\ lo + k \in StandsIn(c, h.needle)
                    /\ (lo + k) + Len(h.needle) - 1 <= h.pos + want
               /\ k > 0 /\ lo + k \in StandsIn(c, h.needle)
                    /\ (lo + k) + Len(h.needle) - 1 <= h.pos + want =>
                  k \in HayPlacesOf(HexHay(c, h, want), h.needle)
  <1> DEFINE lo == h.pos - Len(h.carry)
             top == h.pos + want
             hay == HexHay(c, h, want)
             n == Len(h.needle)
             whole == WholeOf(c)
  <1>1. /\ lo \in Nat /\ lo <= h.pos /\ h.pos \in Nat /\ hay = SubSeq(c.bytes, lo + 1, top)
        /\ Len(hay) = top - lo /\ top <= Len(c.bytes)
    BY HayIsDisk
  <1>2. n \in Nat \ {0}
    BY NeedleFits
  <1>3. c.bytes \in Seq(Nat) /\ whole \in Nat /\ Len(c.bytes) \in Nat /\ top <= whole
    BY HexDisk
  <1>4. top \in Nat /\ lo <= top
    BY <1>1
  <1>5. StandsIn(c, h.needle) = {x \in 1..(whole - n + 1) : SubSeq(c.bytes, x, x + n - 1) = h.needle}
    BY DEF StandsIn
  <1>6. HayPlacesOf(hay, h.needle) = {x \in 1..((top - lo) - n + 1) : SubSeq(hay, x, x + n - 1) = h.needle}
    BY <1>1 DEF HayPlacesOf
  <1> HIDE DEF lo, top, hay, n, whole
  <1>7. ASSUME k > 0, (lo + k) + n - 1 <= top
        PROVE  SubSeq(hay, k, k + n - 1) = SubSeq(c.bytes, lo + k, (lo + k) + n - 1)
    <2> DEFINE x == k - 1
               y == k + n - 1
    <2>1. /\ x \in Nat /\ y \in Nat /\ x <= y /\ y <= top - lo /\ x + 1 = k
          /\ lo + x + 1 = lo + k /\ lo + y = (lo + k) + n - 1
      BY <1>1, <1>2, <1>4, <1>7
    <2> HIDE DEF x, y
    <2>2. SubSeq(SubSeq(c.bytes, lo + 1, top), x + 1, y) = SubSeq(c.bytes, lo + x + 1, lo + y)
      BY <1>1, <1>3, <1>4, <2>1, CutWithin
    <2> QED
      BY <1>1, <2>1, <2>2 DEF y
  <1>8. ASSUME k \in HayPlacesOf(hay, h.needle)
        PROVE  k > 0 /\ lo + k \in StandsIn(c, h.needle) /\ (lo + k) + n - 1 <= top
    <2>0. k \in 1..((top - lo) - n + 1) /\ SubSeq(hay, k, k + n - 1) = h.needle
      BY <1>6, <1>8
    <2> DEFINE last == (top - lo) - n + 1
    <2>a. last \in Int /\ k \in 1..last
      BY <1>1, <1>2, <1>4, <2>0
    <2>b. k > 0 /\ k <= last
      <3> HIDE DEF last
      <3> QED
        BY <2>a
    <2>1. k > 0 /\ k <= (top - lo) - n + 1 /\ SubSeq(hay, k, k + n - 1) = h.needle
      BY <2>0, <2>b
    <2>2. (lo + k) + n - 1 <= top
      BY <1>1, <1>2, <1>4, <2>1
    <2>3. lo + k \in 1..(whole - n + 1)
      BY <1>1, <1>2, <1>3, <1>4, <2>1
    <2>4. SubSeq(c.bytes, lo + k, (lo + k) + n - 1) = h.needle
      BY <1>7, <2>1, <2>2
    <2> QED
      BY <1>5, <2>1, <2>2, <2>3, <2>4
  <1>9. ASSUME k > 0, lo + k \in StandsIn(c, h.needle), (lo + k) + n - 1 <= top
        PROVE  k \in HayPlacesOf(hay, h.needle)
    <2>1. SubSeq(c.bytes, lo + k, (lo + k) + n - 1) = h.needle
      BY <1>5, <1>9
    <2>2. SubSeq(hay, k, k + n - 1) = h.needle
      BY <1>7, <1>9, <2>1
    <2>3. k \in 1..((top - lo) - n + 1)
      BY <1>1, <1>2, <1>4, <1>9
    <2> QED
      BY <1>6, <2>2, <2>3
  <1> QED
    BY <1>8, <1>9 DEF lo, top, hay, n

LEMMA CarryKept ==
    ASSUME NEW c \in RawContents, NEW h \in HexType, CarryOk(c, h), h.needle \in Needles,
           NEW want \in Nat, h.pos + want <= WholeOf(c),
           h.pos + want # WholeOf(c) => want = RawChunk,
           \A at \in (h.pos + 1)..(h.pos + want) : ReadsAt(c, at),
           NEW g \in HexType, g.needle = h.needle, g.pos = h.pos + want,
           g.carry = Carry(HexHay(c, h, want), h.needle)
    PROVE  CarryOk(c, g)
  <1> DEFINE lo == h.pos - Len(h.carry)
             top == h.pos + want
             hay == HexHay(c, h, want)
             n == Len(h.needle)
             whole == WholeOf(c)
  <1>1. /\ lo \in Nat /\ lo <= h.pos /\ h.pos \in Nat /\ hay = SubSeq(c.bytes, lo + 1, top)
        /\ Len(hay) = top - lo /\ top <= Len(c.bytes)
    BY HayIsDisk
  <1>2. n \in Nat \ {0} /\ n - 1 <= RawChunk
    BY NeedleFits
  <1>3. c.bytes \in Seq(Nat) /\ whole \in Nat /\ top \in Nat
    BY <1>1, HexDisk
  <1>4. \A at \in (lo + 1)..h.pos : ReadsAt(c, at)
    BY DEF CarryOk
  <1>5. \A at \in (lo + 1)..top : ReadsAt(c, at)
    BY <1>1, <1>4
  <1>6. CASE Len(hay) >= n - 1
    <2> DEFINE from == top - (n - 1)
    <2>1. g.carry = SubSeq(hay, Len(hay) - n + 2, Len(hay))
      BY <1>6 DEF Carry
    <2> HIDE DEF lo, top, hay, n, whole
    <2>2. from \in Nat /\ lo <= from /\ from <= top
      BY <1>1, <1>2, <1>3, <1>6
    <2> DEFINE x == (top - lo) - (n - 1)
               y == top - lo
    <2>3. /\ x \in Nat /\ y \in Nat /\ x <= y /\ lo <= top /\ y <= top - lo /\ lo + x + 1 = from + 1 /\ lo + y = top
          /\ Len(hay) - n + 2 = x + 1 /\ Len(hay) = y
      BY <1>1, <1>2, <1>3, <2>2, <1>6
    <2> HIDE DEF x, y, from
    <2>4. SubSeq(SubSeq(c.bytes, lo + 1, top), x + 1, y) = SubSeq(c.bytes, lo + x + 1, lo + y)
      BY <1>1, <1>3, <2>3, CutWithin
    <2>5. g.carry = SubSeq(c.bytes, from + 1, top)
      BY <1>1, <2>1, <2>3, <2>4
    <2>6. Len(SubSeq(c.bytes, from + 1, top)) = top - from
      BY <1>1, <1>3, <2>2, Cut
    <2>7. Len(g.carry) = n - 1
      BY <1>2, <1>3, <2>5, <2>6 DEF from
    <2>8. g.pos - Len(g.carry) = from /\ g.pos = top
      BY <2>7 DEF from, top
    <2>9. \A at \in (from + 1)..top : ReadsAt(c, at)
      BY <1>1, <1>3, <1>5, <2>2
    <2>10. Len(g.carry) <= Len(g.needle) - 1 /\ Len(g.carry) = Len(g.needle) - 1
      BY <1>2, <2>7 DEF n
    <2> QED
      BY <2>2, <2>5, <2>8, <2>9, <2>10 DEF CarryOk
  <1>7. CASE ~(Len(hay) >= n - 1)
    <2>1. g.carry = <<>>
      BY <1>7 DEF Carry
    <2>2. Len(g.carry) = 0
      BY <2>1
    <2> HIDE DEF lo, hay, n, whole
    <2>3. want < RawChunk
      BY <1>1, <1>2, <1>7, HexSizes
    <2>4. top = whole
      BY <2>3, HexSizes DEF top, whole
    <2>5. g.pos - Len(g.carry) = top /\ g.pos = top
      BY <1>3, <2>2 DEF top
    <2>6. SubSeq(c.bytes, top + 1, top) = <<>>
      BY <1>3, SubSeqEmpty
    <2>7. ~(g.pos < WholeOf(c))
      BY <1>3, <2>4, <2>5 DEF whole
    <2>8. Len(g.carry) <= Len(g.needle) - 1
      BY <1>2, <2>2 DEF n
    <2>9. \A at \in (top + 1)..top : ReadsAt(c, at)
      BY <1>3
    <2> QED
      BY <1>3, <2>1, <2>5, <2>6, <2>7, <2>8, <2>9 DEF CarryOk
  <1> QED
    BY <1>6, <1>7

LEMMA LeastIs ==
    ASSUME NEW a \in Nat, NEW b \in Nat
    PROVE  Least(a, b) \in Nat /\ Least(a, b) <= a /\ Least(a, b) <= b /\ (Least(a, b) = a \/ Least(a, b) = b)
  BY DEF Least

\* The places a chunk that reads adds
LEMMA HitsKept ==
    ASSUME NEW c \in RawContents, NEW h \in HexType, CarryOk(c, h), HitsOk(c, h), h.needle \in Needles,
           NEW want \in Nat, h.pos + want <= WholeOf(c), want > 0, Len(h.hits) < MaxHits,
           \A at \in (h.pos + 1)..(h.pos + want) : ReadsAt(c, at),
           NEW g \in HexType, g.needle = h.needle, g.pos = h.pos + want, g.unread = h.unread,
           g.hits = LET found == Occurrences(HexHay(c, h, want), h.needle)
                    IN  h.hits \o [i \in 1..Least(MaxHits - Len(h.hits), Len(found)) |->
                                      found[i] + (h.pos - Len(h.carry))]
    PROVE  HitsOk(c, g)
  <1> DEFINE lo == h.pos - Len(h.carry)
             top == h.pos + want
             hay == HexHay(c, h, want)
             n == Len(h.needle)
             old == Len(h.hits)
             found == Occurrences(hay, h.needle)
             more == Least(MaxHits - old, Len(found))
             new == [i \in 1..more |-> found[i] + lo]
  <1>1. /\ lo \in Nat /\ lo <= h.pos /\ h.pos \in Nat /\ hay \in Seq(Nat) /\ Len(h.carry) \in Nat
        /\ Len(hay) = top - lo /\ top <= Len(c.bytes)
    BY HayIsDisk
  <1>2. n \in Nat \ {0} /\ h.needle \in Seq(Nat)
    BY NeedleFits
  <1>3. top \in Nat /\ h.pos < top
    BY <1>1
  <1>4. h.hits \in Seq(Nat) /\ old \in Nat /\ old < MaxHits /\ g.hits \in Seq(Nat)
    <2>1. h.hits \in Seq(Nat) /\ g.hits \in Seq(Nat)
      BY DEF HexType
    <2>2. old \in Nat
      BY <2>1
    <2> QED
      BY <2>1, <2>2
  <1>5. /\ found \in Seq(Nat) /\ Len(found) \in Nat
        /\ \A i \in 1..Len(found) : found[i] \in HayPlacesOf(hay, h.needle)
        /\ \A i, j \in 1..Len(found) : i < j => found[i] < found[j]
        /\ \A k \in HayPlacesOf(hay, h.needle) : \E i \in 1..Len(found) : found[i] = k
    BY <1>1, <1>2, OccurrencesFacts
  <1>6. /\ more \in Nat /\ more <= Len(found) /\ more <= MaxHits - old
        /\ more = Len(found) \/ more = MaxHits - old
    <2> DEFINE a == MaxHits - old
               b == Len(found)
    <2>1. a \in Nat /\ b \in Nat
      BY <1>4, <1>5, HexSizes
    <2> HIDE DEF a, b
    <2>2. more = Least(a, b)
      BY DEF a, b
    <2> HIDE DEF more
    <2> QED
      BY <2>1, <2>2, LeastIs DEF a, b
  <1>7. g.hits = h.hits \o new
    OBVIOUS
  <1>8. lo + Len(h.carry) = h.pos /\ Len(h.carry) <= n - 1
    BY <1>1 DEF CarryOk
  <1>9. \A at \in (lo + 1)..top : ReadsAt(c, at)
    BY <1>1 DEF CarryOk
  <1> HIDE DEF hay, found
  <1>10. \A k \in Nat : k \in HayPlacesOf(hay, h.needle) =>
           k > 0 /\ lo + k \in StandsIn(c, h.needle) /\ (lo + k) + n - 1 <= top
    BY HayPlaces DEF hay
  <1>11. \A k \in Nat : k > 0 /\ lo + k \in StandsIn(c, h.needle) /\ (lo + k) + n - 1 <= top =>
           k \in HayPlacesOf(hay, h.needle)
    BY HayPlaces DEF hay
  <1> HIDE DEF more
  <1>12. \A i \in 1..more : found[i] \in Nat /\ found[i] > 0
    <2> SUFFICES ASSUME NEW i \in 1..more PROVE found[i] \in Nat /\ found[i] > 0
      OBVIOUS
    <2>1. i \in 1..Len(found)
      BY <1>5, <1>6
    <2>2. found[i] \in Nat
      BY <1>5, <2>1
    <2> QED
      BY <1>5, <1>10, <2>1, <2>2
  <1>13. new \in Seq(Nat) /\ Len(new) = more
    <2>0. \A i \in 1..more : found[i] + lo \in Nat
      <3> HIDE DEF lo
      <3> QED
        BY <1>1, <1>12
    <2>1. new \in [1..more -> Nat]
      BY <2>0
    <2> QED
      BY <1>6, <2>1
  <1>14. \A i \in 1..more : new[i] = found[i] + lo
    OBVIOUS
  <1> HIDE DEF lo, new, top, n, old
  <1>15. /\ Len(g.hits) = old + more
         /\ \A i \in 1..old : g.hits[i] = h.hits[i]
         /\ \A i \in 1..more : g.hits[old + i] = found[i] + lo
    <2>1. /\ Len(h.hits \o new) = Len(h.hits) + Len(new)
          /\ \A i \in 1..(Len(h.hits) + Len(new)) :
               (h.hits \o new)[i] = IF i <= Len(h.hits) THEN h.hits[i] ELSE new[i - Len(h.hits)]
      BY <1>4, <1>13, ConcatProperties
    <2>2. Len(h.hits) = old
      BY DEF old
    <2>3. ASSUME NEW i \in 1..old PROVE g.hits[i] = h.hits[i]
      BY <1>4, <1>6, <1>7, <1>13, <2>1, <2>2
    <2>4. ASSUME NEW i \in 1..more PROVE g.hits[old + i] = found[i] + lo
      <3>1. old + i \in 1..(old + more) /\ ~(old + i <= old) /\ (old + i) - old = i
        BY <1>4, <1>6
      <3> QED
        BY <1>7, <1>13, <1>14, <2>1, <2>2, <3>1
    <2> QED
      BY <1>7, <1>13, <2>1, <2>2, <2>3, <2>4
  <1>150. /\ old \in Nat /\ more \in Nat /\ MaxHits \in Nat /\ Len(g.hits) = old + more /\ Len(g.hits) \in Nat
        /\ old + more <= MaxHits /\ old < MaxHits
    <2>1. Len(g.hits) = old + more
      BY <1>15
    <2>2. old \in Nat /\ old < MaxHits /\ more \in Nat /\ more <= MaxHits - old /\ MaxHits \in Nat
      BY <1>4, <1>6, HexSizes
    <2> HIDE DEF more
    <2>3. old + more <= MaxHits /\ old + more \in Nat
      BY <2>2
    <2> QED
      BY <2>1, <2>2, <2>3
  <1>151. /\ \A i \in 1..old : i \in 1..Len(g.hits)
          /\ \A i \in 1..more : old + i \in 1..Len(g.hits)
          /\ more = MaxHits - old => Len(g.hits) = MaxHits /\ MaxHits = old + more
    <2> DEFINE len == Len(g.hits)
    <2>1. /\ old \in Nat /\ more \in Nat /\ MaxHits \in Nat /\ len = old + more
      BY <1>150
    <2> HIDE DEF len
    <2>2. \A i \in 1..old : i \in 1..len
      BY <2>1
    <2>3. \A i \in 1..more : old + i \in 1..len
      BY <2>1
    <2>4. more = MaxHits - old => len = MaxHits /\ MaxHits = old + more
      BY <2>1
    <2> QED
      BY <2>2, <2>3, <2>4 DEF len
  <1>16. \A i \in 1..Len(g.hits) : i \in 1..old \/ \E j \in 1..more : i = old + j
    <2>1. ASSUME NEW i \in 1..(old + more), i \notin 1..old PROVE i - old \in 1..more /\ i = old + (i - old)
      BY <1>4, <1>6, <2>1
    <2> QED
      BY <1>15, <2>1
  <1>17. /\ \A i, j \in 1..old : i < j => h.hits[i] < h.hits[j]
         /\ \A i \in 1..old : IsHit(c, h.needle, h.pos, h.hits[i])
         /\ \A k \in StandsIn(c, h.needle) : k + n - 1 <= h.pos =>
              (\E i \in 1..old : h.hits[i] = k) \/ Excused(c, h, k)
    BY DEF HitsOk, old, n
  <1>18. \A k \in StandsIn(c, h.needle) : k \in Nat /\ k > 0
    <2>1. WholeOf(c) \in Nat
      BY HexDisk
    <2> QED
      BY <1>2, <2>1 DEF StandsIn, n
  <1>19. \A i \in 1..old : h.hits[i] \in Nat /\ h.hits[i] + n - 1 <= h.pos
    BY <1>17, <1>18 DEF IsHit, n
  <1>20. \A i \in 1..more : IsHit(c, h.needle, top, found[i] + lo) /\ (found[i] + lo) + n - 1 > h.pos
    <2> SUFFICES ASSUME NEW i \in 1..more
                 PROVE  IsHit(c, h.needle, top, found[i] + lo) /\ (found[i] + lo) + n - 1 > h.pos
      OBVIOUS
    <2>1. i \in 1..Len(found)
      BY <1>5, <1>6
    <2>2. found[i] \in Nat /\ found[i] > 0
      BY <1>12
    <2>3. found[i] + lo = lo + found[i]
      BY <1>1, <2>2
    <2>4. lo + found[i] \in StandsIn(c, h.needle) /\ (lo + found[i]) + n - 1 <= top
      BY <1>5, <1>10, <2>1, <2>2
    <2>5. \A at \in (lo + found[i])..((lo + found[i]) + n - 1) : ReadsAt(c, at)
      <3>1. \A at \in (lo + found[i])..((lo + found[i]) + n - 1) : at \in (lo + 1)..top
        BY <1>1, <1>2, <1>3, <2>2, <2>4 DEF n
      <3> QED
        BY <1>9, <3>1
    <2>6. (lo + found[i]) + n - 1 > h.pos
      BY <1>1, <1>2, <1>8, <2>2 DEF n
    <2> QED
      BY <2>3, <2>4, <2>5, <2>6 DEF IsHit, n
  <1>21. Len(g.hits) <= MaxHits
    BY <1>150
  <1>22. ASSUME NEW i \in 1..Len(g.hits), NEW j \in 1..Len(g.hits), i < j PROVE g.hits[i] < g.hits[j]
    <2>1. CASE i \in 1..old /\ j \in 1..old
      BY <1>15, <1>17, <1>22, <2>1
    <2>2. CASE i \in 1..old /\ j \notin 1..old
      <3>1. PICK b \in 1..more : j = old + b
        BY <1>16, <2>2
      <3>2. g.hits[i] = h.hits[i] /\ g.hits[j] = found[b] + lo
        BY <1>15, <2>2, <3>1
      <3>3. h.hits[i] \in Nat /\ h.hits[i] + n - 1 <= h.pos /\ (found[b] + lo) + n - 1 > h.pos
        BY <1>19, <1>20, <2>2
      <3>4. found[b] + lo \in Nat
        BY <1>1, <1>12
      <3> DEFINE x == h.hits[i]
                 y == found[b] + lo
      <3>5. x \in Nat /\ y \in Nat /\ x + n - 1 <= h.pos /\ y + n - 1 > h.pos
        BY <3>3, <3>4
      <3> HIDE DEF x, y
      <3>6. x < y
        BY <1>1, <1>2, <3>5 DEF n
      <3> QED
        BY <3>2, <3>6 DEF x, y
    <2>3. CASE i \notin 1..old
      <3>1. PICK a \in 1..more : i = old + a
        BY <1>16, <2>3
      <3>2. j \notin 1..old
        BY <1>4, <1>22, <3>1
      <3>3. PICK b \in 1..more : j = old + b
        BY <1>16, <3>2
      <3>4. a < b /\ a \in 1..Len(found) /\ b \in 1..Len(found)
        <4>1. a \in 1..Len(found) /\ b \in 1..Len(found)
          BY <1>5, <1>6
        <4>2. a < b
          BY <1>150, <1>22, <3>1, <3>3
        <4> QED
          BY <4>1, <4>2
      <3>5. found[a] < found[b] /\ found[a] \in Nat /\ found[b] \in Nat
        BY <1>5, <1>12, <3>4
      <3>6. found[a] + lo < found[b] + lo
        BY <1>1, <3>5
      <3> QED
        BY <1>15, <3>1, <3>3, <3>6
    <2> QED
      BY <2>1, <2>2, <2>3
  <1>23. ASSUME NEW i \in 1..Len(g.hits) PROVE IsHit(c, g.needle, g.pos, g.hits[i])
    <2>0. g.pos = top /\ h.pos <= top
      BY <1>1, <1>3 DEF top
    <2>1. CASE i \in 1..old
      <3>1. IsHit(c, h.needle, h.pos, h.hits[i]) /\ g.hits[i] = h.hits[i]
        BY <1>15, <1>17, <2>1
      <3>2. h.hits[i] + n - 1 <= top
        <4> DEFINE x == h.hits[i]
        <4>1. x \in Nat /\ x + n - 1 <= h.pos
          BY <1>19, <2>1
        <4> HIDE DEF x
        <4>2. x + n - 1 <= top
          BY <1>1, <1>2, <1>3, <4>1 DEF n
        <4> QED
          BY <4>2 DEF x
      <3> QED
        BY <2>0, <3>1, <3>2 DEF IsHit, n
    <2>2. CASE i \notin 1..old
      <3>1. PICK b \in 1..more : i = old + b
        BY <1>16, <2>2
      <3> QED
        BY <1>15, <1>20, <2>0, <3>1
    <2> QED
      BY <2>1, <2>2
  <1>24. ASSUME NEW k \in StandsIn(c, h.needle), k + n - 1 <= top
         PROVE  (\E i \in 1..Len(g.hits) : g.hits[i] = k) \/ Excused(c, g, k)
    <2>1. k \in Nat /\ k > 0
      BY <1>18
    <2>2. CASE k + n - 1 <= h.pos
      <3>1. CASE \E i \in 1..old : h.hits[i] = k
        <4>1. PICK i \in 1..old : h.hits[i] = k
          BY <3>1
        <4>2. i \in 1..Len(g.hits) /\ g.hits[i] = k
          <5>1. i \in 1..Len(g.hits)
            BY <1>151, <4>1
          <5> QED
            BY <1>15, <4>1, <5>1
        <4> QED
          BY <4>2
      <3>2. CASE Excused(c, h, k)
        <4>1. ~(Len(h.hits) = MaxHits)
          BY HexSizes, <1>4 DEF old
        <4> QED
          BY <3>2, <4>1 DEF Excused
      <3> QED
        BY <1>17, <2>2, <3>1, <3>2
    <2>3. CASE k + n - 1 > h.pos /\ k > lo
      <3> DEFINE p == k - lo
      <3>1. p \in Nat /\ p > 0 /\ lo + p = k
        BY <1>1, <2>1, <2>3
      <3> HIDE DEF p
      <3>2. p \in HayPlacesOf(hay, h.needle)
        BY <1>11, <1>24, <3>1
      <3>3. PICK i \in 1..Len(found) : found[i] = p
        BY <1>5, <3>2
      <3>4. CASE i <= more
        <4>1. i \in 1..more
          BY <1>6, <3>4
        <4>2. old + i \in 1..Len(g.hits) /\ g.hits[old + i] = k
          <5>1. found[i] + lo = k
            BY <1>1, <3>1, <3>3
          <5> QED
            <6>1. old + i \in 1..Len(g.hits)
              BY <1>151, <4>1
            <6> QED
              BY <1>15, <4>1, <5>1, <6>1
        <4> QED
          BY <4>2
      <3>5. CASE i > more
        <4>1. more = MaxHits - old /\ more > 0 /\ more \in 1..Len(found) /\ more \in 1..more
          <5>1. more = MaxHits - old
            BY <1>5, <1>6, <3>5
          <5>2. more > 0
            BY <1>150, <5>1
          <5> QED
            BY <1>5, <1>6, <5>1, <5>2
        <4>2. Len(g.hits) = MaxHits /\ MaxHits = old + more
          BY <1>151, <4>1
        <4>3. g.hits[MaxHits] = found[more] + lo
          BY <1>15, <4>1, <4>2
        <4>4. found[more] < found[i] /\ found[more] \in Nat
          BY <1>5, <1>12, <3>5, <4>1
        <4>5. found[more] + lo < k
          BY <1>1, <3>1, <3>3, <4>4
        <4> QED
          BY <4>2, <4>3, <4>5 DEF Excused
      <3> QED
        <4>1. i \in Nat
          BY <1>5
        <4>2. i <= more \/ i > more
          BY <1>150, <4>1
        <4> QED
          BY <3>4, <3>5, <4>2
    <2>4. CASE k + n - 1 > h.pos /\ ~(k > lo)
      <3>1. ~(Len(h.carry) = n - 1)
        BY <1>1, <1>2, <1>8, <2>1, <2>4 DEF n
      <3>2. h.pos < WholeOf(c)
        <4>1. WholeOf(c) \in Nat
          BY HexDisk
        <4> QED
          BY <1>1, <1>3, <4>1 DEF top
      <3>3. Len(h.carry) = 0 /\ (h.pos = 0 \/ (h.unread /\ ~ReadsAt(c, h.pos)))
        BY <3>1, <3>2 DEF CarryOk, n
      <3>4. lo = h.pos
        BY <1>1, <1>8, <3>3
      <3>5. h.pos # 0 /\ h.pos \in k..(k + n - 1)
        BY <1>1, <1>2, <2>1, <2>4, <3>4 DEF n
      <3> QED
        BY <3>3, <3>5 DEF Excused, n
    <2> QED
      <3>1. (k + n - 1 <= h.pos \/ k + n - 1 > h.pos) /\ k \in Int /\ lo \in Int
        BY <1>1, <1>2, <2>1 DEF n
      <3> QED
        BY <2>2, <2>3, <2>4, <3>1
  <1>25. \A k \in StandsIn(c, g.needle) : k + Len(g.needle) - 1 <= g.pos =>
           (\E i \in 1..Len(g.hits) : g.hits[i] = k) \/ Excused(c, g, k)
    BY <1>24 DEF n, top
  <1> QED
    BY <1>21, <1>22, <1>23, <1>25 DEF HitsOk

\* A chunk that does not read
LEMMA RecordPassedOver ==
    ASSUME NEW c \in RawContents, NEW h \in HexType, HitsOk(c, h), h.needle \in Needles,
           NEW want \in Nat, want > 0, h.pos + want <= WholeOf(c),
           Len(h.hits) < MaxHits,
           \A at \in (h.pos + 1)..(h.pos + want) : ~ReadsAt(c, at),
           NEW g \in HexType, g.needle = h.needle, g.pos = h.pos + want, g.unread, g.carry = <<>>,
           g.hits = h.hits
    PROVE  CarryOk(c, g) /\ HitsOk(c, g)
  <1> DEFINE top == h.pos + want
             n == Len(h.needle)
  <1>1. h.pos \in Nat /\ c.bytes \in Seq(Nat) /\ n \in Nat \ {0} /\ WholeOf(c) \in Nat
    BY HexDisk, NeedleFits DEF HexType
  <1>2. top \in Nat /\ top \in (h.pos + 1)..top /\ h.pos < top
    BY <1>1
  <1>3. CarryOk(c, g)
    <2>1. Len(g.carry) = 0
      OBVIOUS
    <2> HIDE DEF top, n
    <2>2. g.pos = top /\ g.pos - Len(g.carry) = top /\ ~ReadsAt(c, g.pos)
      BY <1>2, <2>1 DEF top
    <2>3. SubSeq(c.bytes, top + 1, top) = <<>>
      BY <1>2, SubSeqEmpty
    <2>4. Len(g.carry) <= Len(g.needle) - 1
      BY <1>1, <2>1 DEF n
    <2>5. \A at \in (top + 1)..top : ReadsAt(c, at)
      BY <1>2
    <2> QED
      BY <1>2, <2>1, <2>2, <2>3, <2>4, <2>5 DEF CarryOk
  <1>4. ASSUME NEW k, IsHit(c, h.needle, h.pos, k) PROVE IsHit(c, g.needle, g.pos, k)
    <2>1. k \in Nat
      BY <1>1, <1>4 DEF IsHit, StandsIn
    <2>2. k + n - 1 <= h.pos
      BY <1>4 DEF IsHit
    <2> HIDE DEF n, top
    <2>3. k + n - 1 <= top
      BY <1>1, <1>2, <2>1, <2>2
    <2> QED
      BY <1>4, <2>3 DEF IsHit, n, top
  <1>5. ASSUME NEW k \in StandsIn(c, g.needle), k + Len(g.needle) - 1 <= g.pos
        PROVE  (\E i \in 1..Len(g.hits) : g.hits[i] = k) \/ Excused(c, g, k)
    <2>1. k \in Nat
      BY <1>1 DEF StandsIn
    <2>2. CASE k + n - 1 <= h.pos
      <3>1. (\E i \in 1..Len(h.hits) : h.hits[i] = k) \/ Excused(c, h, k)
        BY <2>2 DEF HitsOk
      <3>2. Len(h.hits) # MaxHits
        <4>1. h.hits \in Seq(Nat)
          BY DEF HexType
        <4>2. Len(h.hits) \in Nat
          BY <4>1
        <4> QED
          BY <4>2, HexSizes
      <3> QED
        BY <3>1, <3>2 DEF Excused
    <2>3. CASE ~(k + n - 1 <= h.pos)
      <3> DEFINE at == k + n - 1
      <3>1. at \in (h.pos + 1)..top /\ at \in k..(k + n - 1)
        <4>1. at \in Int /\ at >= k /\ ~(at <= h.pos) /\ at <= top
          BY <1>1, <1>5, <2>1, <2>3
        <4> HIDE DEF top, n
        <4>2. at \in k..at
          <5> HIDE DEF at
          <5> QED
            BY <2>1, <4>1
        <4> HIDE DEF at
        <4>3. at \in (h.pos + 1)..top
          BY <1>1, <1>2, <4>1
        <4> QED
          BY <4>2, <4>3 DEF at
      <3>2. ~ReadsAt(c, at)
        BY <3>1
      <3> QED
        BY <3>1, <3>2 DEF Excused
    <2> QED
      BY <2>2, <2>3
  <1>6. HitsOk(c, g)
    BY <1>4, <1>5 DEF HitsOk
  <1> QED
    BY <1>3, <1>6

LEMMA HexInitInv == ASSUME RawInit PROVE HexInv
  <1>1. /\ content \in RawContents
        /\ hex = [pc |-> "idle", needle |-> <<>>, pos |-> 0, carry |-> <<>>, hits |-> <<>>, unread |-> FALSE]
    BY DEF RawInit
  <1>2. <<>> \in Seq(Nat)
    OBVIOUS
  <1>3. hex \in HexType
    BY <1>1, <1>2 DEF HexType
  <1> QED
    BY <1>1, <1>3 DEF HexInv, HexOk

LEMMA HexBegins ==
    ASSUME HexInv, BeginHex
    PROVE  HexInv'
  <1>1. PICK needle \in Needles :
          hex' = [hex EXCEPT !.pc = IF Size < Len(needle) THEN "done" ELSE "chunk", !.needle = needle]
    BY DEF BeginHex
  <1>2. content' = content /\ hex.pc = "idle"
    BY DEF BeginHex
  <1>3. content \in RawContents /\ hex \in HexType /\ hex.pos = 0 /\ hex.carry = <<>> /\ hex.hits = <<>>
    BY <1>2 DEF HexInv, HexOk
  <1>4. needle \in Seq(Nat) /\ Len(needle) \in Nat \ {0}
    BY NeedleFits
  <1>5. /\ hex' \in HexType /\ hex'.needle = needle /\ hex'.pos = 0 /\ hex'.carry = <<>> /\ hex'.hits = <<>>
        /\ hex'.pc = IF Len(content.bytes) < Len(needle) THEN "done" ELSE "chunk"
    BY <1>1, <1>3, <1>4 DEF HexType, Size
  <1> DEFINE g == hex'
             c == content
  <1>6. c.bytes \in Seq(Nat) /\ WholeOf(c) \in Nat
    BY <1>3, HexDisk
  <1>7. AtChunk(c, g.pos)
    <2>1. 0 = 0 * RawChunk /\ 0 \in Nat
      BY HexSizes
    <2> QED
      BY <1>5, <1>6, <2>1 DEF AtChunk
  <1>8. CarryOk(c, g)
    <2>0. Len(<<>>) = 0
      OBVIOUS
    <2>1. Len(g.carry) = 0 /\ g.pos - Len(g.carry) = 0 /\ Len(g.carry) <= Len(g.needle) - 1
      <3>1. Len(g.carry) = 0 /\ g.pos = 0
        BY <1>5, <2>0
      <3> HIDE DEF g
      <3>2. Len(g.needle) = Len(needle)
        BY <1>5 DEF g
      <3> QED
        BY <1>4, <3>1, <3>2
    <2>2. SubSeq(c.bytes, 0 + 1, 0) = <<>>
      BY SubSeqEmpty
    <2>3. 1..0 = {} /\ 0 \in Nat
      OBVIOUS
    <2> QED
      BY <1>5, <2>1, <2>2, <2>3 DEF CarryOk
  <1>9. HitsOk(c, g)
    <2>1. Len(g.hits) = 0
      BY <1>5
    <2>2. ASSUME NEW k \in StandsIn(c, g.needle) PROVE ~(k + Len(g.needle) - 1 <= g.pos)
      <3>1. k \in Nat /\ k > 0
        BY <1>4, <1>5, <1>6 DEF StandsIn
      <3> QED
        BY <1>4, <1>5, <3>1
    <2>3. 0 <= MaxHits /\ 1..0 = {}
      BY HexSizes
    <2> QED
      BY <2>1, <2>2, <2>3 DEF HitsOk
  <1> QED
    BY <1>2, <1>3, <1>5, <1>7, <1>8, <1>9 DEF HexInv, HexOk

LEMMA HexGoesOn ==
    ASSUME HexInv, HexChunk
    PROVE  HexInv'
  <1> DEFINE c == content
             want == (Least(RawChunk, Len(c.bytes) - hex.pos) \div SectorBytes) * SectorBytes
             first == hex.pos \div SectorBytes
             hay == HexHay(c, hex, want)
             found == Occurrences(hay, hex.needle)
             room == MaxHits - Len(hex.hits)
             reads == c.bad \cap (first..(first + (want \div SectorBytes) - 1)) = {}
  <1>1. content' = content /\ hex.pc = "chunk"
    BY DEF HexChunk
  <1>2. /\ c \in RawContents /\ hex \in HexType /\ hex.needle \in Needles /\ AtChunk(c, hex.pos)
        /\ CarryOk(c, hex) /\ HitsOk(c, hex)
    BY <1>1 DEF HexInv, HexOk
  <1>3. hex.pos \in Nat /\ hex.hits \in Seq(Nat) /\ hex.carry \in Seq(Nat) /\ hex.needle \in Seq(Nat)
    BY <1>2 DEF HexType
  <1>4. /\ want \in Nat /\ hex.pos + want <= WholeOf(c) /\ (want = 0 => hex.pos = WholeOf(c))
        /\ AtChunk(c, hex.pos + want)
        /\ hex.pos + want # WholeOf(c) => want = RawChunk
        /\ \A at \in (hex.pos + 1)..(hex.pos + want) : ReadsAt(c, at) <=> reads
    BY <1>2, <1>3, HexWant
  <1>5. Len(hex.hits) \in Nat /\ Len(hex.hits) <= MaxHits
    BY <1>2, <1>3 DEF HitsOk
  <1>6. \/ (want = 0 \/ room = 0) /\ hex' = [hex EXCEPT !.pc = "done"]
        \/ /\ want > 0 /\ room > 0 /\ ~reads
           /\ hex' = [hex EXCEPT !.unread = TRUE, !.carry = <<>>, !.pos = @ + want]
        \/ /\ want > 0 /\ room > 0 /\ reads
           /\ hex' = [hex EXCEPT !.hits = @ \o [k \in 1..Least(room, Len(found)) |->
                                                  found[k] + (hex.pos - Len(hex.carry))],
                                 !.carry = Carry(hay, hex.needle), !.pos = @ + want]
    BY DEF HexChunk, Reads, Size, HexHay
  <1> HIDE DEF want, reads
  <1>7. CASE (want = 0 \/ room = 0) /\ hex' = [hex EXCEPT !.pc = "done"]
    <2>1. /\ hex' \in HexType /\ hex'.pc = "done" /\ hex'.needle = hex.needle /\ hex'.pos = hex.pos
          /\ hex'.carry = hex.carry /\ hex'.hits = hex.hits /\ hex'.unread = hex.unread
      BY <1>2, <1>7 DEF HexType
    <2>2. CarryOk(c, hex') /\ HitsOk(c, hex')
      BY <1>2, <2>1 DEF CarryOk, HitsOk, Excused
    <2>3. hex.pos = WholeOf(c) \/ Len(hex.hits) = MaxHits
      <3>1. room = 0 => Len(hex.hits) = MaxHits
        BY <1>5, HexSizes
      <3> QED
        BY <1>4, <1>7, <3>1
    <2> QED
      BY <1>1, <1>2, <2>1, <2>2, <2>3 DEF HexInv, HexOk
  <1>8. CASE /\ want > 0 /\ room > 0 /\ ~reads
             /\ hex' = [hex EXCEPT !.unread = TRUE, !.carry = <<>>, !.pos = @ + want]
    <2>1. hex.pos + want \in Nat /\ <<>> \in Seq(Nat)
      BY <1>3, <1>4
    <2>2. /\ hex' \in HexType /\ hex'.pc = "chunk" /\ hex'.needle = hex.needle /\ hex'.pos = hex.pos + want
          /\ hex'.carry = <<>> /\ hex'.hits = hex.hits /\ hex'.unread
      BY <1>1, <1>2, <1>8, <2>1 DEF HexType
    <2>3. Len(hex.hits) < MaxHits
      BY <1>5, <1>8, HexSizes
    <2>4. CarryOk(c, hex') /\ HitsOk(c, hex')
      BY <1>2, <1>4, <1>8, <2>2, <2>3, RecordPassedOver
    <2> QED
      BY <1>1, <1>2, <1>4, <2>2, <2>4 DEF HexInv, HexOk
  <1>9. CASE /\ want > 0 /\ room > 0 /\ reads
             /\ hex' = [hex EXCEPT !.hits = @ \o [k \in 1..Least(room, Len(found)) |->
                                                    found[k] + (hex.pos - Len(hex.carry))],
                                   !.carry = Carry(hay, hex.needle), !.pos = @ + want]
    <2> DEFINE new == [k \in 1..Least(room, Len(found)) |-> found[k] + (hex.pos - Len(hex.carry))]
    <2>1. Len(hex.hits) < MaxHits
      BY <1>5, <1>9, HexSizes
    <2>2. hay \in Seq(Nat) /\ hex.pos - Len(hex.carry) \in Nat
      BY <1>2, <1>4, HayIsDisk
    <2>3. /\ found \in Seq(Nat) /\ Len(found) \in Nat
      BY <1>3, <2>2, OccurrencesFacts
    <2>4. new \in Seq(Nat)
      <3> DEFINE m == Least(room, Len(found))
                 lo == hex.pos - Len(hex.carry)
      <3>0. room \in Nat
        BY <1>5, <2>1, HexSizes
      <3> HIDE DEF room, found, lo
      <3>1. m \in Nat /\ m <= Len(found)
        BY <2>3, <3>0, LeastIs
      <3> HIDE DEF m
      <3>2. \A k \in 1..m : found[k] \in Nat
        BY <2>3, <3>1
      <3>3. \A k \in 1..m : found[k] + lo \in Nat
        BY <2>2, <3>2 DEF lo
      <3>4. [k \in 1..m |-> found[k] + lo] \in Seq(Nat)
        BY <3>1, <3>3
      <3> QED
        BY <3>4 DEF m, lo
    <2>5. Carry(hay, hex.needle) \in Seq(Nat)
      <3>1. Len(hay) \in Nat /\ Len(hex.needle) \in Nat \ {0}
        BY <1>2, <2>2, NeedleFits
      <3> DEFINE a == Len(hay) - Len(hex.needle) + 1
      <3>2. CASE Len(hay) >= Len(hex.needle) - 1
        <4>1. a \in Nat /\ a <= Len(hay) /\ a + 1 = Len(hay) - Len(hex.needle) + 2
          BY <3>1, <3>2
        <4> HIDE DEF a
        <4>2. SubSeq(hay, a + 1, Len(hay)) \in Seq(Nat)
          <5> HIDE DEF hay
          <5> QED
            BY <2>2, <3>1, <4>1, Cut
        <4> QED
          BY <3>2, <4>1, <4>2 DEF Carry
      <3>3. CASE ~(Len(hay) >= Len(hex.needle) - 1)
        BY <3>3 DEF Carry
      <3> QED
        BY <3>2, <3>3
    <2> HIDE DEF new, hay
    <2>6. hex.hits \o new \in Seq(Nat)
      BY <1>3, <2>4, ConcatProperties
    <2>7. hex.pos + want \in Nat
      BY <1>3, <1>4
    <2>8. /\ hex' \in HexType /\ hex'.pc = "chunk" /\ hex'.needle = hex.needle /\ hex'.pos = hex.pos + want
          /\ hex'.carry = Carry(hay, hex.needle) /\ hex'.hits = hex.hits \o new /\ hex'.unread = hex.unread
      <3>1. hex' = [hex EXCEPT !.hits = @ \o new, !.carry = Carry(hay, hex.needle), !.pos = @ + want]
        BY <1>9 DEF new
      <3> QED
        BY <1>1, <1>2, <2>5, <2>6, <2>7, <3>1 DEF HexType
    <2>9. \A at \in (hex.pos + 1)..(hex.pos + want) : ReadsAt(c, at)
      BY <1>4, <1>9
    <2>10. CarryOk(c, hex')
      BY <1>2, <1>4, <2>8, <2>9, CarryKept DEF hay
    <2>11. HitsOk(c, hex')
      BY <1>2, <1>4, <1>9, <2>1, <2>8, <2>9, HitsKept DEF hay, new
    <2> QED
      BY <1>1, <1>2, <1>4, <2>8, <2>10, <2>11 DEF HexInv, HexOk
  <1> QED
    BY <1>6, <1>7, <1>8, <1>9

LEMMA HexStepInv == ASSUME HexInv, [RawNext]_rawVars PROVE HexInv'
  <1>1. CASE CarveNext
    <2>1. content' = content /\ hex' = hex
      BY <1>1 DEF CarveNext, Begin, NextChunk, ReadPiece, Byte, Prune, ChunkDone, Finish
    <2> QED
      BY <2>1 DEF HexInv
  <1>2. CASE BeginHex
    BY <1>2, HexBegins
  <1>3. CASE HexChunk
    BY <1>3, HexGoesOn
  <1>4. CASE UNCHANGED rawVars
    <2>1. content' = content /\ hex' = hex
      BY <1>4 DEF rawVars
    <2> QED
      BY <2>1 DEF HexInv
  <1> QED
    BY <1>1, <1>2, <1>3, <1>4 DEF RawNext, HexNext

LEMMA HexInvIsExact == ASSUME HexInv PROVE HexSearchIsExact
  <1> SUFFICES ASSUME hex.pc = "done" PROVE HexSearchIsExact
    BY DEF HexSearchIsExact
  <1> DEFINE c == content
             n == Len(hex.needle)
  <1>1. /\ c \in RawContents /\ hex \in HexType /\ hex.needle \in Needles
        /\ HitsOk(c, hex) /\ AtChunk(c, hex.pos)
        /\ hex.pos = WholeOf(c) \/ Len(hex.hits) = MaxHits \/ Len(c.bytes) < n
    BY DEF HexInv, HexOk
  <1>2. hex.hits \in Seq(Nat) /\ hex.pos \in Nat /\ hex.unread \in BOOLEAN
    BY <1>1 DEF HexType
  <1>3. DOMAIN hex.hits = 1..Len(hex.hits) /\ Len(hex.hits) \in Nat
    BY <1>2
  <1>4. n \in Nat \ {0}
    BY <1>1, NeedleFits
  <1>5. Standing(hex.needle) = StandsIn(c, hex.needle)
    BY DEF Standing, StandsIn, EndOfRange, Size, WholeOf
  <1>6. \A at : ChunkReads(at) <=> ReadsAt(c, at)
    BY DEF ChunkReads, ReadsAt, EndOfRange, Size, Reads
  <1>7. \A k : Through(hex.needle, k) = k..(k + n - 1)
    BY DEF Through
  <1>8. WholeOf(c) \in Nat /\ WholeOf(c) <= Len(c.bytes) /\ Len(c.bytes) \in Nat
    BY <1>1, HexDisk
  <1>9. ASSUME NEW k \in Standing(hex.needle), k \notin Range(hex.hits) PROVE Excused(c, hex, k)
    <2>1. k \in StandsIn(c, hex.needle) /\ k \in Nat /\ k > 0 /\ k + n - 1 <= WholeOf(c)
      <3>1. k \in 1..(WholeOf(c) - n + 1)
        BY <1>5 DEF StandsIn
      <3> QED
        BY <1>4, <1>5, <1>8, <3>1
    <2>2. ~\E i \in 1..Len(hex.hits) : hex.hits[i] = k
      BY <1>3, <1>9 DEF Range
    <2>3. CASE k + n - 1 <= hex.pos
      BY <1>1, <2>1, <2>2, <2>3 DEF HitsOk
    <2>4. CASE ~(k + n - 1 <= hex.pos)
      <3>1. hex.pos # WholeOf(c) /\ ~(Len(c.bytes) < n)
        BY <1>2, <1>4, <1>8, <2>1, <2>4
      <3>2. Len(hex.hits) = MaxHits /\ MaxHits \in 1..Len(hex.hits)
        BY <1>1, <3>1, HexSizes
      <3> DEFINE last == hex.hits[MaxHits]
      <3>3. last \in StandsIn(c, hex.needle) /\ last + n - 1 <= hex.pos
        BY <1>1, <3>2 DEF HitsOk, IsHit
      <3>4. last \in Nat
        BY <1>2, <3>2
      <3> HIDE DEF last
      <3>5. last < k
        BY <1>2, <1>4, <2>1, <2>4, <3>3, <3>4
      <3> QED
        BY <3>2, <3>5 DEF last, Excused
    <2> QED
      BY <2>3, <2>4
  <1>10. \A i, j \in DOMAIN hex.hits : i < j => hex.hits[i] < hex.hits[j]
    BY <1>1, <1>3 DEF HitsOk
  <1>11. \A i \in DOMAIN hex.hits :
           hex.hits[i] \in Standing(hex.needle) /\ \A at \in Through(hex.needle, hex.hits[i]) : ChunkReads(at)
    BY <1>1, <1>3, <1>5, <1>6, <1>7 DEF HitsOk, IsHit
  <1>12. \A k \in Standing(hex.needle) \ Range(hex.hits) :
           \/ Len(hex.hits) = MaxHits /\ hex.hits[MaxHits] < k
           \/ hex.unread /\ \E at \in Through(hex.needle, k) : ~ChunkReads(at)
    BY <1>6, <1>7, <1>9 DEF Excused
  <1> QED
    BY <1>10, <1>11, <1>12 DEF HexSearchIsExact

\* Whatever the disk, its bad sectors, the size of the chunks and the needle, a
\* raw search returns places of the needle in order, and hides none but behind
\* its limit or in a chunk that it reports as unread (searchRawBytes).
THEOREM RawSearchesAreExact == RawSpec => []HexSearchIsExact
  <1>1. RawInit => HexInv
    BY HexInitInv
  <1>2. HexInv /\ [RawNext]_rawVars => HexInv'
    BY HexStepInv
  <1>3. HexInv => HexSearchIsExact
    BY HexInvIsExact
  <1> QED
    BY <1>1, <1>2, <1>3, PTL DEF RawSpec
=============================================================================
