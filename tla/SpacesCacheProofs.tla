-------------------------- MODULE SpacesCacheProofs --------------------------
(***************************************************************************)
(* Proofs about SpacesCache, for any readers, filters, page sizes and      *)
(* bounds.                                                                 *)
(***************************************************************************)
EXTENDS SpacesCache, FiniteSetTheorems, TLAPS

USE BoundsAssumption, NoneAssumption

-----------------------------------------------------------------------------
(* The invariant *)

(* A page that was read under filter f, after a commit that was made. *)
ReadUnder(entry, f) ==
    /\ entry.at <= Now
    /\ \E cursor \in 0..MaxSpaces :
         entry.body = ListSpaces(db[entry.at], f, cursor)

(* A page that was asked for with neither filter nor cursor is the first. *)
FirstIfPlain(entry) ==
    entry.plain => entry.body = ListSpaces(db[entry.at], None, 0)

(* Does a page for spaces:list know every space whose keys were deleted? *)
KnowsListed(entry) == straddled \/ listed \subseteq Created(db[entry.at])

(* What a read knows at each of its steps. *)
Knows(x) ==
    /\ x.pc \in {"get", "query", "fill"} => x.key \in {None, x.filter}
    /\ x.pc = "fill" =>
         /\ x.entry \in Entries
         /\ ReadUnder(x.entry, x.filter)
         /\ FirstIfPlain(x.entry)
         /\ x.key = None => KnowsListed(x.entry)
    /\ x.pc \in {"queryId", "fillId"} => x.space \in Spaces
    /\ x.pc = "fillId" => x.row \in Rows

(* What is known of the page under key f. *)
Kept(f, entry) ==
    entry # None =>
        /\ entry.at <= Now
        /\ FirstIfPlain(entry)
        /\ f # None => ReadUnder(entry, f)
        /\ f = None => KnowsListed(entry)

ReadersInv == \A r \in Readers : Knows(reader[r])
ListInv == \A f \in MaybeFilter : Kept(f, list[f])

(* Keys are deleted, or about to be, only for spaces that are there. *)
ListedInv == uncached \cup listed \subseteq Created(db[Now])

Inv == TypeOK /\ ReadersInv /\ ListInv /\ ListedInv

-----------------------------------------------------------------------------
(* Types *)

LEMMA FaultCounted ==
  ASSUME faults \in 0..MaxFaults, Fault \/ UNCHANGED faults
  PROVE faults' \in 0..MaxFaults
  BY DEF Fault

LEMMA IdleTyped == Idle \in ReaderRec /\ Idle.pc = "idle"
  BY DEF Idle, ReaderRec, MaybeFilter

LEMMA PageTyped ==
  ASSUME NEW table \in Table, NEW f \in MaybeFilter, NEW c \in 0..MaxSpaces
  PROVE ListSpaces(table, f, c) \in Bodies
<1> DEFINE found == {s \in Created(table) : s > c /\ f \in {None, table[s]}}
           page == {s \in found : Cardinality({t \in found : t < s}) < PageSize}
<1>1. page \in SUBSET Spaces
  BY DEF Created
<1>2. \A s \in page : table[s] \in Rows
  BY DEF Created, Table
<1>3. [s \in page |-> table[s]] \in [page -> Rows]
  BY <1>2
<1>4. ListSpaces(table, f, c) = [s \in page |-> table[s]]
  BY DEF ListSpaces
<1> HIDE DEF page
<1> QED BY <1>1, <1>3, <1>4 DEF Bodies

(* A space whose number is within the page size is on the first page: the   *)
(* spaces before it are too few to fill the page.                           *)
LEMMA OnFirstPage ==
  ASSUME NEW table, NEW s \in Created(table), s <= PageSize
  PROVE s \in DOMAIN ListSpaces(table, None, 0)
<1> DEFINE found == {t \in Created(table) : t > 0 /\ None \in {None, table[t]}}
           before == {t \in found : t < s}
           page == {u \in found : Cardinality({t \in found : t < u}) < PageSize}
<1>1. s \in found /\ s \in 1..MaxSpaces
  BY DEF Created, Spaces
<1>2. before \subseteq 1..(s - 1)
  BY <1>1 DEF Created, Spaces
<1>3. IsFiniteSet(1..(s - 1)) /\ Cardinality(1..(s - 1)) = s - 1
  BY <1>1, FS_Interval
<1>4. Cardinality(before) \in Nat /\ Cardinality(before) <= s - 1
  BY <1>2, <1>3, FS_Subset, FS_CardinalityType
<1> HIDE DEF found, before
<1>5. Cardinality(before) < PageSize
  BY <1>1, <1>4
<1>6. s \in page
  BY <1>1, <1>5 DEF before
<1>7. ListSpaces(table, None, 0) = [u \in page |-> table[u]]
  BY DEF ListSpaces, found
<1> HIDE DEF page
<1> QED BY <1>6, <1>7

(* A commit leaves the earlier tables as they are. *)
LEMMA CommitKeeps ==
  ASSUME db \in Seq(Table), Now \in 1..MaxCommits, NEW s \in Spaces,
         NEW row \in Rows, Commit(s, row)
  PROVE /\ db' \in Seq(Table) /\ Now' = Now + 1
        /\ Now' \in 1..(MaxCommits + 1)
        /\ \A n \in 1..Now : db'[n] = db[n]
        /\ db'[Now'] = [db[Now] EXCEPT ![s] = row]
        /\ Created(db[Now]) \cup {s} = Created(db'[Now'])
<1>1. db[Now] \in Table
  BY DEF Now
<1>2. [db[Now] EXCEPT ![s] = row] \in Table
  BY <1>1 DEF Table
<1>3. /\ db' \in Seq(Table) /\ Now' = Now + 1
      /\ \A n \in 1..Now : db'[n] = db[n]
      /\ db'[Now'] = [db[Now] EXCEPT ![s] = row]
  BY <1>2 DEF Commit, Now
<1>4. Created(db'[Now']) = Created(db[Now]) \cup {s}
  BY <1>1, <1>3 DEF Created, Table
<1> QED BY <1>3, <1>4

LEMMA InvInit == Init => Inv
<1> SUFFICES ASSUME Init PROVE Inv
  OBVIOUS
<1>1. [s \in Spaces |-> None] \in Table
  BY DEF Table
<1>2. db \in Seq(Table) /\ Now = 1
  BY <1>1 DEF Init, Now
<1>3. /\ reader \in [Readers -> ReaderRec]
      /\ \A r \in Readers : reader[r] = Idle
  BY IdleTyped DEF Init
<1>4. Now \in 1..(MaxCommits + 1)
  BY <1>2
<1>5. list \in [MaybeFilter -> Entries \cup {None}]
  BY DEF Init
<1>6. gen \in BOOLEAN /\ straddled \in BOOLEAN
  BY DEF Init
<1>7. byId \in Table
  BY <1>1 DEF Init
<1>8. uncached \in SUBSET Spaces /\ listed \in SUBSET Spaces
  BY DEF Init
<1>9. faults \in 0..MaxFaults
  BY DEF Init
<1>10. TypeOK
  BY <1>2, <1>3, <1>4, <1>5, <1>6, <1>7, <1>8, <1>9 DEF TypeOK
<1>11. ReadersInv
  BY <1>3, IdleTyped DEF ReadersInv, Knows
<1>12. ListInv
  BY DEF Init, ListInv, Kept
<1>13. ListedInv
  BY DEF Init, ListedInv
<1> QED BY <1>10, <1>11, <1>12, <1>13 DEF Inv

-----------------------------------------------------------------------------
(* What grows, and what stays *)

(* The table's history may grow. *)
Grows ==
    /\ Now \in Nat /\ Now' \in Nat /\ Now <= Now'
    /\ \A n \in 1..Now : db'[n] = db[n]

LEMMA ReadUnderStays ==
  ASSUME Grows, NEW e \in Entries, NEW f, ReadUnder(e, f)
  PROVE /\ ReadUnder(e, f)' /\ db'[e.at] = db[e.at]
        /\ FirstIfPlain(e)' = FirstIfPlain(e)
<1>1. e.at \in 1..Now
  BY DEF Entries, ReadUnder, Grows
<1>2. db'[e.at] = db[e.at]
  BY <1>1 DEF Grows
<1> QED BY <1>1, <1>2 DEF ReadUnder, FirstIfPlain, Grows

LEMMA KnowsStays ==
  ASSUME Grows, UNCHANGED historyVars, NEW x, Knows(x)
  PROVE Knows(x)'
<1>1. x.pc = "fill" => KnowsListed(x.entry)' = KnowsListed(x.entry)
  BY ReadUnderStays DEF Knows, KnowsListed, historyVars
<1>2. x.pc = "fill" => ReadUnder(x.entry, x.filter)' /\ FirstIfPlain(x.entry)'
  BY ReadUnderStays DEF Knows
<1> QED BY <1>1, <1>2 DEF Knows

LEMMA KeptStays ==
  ASSUME Grows, UNCHANGED historyVars, NEW f \in MaybeFilter,
         NEW e \in Entries \cup {None}, Kept(f, e)
  PROVE Kept(f, e)'
<1> SUFFICES ASSUME e # None
             PROVE Kept(f, e)'
  BY DEF Kept
<1>1. e \in Entries /\ e.at \in 1..Now
  BY DEF Kept, Entries, Grows
<1>2. e.at <= Now'
  BY <1>1 DEF Grows
<1>3. KnowsListed(e)' = KnowsListed(e)
  BY <1>1 DEF Grows, KnowsListed, historyVars
<1>4. f # None => ReadUnder(e, f)'
  BY <1>1, ReadUnderStays DEF Kept
<1>5. FirstIfPlain(e)'
  BY <1>1 DEF Grows, Kept, FirstIfPlain
<1> QED BY <1>2, <1>3, <1>4, <1>5 DEF Kept

(* A step of one read that leaves table and history. *)
LEMMA ReaderSteps ==
  ASSUME Inv, UNCHANGED <<db, historyVars>>, NEW r \in Readers,
         NEW y \in ReaderRec, Knows(y), reader' = [reader EXCEPT ![r] = y]
  PROVE ReadersInv' /\ reader' \in [Readers -> ReaderRec]
<1>1. Grows
  BY DEF Inv, TypeOK, Grows, Now
<1>2. \A q \in Readers : Knows(reader'[q])
  BY DEF Inv, TypeOK, ReadersInv
<1>3. \A x : Knows(x) => Knows(x)'
  BY <1>1, KnowsStays DEF historyVars
<1> QED BY <1>2, <1>3 DEF Inv, TypeOK, ReadersInv

(* A key is set to what is known of it, or to nothing. *)
LEMMA ListSteps ==
  ASSUME Inv, UNCHANGED <<db, historyVars>>, NEW f \in MaybeFilter,
         NEW e \in Entries \cup {None}, Kept(f, e),
         list' \in {list, [list EXCEPT ![f] = e]}
  PROVE ListInv' /\ list' \in [MaybeFilter -> Entries \cup {None}]
<1>1. Grows
  BY DEF Inv, TypeOK, Grows, Now
<1>2. /\ \A g \in MaybeFilter : Kept(g, list'[g])
      /\ list' \in [MaybeFilter -> Entries \cup {None}]
  BY DEF Inv, TypeOK, ListInv
<1>3. \A g \in MaybeFilter, x \in Entries \cup {None} : Kept(g, x) => Kept(g, x)'
  BY <1>1, KeptStays DEF historyVars
<1> QED BY <1>2, <1>3 DEF ListInv

-----------------------------------------------------------------------------
(* One lemma per operation *)

(* A commit that adds to the created spaces. *)
LEMMA CommitPreserves ==
  ASSUME Inv, NEW s \in Spaces, NEW row \in Rows, Now <= MaxCommits,
         Commit(s, row), uncached' \in {uncached, uncached \cup {s}},
         UNCHANGED <<cacheVars, reader, historyVars, faults>>
  PROVE Inv'
<1>1. db \in Seq(Table) /\ Now \in 1..MaxCommits
  BY DEF Inv, TypeOK
<1>2. /\ db' \in Seq(Table) /\ Now' = Now + 1
      /\ Now' \in 1..(MaxCommits + 1)
      /\ \A n \in 1..Now : db'[n] = db[n]
      /\ Created(db[Now]) \cup {s} = Created(db'[Now'])
  BY <1>1, CommitKeeps
<1>3. Grows
  BY <1>1, <1>2 DEF Grows
<1>4. ReadersInv'
  BY <1>3, KnowsStays DEF Inv, ReadersInv
<1>5. ListInv'
  <2>1. \A g \in MaybeFilter, x \in Entries \cup {None} : Kept(g, x) => Kept(g, x)'
    BY <1>3, KeptStays
  <2> QED BY <2>1 DEF Inv, TypeOK, ListInv, cacheVars
<1>6. ListedInv'
  BY <1>2 DEF Inv, ListedInv, historyVars
<1>7. uncached' \in SUBSET Spaces /\ listed' \in SUBSET Spaces
  BY DEF Inv, TypeOK, historyVars
<1>8. UNCHANGED <<list, gen, byId, straddled>>
  BY DEF cacheVars, historyVars
<1>9. TypeOK'
  BY <1>2, <1>7, <1>8 DEF Inv, TypeOK
<1> QED BY <1>4, <1>5, <1>6, <1>9 DEF Inv

LEMMA CreateSpacePreserves ==
  ASSUME Inv, NEW s \in Spaces, CreateSpace(s)
  PROVE Inv'
BY CommitPreserves DEF CreateSpace, Rows

LEMMA WorkerWritePreserves ==
  ASSUME Inv, NEW s \in Spaces, NEW row \in Rows, WorkerWrite(s, row)
  PROVE Inv'
BY CommitPreserves DEF WorkerWrite

LEMMA InvalidatePreserves ==
  ASSUME Inv, NEW s \in Spaces, Invalidate(s)
  PROVE Inv'
<1>1. /\ s \in uncached /\ uncached' = uncached \ {s}
      /\ UNCHANGED <<db, reader>>
  BY DEF Invalidate
<1>2. Grows
  BY <1>1 DEF Inv, TypeOK, Grows, Now
<1>3. CASE /\ list' = [list EXCEPT ![None] = None]
           /\ gen' = FALSE
           /\ byId' = [byId EXCEPT ![s] = None]
           /\ listed' = listed \cup {s}
           /\ straddled' = (straddled \/ \E r \in Readers : Straddles(r, s))
           /\ UNCHANGED faults
  <2>1. ListedInv'
    BY <1>1, <1>3 DEF Inv, ListedInv, Now
  <2>2. ASSUME NEW r \in Readers
        PROVE Knows(reader[r])'
    <3> DEFINE e == reader[r].entry
    <3>1. Knows(reader[r]) /\ UNCHANGED <<db, reader>>
      BY <1>1 DEF Inv, ReadersInv
    <3>2. reader[r].pc = "fill" =>
              ReadUnder(e, reader[r].filter)' /\ FirstIfPlain(e)'
      BY <3>1 DEF Knows, ReadUnder, FirstIfPlain, Now
    <3>3. ASSUME reader[r].pc = "fill", reader[r].key = None
          PROVE KnowsListed(e)'
      <4>1. CASE straddled'
        BY <4>1 DEF KnowsListed
      <4>2. CASE ~ straddled'
        <5>1. ~ straddled /\ ~ Straddles(r, s)
          BY <1>3, <4>2
        <5>2. db[e.at][s] # None
          BY <3>3, <5>1 DEF Straddles
        <5>3. listed \subseteq Created(db[e.at])
          BY <3>1, <3>3, <5>1 DEF Knows, KnowsListed
        <5> QED BY <1>3, <3>1, <5>2, <5>3 DEF KnowsListed, Created
      <4> QED BY <4>1, <4>2
    <3> QED BY <3>1, <3>2, <3>3 DEF Knows
  <2>3. ASSUME NEW f \in MaybeFilter
        PROVE Kept(f, list[f])'
    <3>1. CASE f = None
      BY <1>3, <3>1 DEF Kept, Inv, TypeOK
    <3>2. CASE f # None
      <4>1. list'[f] = list[f] /\ Kept(f, list[f]) /\ db' = db
        BY <1>1, <1>3, <3>2 DEF Inv, TypeOK, ListInv
      <4> QED BY <3>2, <4>1 DEF Kept, ReadUnder, FirstIfPlain, Now
    <3> QED BY <3>1, <3>2
  <2>4. /\ list' \in [MaybeFilter -> Entries \cup {None}]
        /\ gen' \in BOOLEAN /\ byId' \in Table
    BY <1>3 DEF Inv, TypeOK, Table
  <2>5. straddled' \in BOOLEAN
    BY <1>3, Zenon DEF Inv, TypeOK
  <2>6. uncached' \in SUBSET Spaces /\ listed' \in SUBSET Spaces
    BY <1>1, <1>3 DEF Inv, TypeOK
  <2>7. TypeOK'
    BY <1>1, <1>3, <2>4, <2>5, <2>6 DEF Inv, TypeOK, Now
  <2> QED BY <2>1, <2>2, <2>3, <2>7 DEF Inv, ReadersInv, ListInv
<1>4. CASE Fault /\ UNCHANGED <<cacheVars, listed, straddled>>
  <2>1. ReadersInv'
    BY <1>1, <1>2, <1>4, KnowsStays DEF Inv, ReadersInv, historyVars
  <2>2. ListInv'
    <3>1. Kept(None, None)
      BY DEF Kept
    <3> QED BY <1>1, <1>4, <3>1, ListSteps DEF MaybeFilter, cacheVars, historyVars
  <2>3. ListedInv'
    BY <1>1, <1>4 DEF Inv, ListedInv, Now
  <2>4. TypeOK'
    BY <1>1, <1>4, FaultCounted DEF Inv, TypeOK, Now, cacheVars
  <2> QED BY <2>1, <2>2, <2>3, <2>4 DEF Inv
<1> QED BY <1>3, <1>4 DEF Invalidate

(* A step of one read that changes nothing else but the count of faults. *)
LEMMA ReadPreserves ==
  ASSUME Inv, NEW r \in Readers, NEW y \in ReaderRec, Knows(y),
         reader' = [reader EXCEPT ![r] = y], Fault \/ UNCHANGED faults,
         UNCHANGED <<db, cacheVars, uncached, historyVars>>
  PROVE Inv'
<1>1. ReadersInv' /\ reader' \in [Readers -> ReaderRec]
  BY ReaderSteps
<1>2. ListInv'
  <2>1. Kept(None, None)
    BY DEF Kept
  <2> QED BY <2>1, ListSteps DEF MaybeFilter, cacheVars
<1>3. ListedInv'
  BY DEF Inv, ListedInv, Now, historyVars
<1>4. faults' \in 0..MaxFaults
  BY FaultCounted DEF Inv, TypeOK
<1>5. UNCHANGED <<db, list, gen, byId, uncached, listed, straddled>>
  BY DEF cacheVars, historyVars
<1>6. TypeOK'
  BY <1>1, <1>4, <1>5 DEF Inv, TypeOK, Now
<1> QED BY <1>1, <1>2, <1>3, <1>6 DEF Inv

LEMMA IdleKnows == Knows(Idle)
  BY IdleTyped DEF Knows

LEMMA StartListPreserves ==
  ASSUME Inv, NEW r \in Readers, NEW filter \in MaybeFilter,
         NEW cursor \in 0..MaxSpaces, StartList(r, filter, cursor)
  PROVE Inv'
<1> DEFINE read == [Idle EXCEPT !.filter = filter, !.cursor = cursor]
           get == [read EXCEPT !.pc = "get", !.key = filter]
           query == [read EXCEPT !.pc = "query"]
<1>1. get \in ReaderRec /\ Knows(get)
  BY DEF Idle, ReaderRec, Knows, MaybeFilter
<1>2. query \in ReaderRec /\ Knows(query)
  BY DEF Idle, ReaderRec, Knows, MaybeFilter
<1>3. /\ \/ reader' = [reader EXCEPT ![r] = get]
         \/ reader' = [reader EXCEPT ![r] = query]
      /\ Fault \/ UNCHANGED faults
      /\ UNCHANGED <<db, cacheVars, uncached, historyVars>>
  BY DEF StartList
<1> QED BY <1>1, <1>2, <1>3, ReadPreserves

(* A read that goes on with what it knows. *)
LEMMA GotoKnows ==
  ASSUME Inv, NEW r \in Readers, NEW pc \in {"get", "query"},
         reader[r].pc = "get", Goto(r, pc)
  PROVE \E y \in ReaderRec : Knows(y) /\ reader' = [reader EXCEPT ![r] = y]
<1> DEFINE y == [reader[r] EXCEPT !.pc = pc]
<1>1. reader[r] \in ReaderRec /\ Knows(reader[r])
  BY DEF Inv, TypeOK, ReadersInv
<1>2. y \in ReaderRec
  BY <1>1 DEF ReaderRec
<1>3. y.pc = pc /\ y.key = reader[r].key /\ y.filter = reader[r].filter
  BY <1>1 DEF ReaderRec
<1>4. Knows(y)
  BY <1>1, <1>3 DEF Knows
<1>5. reader' = [reader EXCEPT ![r] = y]
  BY DEF Goto
<1> QED BY <1>2, <1>4, <1>5

LEMMA GetListPreserves ==
  ASSUME Inv, NEW r \in Readers, GetList(r)
  PROVE Inv'
<1>1. /\ Fault \/ UNCHANGED faults
      /\ Answer(r) \/ Goto(r, "query")
      /\ reader[r].pc = "get"
      /\ UNCHANGED <<db, cacheVars, uncached, historyVars>>
  BY DEF GetList
<1>2. CASE Answer(r)
  BY <1>1, <1>2, IdleTyped, IdleKnows, ReadPreserves DEF Answer
<1>3. CASE Goto(r, "query")
  BY <1>1, <1>3, GotoKnows, ReadPreserves
<1> QED BY <1>1, <1>2, <1>3

LEMMA QueryListPreserves ==
  ASSUME Inv, NEW r \in Readers, QueryList(r)
  PROVE Inv'
<1> DEFINE x == reader[r]
           e == Page(x.filter, x.cursor)
           y == [x EXCEPT !.pc = "fill", !.cursor = 0, !.entry = e]
<1>1. x \in ReaderRec /\ Knows(x) /\ x.pc = "query"
  BY DEF Inv, TypeOK, ReadersInv, QueryList
<1>2. db[Now] \in Table /\ Now \in 1..(MaxCommits + 1)
  BY DEF Inv, TypeOK, Now
<1>3. x.filter \in MaybeFilter /\ x.cursor \in 0..MaxSpaces
  BY <1>1 DEF ReaderRec
<1>4. ListSpaces(db[Now], x.filter, x.cursor) \in Bodies
  BY <1>2, <1>3, PageTyped
<1>5. e \in Entries
  BY <1>2, <1>4 DEF Entries, Page
<1>6. 0 \in 0..MaxSpaces
  OBVIOUS
<1>7. /\ e.at = Now /\ e.body = ListSpaces(db[Now], x.filter, x.cursor)
      /\ e.plain => x.filter = None /\ x.cursor = 0
  BY DEF Page
<1> HIDE DEF e
<1>8. y \in ReaderRec
  BY <1>1, <1>5, <1>6 DEF ReaderRec
<1>9. /\ y.pc = "fill" /\ y.key = x.key /\ y.filter = x.filter
      /\ y.entry = e
  BY <1>1 DEF ReaderRec
<1>10. ReadUnder(e, x.filter)
  BY <1>2, <1>3, <1>7 DEF ReadUnder
<1>11. KnowsListed(e) /\ FirstIfPlain(e)
  BY <1>7 DEF KnowsListed, FirstIfPlain, Inv, ListedInv
<1>12. Knows(y)
  BY <1>1, <1>5, <1>9, <1>10, <1>11 DEF Knows
<1>13. /\ reader' = [reader EXCEPT ![r] = y] \/ Answer(r)
       /\ Fault \/ UNCHANGED faults
       /\ UNCHANGED <<db, cacheVars, uncached, historyVars>>
  BY DEF QueryList, e
<1>14. CASE reader' = [reader EXCEPT ![r] = y]
  BY <1>8, <1>12, <1>13, <1>14, ReadPreserves
<1>15. CASE Answer(r)
  BY <1>13, <1>15, IdleTyped, IdleKnows, ReadPreserves DEF Answer
<1> QED BY <1>13, <1>14, <1>15

LEMMA FillListPreserves ==
  ASSUME Inv, NEW r \in Readers, FillList(r)
  PROVE Inv'
<1> DEFINE x == reader[r]
           y == IF x.filter = None THEN Idle ELSE [Idle EXCEPT !.pc = "token"]
<1>1. x \in ReaderRec /\ Knows(x) /\ x.pc = "fill"
  BY DEF Inv, TypeOK, ReadersInv, FillList
<1>2. /\ list' = [list EXCEPT ![x.key] = x.entry] \/ list' = list
      /\ Fault \/ UNCHANGED faults
      /\ UNCHANGED <<db, gen, byId, uncached, historyVars>>
  BY DEF FillList
<1>3. reader' = [reader EXCEPT ![r] = y]
  BY DEF FillList, Answer
<1>4. y \in ReaderRec /\ Knows(y)
  <2> DEFINE t == [Idle EXCEPT !.pc = "token"]
  <2>1. t \in ReaderRec /\ t.pc = "token"
    BY DEF Idle, ReaderRec, MaybeFilter
  <2>2. Knows(t)
    BY <2>1 DEF Knows
  <2> QED BY <2>1, <2>2, IdleTyped, IdleKnows
<1>5. ReadersInv' /\ reader' \in [Readers -> ReaderRec]
  BY <1>2, <1>3, <1>4, ReaderSteps
<1>6. x.key \in MaybeFilter /\ x.entry \in Entries
  BY <1>1 DEF Knows, ReaderRec
<1>7. Kept(x.key, x.entry)
  BY <1>1 DEF Knows, Kept, ReadUnder
<1>8. ListInv' /\ list' \in [MaybeFilter -> Entries \cup {None}]
  BY <1>2, <1>6, <1>7, ListSteps
<1>9. ListedInv'
  BY <1>2 DEF Inv, ListedInv, Now, historyVars
<1>10. faults' \in 0..MaxFaults
  BY <1>2, FaultCounted DEF Inv, TypeOK
<1>11. TypeOK'
  BY <1>2, <1>5, <1>8, <1>10 DEF Inv, TypeOK, Now, historyVars
<1> QED BY <1>5, <1>8, <1>9, <1>11 DEF Inv

(* A step that leaves tables, lists and history. *)
LEMMA Aside ==
  ASSUME Inv, UNCHANGED <<db, list, uncached, historyVars>>, ReadersInv',
         reader' \in [Readers -> ReaderRec], gen' \in BOOLEAN, byId' \in Table,
         Fault \/ UNCHANGED faults
  PROVE Inv'
<1>1. ListInv'
  <2>1. Kept(None, None)
    BY DEF Kept
  <2> QED BY <2>1, ListSteps DEF MaybeFilter
<1>2. ListedInv'
  BY DEF Inv, ListedInv, Now, historyVars
<1>3. faults' \in 0..MaxFaults
  BY FaultCounted DEF Inv, TypeOK
<1>4. TypeOK'
  BY <1>3 DEF Inv, TypeOK, Now, historyVars
<1> QED BY <1>1, <1>2, <1>4 DEF Inv

LEMMA FillTokenPreserves ==
  ASSUME Inv, NEW r \in Readers, FillToken(r)
  PROVE Inv'
<1>1. /\ gen' = TRUE \/ gen' = gen
      /\ Fault \/ UNCHANGED faults
      /\ reader' = [reader EXCEPT ![r] = Idle]
      /\ UNCHANGED <<db, list, byId, uncached, historyVars>>
  BY DEF FillToken, Answer
<1>2. ReadersInv' /\ reader' \in [Readers -> ReaderRec]
  BY <1>1, IdleTyped, IdleKnows, ReaderSteps
<1>3. gen' \in BOOLEAN /\ byId' \in Table
  BY <1>1 DEF Inv, TypeOK
<1> QED BY <1>1, <1>2, <1>3, Aside

LEMMA GetSpacePreserves ==
  ASSUME Inv, NEW r \in Readers, NEW s \in Spaces, GetSpace(r, s)
  PROVE Inv'
<1> DEFINE y == [Idle EXCEPT !.pc = "queryId", !.space = s]
<1>1. y \in ReaderRec
  BY IdleTyped DEF ReaderRec
<1>2. y.pc = "queryId" /\ y.space = s
  BY IdleTyped DEF ReaderRec
<1>3. Knows(y)
  BY <1>2 DEF Knows
<1> QED BY <1>1, <1>3, ReadPreserves DEF GetSpace

LEMMA GetSpaceByIDPreserves ==
  ASSUME Inv, NEW r \in Readers, GetSpaceByID(r)
  PROVE Inv'
<1> DEFINE x == reader[r]
           row == db[Now][x.space]
           y == [x EXCEPT !.pc = "fillId", !.row = row]
<1>1. x \in ReaderRec /\ Knows(x) /\ x.pc = "queryId"
  BY DEF Inv, TypeOK, ReadersInv, GetSpaceByID
<1>2. db[Now] \in Table
  BY DEF Inv, TypeOK, Now
<1>3. x.space \in Spaces /\ row \in Rows \cup {None}
  BY <1>1, <1>2 DEF Knows, Table
<1> HIDE DEF row
<1>4. /\ Answer(r) \/ (row # None /\ reader' = [reader EXCEPT ![r] = y])
      /\ Fault \/ UNCHANGED faults
      /\ UNCHANGED <<db, cacheVars, uncached, historyVars>>
  BY DEF GetSpaceByID, row
<1>5. CASE Answer(r)
  BY <1>4, <1>5, IdleTyped, IdleKnows, ReadPreserves DEF Answer
<1>6. CASE row # None /\ reader' = [reader EXCEPT ![r] = y]
  <2>1. y \in ReaderRec
    BY <1>1, <1>3 DEF ReaderRec
  <2>2. y.pc = "fillId" /\ y.space = x.space /\ y.row = row
    BY <1>1 DEF ReaderRec
  <2>3. Knows(y)
    BY <1>3, <1>6, <2>2 DEF Knows
  <2> QED BY <1>4, <1>6, <2>1, <2>3, ReadPreserves
<1> QED BY <1>4, <1>5, <1>6

LEMMA FillSpacePreserves ==
  ASSUME Inv, NEW r \in Readers, FillSpace(r)
  PROVE Inv'
<1>1. /\ \/ byId' = [byId EXCEPT ![reader[r].space] = reader[r].row]
         \/ byId' = byId
      /\ Fault \/ UNCHANGED faults
      /\ reader' = [reader EXCEPT ![r] = Idle]
      /\ UNCHANGED <<db, list, gen, uncached, historyVars>>
  BY DEF FillSpace, Answer
<1>2. ReadersInv' /\ reader' \in [Readers -> ReaderRec]
  BY <1>1, IdleTyped, IdleKnows, ReaderSteps
<1>3. reader[r].space \in Spaces /\ reader[r].row \in Rows
  BY DEF FillSpace, Inv, ReadersInv, Knows
<1>4. gen' \in BOOLEAN /\ byId' \in Table
  BY <1>1, <1>3 DEF Inv, TypeOK, Table
<1> QED BY <1>1, <1>2, <1>4, Aside

LEMMA ListExpiresPreserves ==
  ASSUME Inv, NEW f \in MaybeFilter, ListExpires(f)
  PROVE Inv'
<1>1. /\ list' = [list EXCEPT ![f] = None]
      /\ UNCHANGED <<db, gen, byId, reader, uncached, historyVars, faults>>
  BY DEF ListExpires
<1>2. Kept(f, None)
  BY DEF Kept
<1>3. ListInv' /\ list' \in [MaybeFilter -> Entries \cup {None}]
  BY <1>1, <1>2, ListSteps
<1>4. ReadersInv'
  <2>1. Grows
    BY <1>1 DEF Inv, TypeOK, Grows, Now
  <2> QED BY <1>1, <2>1, KnowsStays DEF Inv, ReadersInv
<1>5. ListedInv'
  BY <1>1 DEF Inv, ListedInv, Now, historyVars
<1>6. TypeOK'
  BY <1>1, <1>3 DEF Inv, TypeOK, Now, historyVars
<1> QED BY <1>3, <1>4, <1>5, <1>6 DEF Inv

(* The token or a space's key expires. *)
LEMMA KeyExpiresPreserves ==
  ASSUME Inv, UNCHANGED <<db, list, reader, uncached, historyVars, faults>>,
         gen' \in BOOLEAN, byId' \in Table
  PROVE Inv'
<1>1. Grows
  BY DEF Inv, TypeOK, Grows, Now
<1>2. ReadersInv' /\ reader' \in [Readers -> ReaderRec]
  BY <1>1, KnowsStays DEF Inv, TypeOK, ReadersInv
<1> QED BY <1>2, Aside

LEMMA InvNext == Inv /\ [Next]_vars => Inv'
<1> SUFFICES ASSUME Inv, [Next]_vars PROVE Inv'
  OBVIOUS
<1>1. ASSUME NEW s \in Spaces,
             CreateSpace(s) \/ Invalidate(s)
               \/ \E row \in Rows : WorkerWrite(s, row)
      PROVE Inv'
  BY <1>1, CreateSpacePreserves, InvalidatePreserves, WorkerWritePreserves
<1>2. ASSUME NEW r \in Readers, StartRead(r)
      PROVE Inv'
  BY <1>2, StartListPreserves, GetSpacePreserves DEF StartRead
<1>3. ASSUME NEW r \in Readers, ReadStep(r)
      PROVE Inv'
  BY <1>3, GetListPreserves, QueryListPreserves, FillListPreserves,
     FillTokenPreserves, GetSpaceByIDPreserves, FillSpacePreserves
     DEF ReadStep
<1>4. ASSUME NEW s \in Spaces, SpaceExpires(s)
      PROVE Inv'
  <2>1. gen' \in BOOLEAN /\ byId' \in Table
    BY <1>4 DEF SpaceExpires, Inv, TypeOK, Table
  <2> QED BY <1>4, <2>1, KeyExpiresPreserves DEF SpaceExpires
<1>5. CASE TokenExpires
  <2>1. gen' \in BOOLEAN /\ byId' \in Table
    BY <1>5 DEF TokenExpires, Inv, TypeOK
  <2> QED BY <1>5, <2>1, KeyExpiresPreserves DEF TokenExpires
<1>6. CASE UNCHANGED vars
  <2>1. UNCHANGED <<db, list, gen, byId, reader, uncached, historyVars, faults>>
    BY <1>6 DEF vars, cacheVars
  <2>2. gen' \in BOOLEAN /\ byId' \in Table
    BY <2>1 DEF Inv, TypeOK
  <2> QED BY <2>1, <2>2, KeyExpiresPreserves
<1> QED BY <1>1, <1>2, <1>3, <1>4, <1>5, <1>6, ListExpiresPreserves
        DEF Next, Write, Expiry

-----------------------------------------------------------------------------
(* Theorems *)

(* The invariant behind all three. *)
THEOREM InvHolds == Spec => []Inv
  BY InvInit, InvNext, PTL DEF Spec

(* Every variable stays in its set: in particular, no 404 is ever cached,   *)
(* and every cached page names a commit that was made.                      *)
THEOREM TypeCorrect == Spec => []TypeOK
<1>1. Inv => TypeOK
  BY DEF Inv
<1> QED BY <1>1, InvHolds, PTL

(* What ListSpaces caches under a filter passed that filter when it was     *)
(* read, whatever became of the token between the choice of the key and the *)
(* Set.                                                                     *)
THEOREM FiltersKept == Spec => []FilteredListsKeepTheirFilter
<1>1. Inv => FilteredListsKeepTheirFilter
  BY DEF Inv, ListInv, Kept, ReadUnder, FilteredListsKeepTheirFilter,
         MaybeFilter
<1> QED BY <1>1, InvHolds, PTL

(* After ProvisionSpace has deleted spaces:list, a page cached there that   *)
(* was asked for without filter and cursor names the new space, if its      *)
(* place is on the first page: only a fill that straddled the deletion, or  *)
(* a filtered or a later page in its place, can hide it.                    *)
THEOREM NewSpacesListed == Spec => []NewSpaceListed
<1>1. Inv => NewSpaceListed
  <2> SUFFICES ASSUME Inv, list[None] # None, ~ straddled, list[None].plain,
                      NEW s \in listed, s <= PageSize
               PROVE s \in DOMAIN list[None].body
    BY DEF NewSpaceListed
  <2>1. Kept(None, list[None])
    BY DEF Inv, ListInv, MaybeFilter
  <2>2. s \in Created(db[list[None].at])
    BY <2>1 DEF Kept, KnowsListed
  <2>3. list[None].body = ListSpaces(db[list[None].at], None, 0)
    BY <2>1 DEF Kept, FirstIfPlain
  <2> QED BY <2>2, <2>3, OnFirstPage
<1> QED BY <1>1, InvHolds, PTL
=============================================================================
