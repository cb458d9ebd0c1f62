---------------------------- MODULE SpacesCache ----------------------------
(***************************************************************************)
(* GET /channels and GET /channels/{id} before the Valkey read cache, the  *)
(* writes of the spaces table, and the invalidation after some of them.    *)
(*                                                                         *)
(* A read looks into the cache, asks Postgres and fills the cache in steps *)
(* of their own. Only ProvisionSpace deletes keys, after its commit; the   *)
(* workers are built without a cache, and their writes wait for the TTL.   *)
(***************************************************************************)
EXTENDS Naturals, Sequences, FiniteSets

CONSTANTS
    MaxSpaces,   \* bound: spaces, numbered in the order of their creation
    Readers,     \* API goroutines serving reads, one after another
    Filters,     \* lifecycle_state parameters that readers send
    None,        \* NULL, a missing key, or no filter
    PageSize,    \* ListSpacesParams.Limit
    MaxCommits,  \* bound: commits to the spaces table
    MaxFaults    \* bound: calls of Valkey and Postgres that fail

ASSUME BoundsAssumption ==
    MaxSpaces \in Nat /\ PageSize \in Nat \ {0} /\ MaxCommits \in Nat
        /\ MaxFaults \in Nat

Spaces == 1..MaxSpaces
Rows == {"active", "archived"}   \* spaces.lifecycle_state
ASSUME NoneAssumption ==
    Filters \subseteq Rows /\ None \notin Rows /\ None \notin Spaces

VARIABLES
    db,         \* history: the table after each commit; the last is current
    list,       \* keys spaces:list and, by filter, spaces:list:lc=...
    gen,        \* key spaces:list:gen
    byId,       \* keys spaces:id:...
    reader,     \* local state of each read
    uncached,   \* created spaces whose keys ProvisionSpace has yet to delete
    listed,     \* history: spaces whose keys were deleted
    straddled,  \* history: did a fill of spaces:list straddle that?
    faults      \* failures so far

cacheVars == <<list, gen, byId>>
historyVars == <<listed, straddled>>
vars == <<db, cacheVars, reader, uncached, historyVars, faults>>

-----------------------------------------------------------------------------
(* The table *)

Now == Len(db)
Table == [Spaces -> Rows \cup {None}]
Created(table) == {s \in Spaces : table[s] # None}

(* SELECT ... WHERE lifecycle_state = $1 AND created_at > $2                *)
(* ORDER BY created_at LIMIT $3, each space with what is said of it.        *)
ListSpaces(table, filter, cursor) ==
    LET found == {s \in Created(table) : s > cursor
                    /\ filter \in {None, table[s]}}
        page == {s \in found : Cardinality({t \in found : t < s}) < PageSize}
    IN [s \in page |-> table[s]]

Commit(s, row) == db' = Append(db, [db[Now] EXCEPT ![s] = row])

-----------------------------------------------------------------------------
(* Types *)

MaybeFilter == Filters \cup {None}
Bodies == UNION {[page -> Rows] : page \in SUBSET Spaces}

(* A cached page; at and plain are history: after which commit it was read, *)
(* and whether with neither filter nor cursor.                              *)
Entries == [body : Bodies, at : 1..(MaxCommits + 1), plain : BOOLEAN]
ReaderRec ==
    [pc : {"idle", "get", "query", "fill", "token", "getId", "queryId",
           "fillId"},
     filter : MaybeFilter, cursor : 0..MaxSpaces, key : MaybeFilter,
     space : Spaces \cup {None}, entry : Entries \cup {None},
     row : Rows \cup {None}]
Idle == [pc |-> "idle", filter |-> None, cursor |-> 0, key |-> None,
         space |-> None, entry |-> None, row |-> None]

(* Type invariant: every variable stays in its declared set. *)
TypeOK ==
    /\ db \in Seq(Table) /\ Now \in 1..(MaxCommits + 1)
    /\ list \in [MaybeFilter -> Entries \cup {None}]
    /\ gen \in BOOLEAN
    /\ byId \in Table
    /\ reader \in [Readers -> ReaderRec]
    /\ uncached \in SUBSET Spaces
    /\ listed \in SUBSET Spaces
    /\ straddled \in BOOLEAN
    /\ faults \in 0..MaxFaults

Init ==
    /\ db = <<[s \in Spaces |-> None]>>
    /\ list = [f \in MaybeFilter |-> None]
    /\ gen = FALSE
    /\ byId = [s \in Spaces |-> None]
    /\ reader = [r \in Readers |-> Idle]
    /\ uncached = {}
    /\ listed = {} /\ straddled = FALSE
    /\ faults = 0

Fault == faults < MaxFaults /\ faults' = faults + 1

Goto(r, pc) == reader' = [reader EXCEPT ![r].pc = pc]
Answer(r) == reader' = [reader EXCEPT ![r] = Idle]

-----------------------------------------------------------------------------
(* Writes *)

(* ProvisionSpace commits the row, in the order of the ids. *)
CreateSpace(s) ==
    /\ Now <= MaxCommits
    /\ Created(db[Now]) = 1..(s - 1)
    /\ Commit(s, "active")
    /\ uncached' = uncached \cup {s}
    /\ UNCHANGED <<cacheVars, reader, historyVars, faults>>

(* provision_space and change_lifecycle change a row and delete no key. *)
WorkerWrite(s, row) ==
    /\ Now <= MaxCommits
    /\ db[Now][s] \notin {None, row}
    /\ Commit(s, row)
    /\ UNCHANGED <<cacheVars, reader, uncached, historyVars, faults>>

(* Does r hold a body for spaces:list that was read before s was there? *)
Straddles(r, s) ==
    /\ reader[r].pc = "fill" /\ reader[r].key = None
    /\ db[reader[r].entry.at][s] = None

(* Mutant: the filtered variants only. *)
InvalidateFiltered(s) ==
    /\ s \in uncached
    /\ uncached' = uncached \ {s}
    /\ list' = list
    /\ gen' = FALSE
    /\ byId' = [byId EXCEPT ![s] = None]
    /\ listed' = listed \cup {s}
    /\ straddled' = (straddled \/ \E r \in Readers : Straddles(r, s))
    /\ UNCHANGED <<db, reader, faults>>

(* ProvisionSpace, its last step: one DEL of three keys, its error ignored, *)
(* or the process dies before it.                                           *)
Invalidate(s) ==
    /\ s \in uncached
    /\ uncached' = uncached \ {s}
    /\ \/ /\ list' = [list EXCEPT ![None] = None]
          /\ gen' = FALSE
          /\ byId' = [byId EXCEPT ![s] = None]
          /\ listed' = listed \cup {s}
          /\ straddled' = (straddled \/ \E r \in Readers : Straddles(r, s))
          /\ UNCHANGED faults
       \/ Fault /\ UNCHANGED <<cacheVars, listed, straddled>>
    /\ UNCHANGED <<db, reader>>

-----------------------------------------------------------------------------
(* Handlers.ListSpaces *)

(* The key is made from the filter, and only if there is a token: without   *)
(* one the read goes on to Postgres and will fill the key without filter.   *)
(* An error of the cache is a miss. The cursor is not part of the key.      *)
StartList(r, filter, cursor) ==
    LET read == [Idle EXCEPT !.filter = filter, !.cursor = cursor] IN
    /\ reader[r].pc = "idle"
    /\ \/ /\ filter = None \/ gen
          /\ reader' = [reader EXCEPT ![r] = [read EXCEPT !.pc = "get",
                                                          !.key = filter]]
          /\ UNCHANGED faults
       \/ /\ filter # None
          /\ IF gen THEN Fault ELSE UNCHANGED faults
          /\ reader' = [reader EXCEPT ![r] = [read EXCEPT !.pc = "query"]]
    /\ UNCHANGED <<db, cacheVars, uncached, historyVars>>

(* A hit is the answer, as it is. *)
GetList(r) ==
    /\ reader[r].pc = "get"
    /\ \/ list[reader[r].key] # None /\ Answer(r) /\ UNCHANGED faults
       \/ list[reader[r].key] = None /\ Goto(r, "query") /\ UNCHANGED faults
       \/ Fault /\ Goto(r, "query")
    /\ UNCHANGED <<db, cacheVars, uncached, historyVars>>

Page(filter, cursor) ==
    [body |-> ListSpaces(db[Now], filter, cursor), at |-> Now,
     plain |-> filter = None /\ cursor = 0]

(* An error of the query is answered with 500 and nothing is cached. *)
QueryList(r) ==
    LET page == Page(reader[r].filter, reader[r].cursor) IN
    /\ reader[r].pc = "query"
    /\ \/ /\ reader' = [reader EXCEPT ![r].pc = "fill", ![r].cursor = 0,
                                       ![r].entry = page]
          /\ UNCHANGED faults
       \/ Fault /\ Answer(r)
    /\ UNCHANGED <<db, cacheVars, uncached, historyVars>>

(* Mutant: one key for all lists. *)
FillListUnkeyed(r) ==
    /\ reader[r].pc = "fill"
    /\ list' = [f \in MaybeFilter |-> reader[r].entry]
    /\ IF reader[r].filter = None THEN Answer(r)
       ELSE reader' = [reader EXCEPT ![r] = [Idle EXCEPT !.pc = "token"]]
    /\ UNCHANGED <<db, gen, byId, uncached, historyVars, faults>>

(* Set, its error ignored. *)
FillList(r) ==
    LET filled == [list EXCEPT ![reader[r].key] = reader[r].entry] IN
    /\ reader[r].pc = "fill"
    /\ \/ list' = filled /\ UNCHANGED faults
       \/ Fault /\ UNCHANGED list
    /\ IF reader[r].filter = None THEN Answer(r)
       ELSE reader' = [reader EXCEPT ![r] = [Idle EXCEPT !.pc = "token"]]
    /\ UNCHANGED <<db, gen, byId, uncached, historyVars>>

(* A filtered read leaves the token, whatever has been deleted since; the   *)
(* error of this Set is ignored too.                                        *)
FillToken(r) ==
    /\ reader[r].pc = "token"
    /\ \/ gen' = TRUE /\ UNCHANGED faults
       \/ Fault /\ UNCHANGED gen
    /\ Answer(r)
    /\ UNCHANGED <<db, list, byId, uncached, historyVars>>

-----------------------------------------------------------------------------
(* Handlers.GetSpace *)

(* A hit is the answer; a miss, or an error of the cache, asks Postgres. *)
GetSpace(r, s) ==
    /\ reader[r].pc = "idle"
    /\ IF byId[s] = None THEN UNCHANGED faults ELSE Fault
    /\ reader' = [reader EXCEPT ![r] = [Idle EXCEPT !.pc = "queryId",
                                                    !.space = s]]
    /\ UNCHANGED <<db, cacheVars, uncached, historyVars>>

(* Mutant: the 404 of a missing space is cached as well. *)
GetSpaceByIDAlways(r) ==
    LET row == db[Now][reader[r].space] IN
    /\ reader[r].pc = "queryId"
    /\ reader' = [reader EXCEPT ![r].pc = "fillId",
                    ![r].row = IF row = None THEN "not_found" ELSE row]
    /\ UNCHANGED <<db, cacheVars, uncached, historyVars, faults>>

(* A space that is not there is answered with 404, an error of the query    *)
(* with 500, and neither is cached.                                         *)
GetSpaceByID(r) ==
    LET row == db[Now][reader[r].space] IN
    /\ reader[r].pc = "queryId"
    /\ \/ row = None /\ Answer(r) /\ UNCHANGED faults
       \/ Fault /\ Answer(r)
       \/ /\ row # None
          /\ reader' = [reader EXCEPT ![r].pc = "fillId", ![r].row = row]
          /\ UNCHANGED faults
    /\ UNCHANGED <<db, cacheVars, uncached, historyVars>>

FillSpace(r) ==
    /\ reader[r].pc = "fillId"
    /\ \/ /\ byId' = [byId EXCEPT ![reader[r].space] = reader[r].row]
          /\ UNCHANGED faults
       \/ Fault /\ UNCHANGED byId
    /\ Answer(r)
    /\ UNCHANGED <<db, list, gen, uncached, historyVars>>

-----------------------------------------------------------------------------
(* Valkey: every key lives for cacheSpaceTTL. *)

(* Mutant: a Set with no expiration. *)
ListStays(f) ==
    /\ list[f] # None
    /\ UNCHANGED vars

ListExpires(f) ==
    /\ list[f] # None
    /\ list' = [list EXCEPT ![f] = None]
    /\ UNCHANGED <<db, gen, byId, reader, uncached, historyVars, faults>>

TokenExpires ==
    /\ gen
    /\ gen' = FALSE
    /\ UNCHANGED <<db, list, byId, reader, uncached, historyVars, faults>>

SpaceExpires(s) ==
    /\ byId[s] # None
    /\ byId' = [byId EXCEPT ![s] = None]
    /\ UNCHANGED <<db, list, gen, reader, uncached, historyVars, faults>>

-----------------------------------------------------------------------------

Write == \E s \in Spaces :
    CreateSpace(s) \/ Invalidate(s) \/ \E row \in Rows : WorkerWrite(s, row)

StartRead(r) ==
    \/ \E filter \in MaybeFilter, cursor \in 0..MaxSpaces :
         StartList(r, filter, cursor)
    \/ \E s \in Spaces : GetSpace(r, s)

ReadStep(r) ==
    \/ GetList(r) \/ QueryList(r) \/ FillList(r) \/ FillToken(r)
    \/ GetSpaceByID(r) \/ FillSpace(r)

Expiry ==
    \/ \E f \in MaybeFilter : ListExpires(f)
    \/ \E s \in Spaces : SpaceExpires(s)
    \/ TokenExpires

Next == Write \/ Expiry \/ \E r \in Readers : StartRead(r) \/ ReadStep(r)

Spec == Init /\ [][Next]_vars

(* Reads that have started end, and keys that stay expire; nobody has to    *)
(* read or write.                                                           *)
Fairness ==
    /\ \A r \in Readers : WF_vars(ReadStep(r))
    /\ \A f \in MaybeFilter : WF_vars(ListExpires(f))
    /\ \A s \in Spaces : WF_vars(SpaceExpires(s))

FairSpec == Spec /\ Fairness

-----------------------------------------------------------------------------
(* Properties *)

(* What is cached under a filter is a page of the spaces that passed it     *)
(* when the page was read, though the token came and went since the key was *)
(* chosen. (Nothing of the kind is true of spaces:list, which filtered      *)
(* reads without a token fill, nor is any key tied to the page's cursor.)   *)
FilteredListsKeepTheirFilter ==
    \A f \in Filters :
        list[f] # None =>
            \E cursor \in 0..MaxSpaces :
                list[f].body = ListSpaces(db[list[f].at], f, cursor)

(* Once ProvisionSpace has deleted the keys, the page under spaces:list     *)
(* names the new space if its place is on the first page. The code lets two *)
(* kinds of page hide it, and this shows that there is no third: one whose  *)
(* read missed the space and that was filled after the deletion, and one    *)
(* that answers another question, since a filtered read that finds no token *)
(* and a read with a cursor also fill spaces:list.                          *)
NewSpaceListed ==
    LET e == list[None] IN
    e # None /\ ~ straddled /\ e.plain =>
        \A s \in listed : s <= PageSize => s \in DOMAIN e.body

(* However fills, deletions and expiries interleave: when the table stops   *)
(* changing, the cache stops answering with anything that has changed.      *)
Fresh(at) == db[at] = db[Now]
Settles ==
    <>[](/\ \A f \in MaybeFilter : list[f] # None => Fresh(list[f].at)
         /\ \A s \in Spaces : byId[s] # None => byId[s] = db[Now][s])
=============================================================================
