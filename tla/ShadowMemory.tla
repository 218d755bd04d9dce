---------------------------- MODULE ShadowMemory ----------------------------
(***************************************************************************)
(* ConcurrentShadowMemory (drcctlib/shadow_memory.h, and the same code     *)
(* with a lock around one allocation in vprofile/shadow_memory_lock.h):    *)
(* a two-level table of pages that threads grow without a lock.  A look-up *)
(* loads a slot of the directory, then a slot of the table it names; an    *)
(* empty slot makes the thread allocate, offer what it allocated with one  *)
(* compare-and-exchange, and, when another thread was first, free its own  *)
(* and load the slot again.  Every one of these accesses is a step here.   *)
(*                                                                         *)
(* An address is the triple of its bit fields.  A table or a page is named *)
(* by the slot it was allocated for and the thread that allocated it: a    *)
(* thread allocates at most once for a slot, for once it is filled a slot  *)
(* stays filled.                                                           *)
(***************************************************************************)
EXTENDS Naturals

CONSTANTS
    Thread,
    Cell,          \* the shadow of one byte
    Zero,          \* the shadow of a byte on fresh pages
    NULL,
    DirEntries,    \* LEVEL_1_PAGE_TABLE_ENTRIES
    TableEntries,  \* LEVEL_2_PAGE_TABLE_ENTRIES
    PageSize       \* SHADOW_PAGE_SIZE

DirSlot   == 0 .. (DirEntries - 1)
TableSlot == 0 .. (TableEntries - 1)
Offset    == 0 .. (PageSize - 1)
Base      == DirSlot \X TableSlot
Addr      == DirSlot \X TableSlot \X Offset

TableId == DirSlot \X Thread
PageId  == Base \X Thread

ASSUME ShadowMemoryAssumption ==
    /\ {DirEntries, TableEntries, PageSize} \subseteq Nat \ {0}
    /\ Zero \in Cell
    /\ NULL \notin TableId \cup PageId

VARIABLES
    directory,     \* pageDirectory: per slot a table or NULL
    table,         \* per table: per slot a page or NULL
    page,          \* per page: its cells
    tables, pages, \* what is allocated and not yet freed
    mapped,        \* FALSE once the destructor has run
    step,          \* per thread: where its look-up stands
    at,            \* per thread: the page it looks for
    create,        \* per thread: GetOrCreate... or Get...
    v1, v2,        \* per thread: the table and the page it has found
    seen           \* per thread: the cell it has read last

slots  == <<directory, table>>
memory == <<directory, table, page, tables, pages, mapped>>
look   == <<step, at, create, v1, v2, seen>>

Resting == {"idle", "held", "missed"}
Lookup  == {"load dir", "swap dir", "reload dir", "load table", "swap table", "reload table"}

(* LEVEL_1_PAGE_TABLE_SLOT and LEVEL_2_PAGE_TABLE_SLOT: the page of an address. *)
BaseOf(a) == <<a[1], a[2]>>

(* The address n bytes on: a carry goes into the next field, and bits above the masks drop. *)
Plus(a, n) ==
    LET o == a[3] + n
        j == a[2] + o \div PageSize
        i == a[1] + j \div TableEntries
    IN  <<i % DirEntries, j % TableEntries, o % PageSize>>

ShadowInit ==
    /\ directory = [i \in DirSlot |-> NULL]
    /\ table = [id \in TableId |-> [j \in TableSlot |-> NULL]]
    /\ page = [id \in PageId |-> [o \in Offset |-> Zero]]
    /\ tables = {}
    /\ pages = {}
    /\ mapped = TRUE
    /\ step = [t \in Thread |-> "idle"]
    /\ at = [t \in Thread |-> <<0, 0>>]
    /\ create = [t \in Thread |-> FALSE]
    /\ v1 = [t \in Thread |-> NULL]
    /\ v2 = [t \in Thread |-> NULL]
    /\ seen = [t \in Thread |-> Zero]

-----------------------------------------------------------------------------
(* The slot a thread works on, and what it would put there. *)

DirValue(t)   == directory[at[t][1]]
TableValue(t) == table[v1[t]][at[t][2]]
OwnTable(t)   == <<at[t][1], t>>
OwnPage(t)    == <<at[t], t>>

(* The caller drops the page it holds and asks for another. *)
Ask(t, b, c) ==
    /\ mapped
    /\ step[t] \in Resting
    /\ step' = [step EXCEPT ![t] = "load dir"]
    /\ at' = [at EXCEPT ![t] = b]
    /\ create' = [create EXCEPT ![t] = c]
    /\ UNCHANGED <<memory, v1, v2, seen>>

FindTable(t) ==
    /\ step[t] = "load dir"
    /\ DirValue(t) # NULL
    /\ v1' = [v1 EXCEPT ![t] = DirValue(t)]
    /\ step' = [step EXCEPT ![t] = "load table"]
    /\ UNCHANGED <<memory, at, create, v2, seen>>

NoTable(t) ==
    /\ step[t] = "load dir"
    /\ DirValue(t) = NULL
    /\ ~ create[t]
    /\ step' = [step EXCEPT ![t] = "missed"]
    /\ UNCHANGED <<memory, at, create, v1, v2, seen>>

(* dr_raw_mem_alloc gives zeroed memory: a table of empty slots. *)
AllocTable(t) ==
    /\ step[t] = "load dir"
    /\ DirValue(t) = NULL
    /\ create[t]
    /\ tables' = tables \cup {OwnTable(t)}
    /\ table' = [table EXCEPT ![OwnTable(t)] = [j \in TableSlot |-> NULL]]
    /\ step' = [step EXCEPT ![t] = "swap dir"]
    /\ UNCHANGED <<directory, page, pages, mapped, at, create, v1, v2, seen>>

(* compare_exchange_strong: the slot is compared and filled in one step. *)
InstallTable(t) ==
    /\ step[t] = "swap dir"
    /\ DirValue(t) = NULL
    /\ directory' = [directory EXCEPT ![at[t][1]] = OwnTable(t)]
    /\ v1' = [v1 EXCEPT ![t] = OwnTable(t)]
    /\ step' = [step EXCEPT ![t] = "load table"]
    /\ UNCHANGED <<table, page, tables, pages, mapped, at, create, v2, seen>>

(* Mutant: the exchange is tried again until the slot is empty. *)
LoseTableRetrying(t) ==
    /\ step[t] = "swap dir"
    /\ DirValue(t) # NULL
    /\ UNCHANGED <<memory, look>>

LoseTable(t) ==
    /\ step[t] = "swap dir"
    /\ DirValue(t) # NULL
    /\ tables' = tables \ {OwnTable(t)}
    /\ step' = [step EXCEPT ![t] = "reload dir"]
    /\ UNCHANGED <<slots, page, pages, mapped, at, create, v1, v2, seen>>

AdoptTable(t) ==
    /\ step[t] = "reload dir"
    /\ v1' = [v1 EXCEPT ![t] = DirValue(t)]
    /\ step' = [step EXCEPT ![t] = "load table"]
    /\ UNCHANGED <<memory, at, create, v2, seen>>

FindPage(t) ==
    /\ step[t] = "load table"
    /\ TableValue(t) # NULL
    /\ v2' = [v2 EXCEPT ![t] = TableValue(t)]
    /\ step' = [step EXCEPT ![t] = "held"]
    /\ UNCHANGED <<memory, at, create, v1, seen>>

NoPage(t) ==
    /\ step[t] = "load table"
    /\ TableValue(t) = NULL
    /\ ~ create[t]
    /\ step' = [step EXCEPT ![t] = "missed"]
    /\ UNCHANGED <<memory, at, create, v1, v2, seen>>

AllocPage(t) ==
    /\ step[t] = "load table"
    /\ TableValue(t) = NULL
    /\ create[t]
    /\ pages' = pages \cup {OwnPage(t)}
    /\ page' = [page EXCEPT ![OwnPage(t)] = [o \in Offset |-> Zero]]
    /\ step' = [step EXCEPT ![t] = "swap table"]
    /\ UNCHANGED <<slots, tables, mapped, at, create, v1, v2, seen>>

(* Mutant: the page is stored without looking at the slot. *)
InstallPageOver(t) ==
    /\ step[t] = "swap table"
    /\ table' = [table EXCEPT ![v1[t]][at[t][2]] = OwnPage(t)]
    /\ v2' = [v2 EXCEPT ![t] = OwnPage(t)]
    /\ step' = [step EXCEPT ![t] = "held"]
    /\ UNCHANGED <<directory, page, tables, pages, mapped, at, create, v1, seen>>

InstallPage(t) ==
    /\ step[t] = "swap table"
    /\ TableValue(t) = NULL
    /\ table' = [table EXCEPT ![v1[t]][at[t][2]] = OwnPage(t)]
    /\ v2' = [v2 EXCEPT ![t] = OwnPage(t)]
    /\ step' = [step EXCEPT ![t] = "held"]
    /\ UNCHANGED <<directory, page, tables, pages, mapped, at, create, v1, seen>>

(* Mutant: the page nobody needs is not freed. *)
LosePageLeaking(t) ==
    /\ step[t] = "swap table"
    /\ TableValue(t) # NULL
    /\ step' = [step EXCEPT ![t] = "reload table"]
    /\ UNCHANGED <<memory, at, create, v1, v2, seen>>

LosePage(t) ==
    /\ step[t] = "swap table"
    /\ TableValue(t) # NULL
    /\ pages' = pages \ {OwnPage(t)}
    /\ step' = [step EXCEPT ![t] = "reload table"]
    /\ UNCHANGED <<slots, page, tables, mapped, at, create, v1, v2, seen>>

AdoptPage(t) ==
    /\ step[t] = "reload table"
    /\ v2' = [v2 EXCEPT ![t] = TableValue(t)]
    /\ step' = [step EXCEPT ![t] = "held"]
    /\ UNCHANGED <<memory, at, create, v1, seen>>

(* GetOrCreateShadowBaseAddress and GetShadowBaseAddress, from the call to the return. *)
LookupStep(t) ==
    \/ FindTable(t) \/ NoTable(t) \/ AllocTable(t) \/ InstallTable(t) \/ LoseTable(t)
    \/ AdoptTable(t)
    \/ FindPage(t) \/ NoPage(t) \/ AllocPage(t) \/ InstallPage(t) \/ LosePage(t)
    \/ AdoptPage(t)

-----------------------------------------------------------------------------
(* The caller uses the address it was given. *)

Holds(t, a) == /\ mapped
               /\ step[t] = "held"
               /\ at[t] = BaseOf(a)

ReadCell(t, a) ==
    /\ Holds(t, a)
    /\ seen' = [seen EXCEPT ![t] = page[v2[t]][a[3]]]
    /\ UNCHANGED <<memory, step, at, create, v1, v2>>

WriteCell(t, a, c) ==
    /\ Holds(t, a)
    /\ page' = [page EXCEPT ![v2[t]][a[3]] = c]
    /\ UNCHANGED <<slots, tables, pages, mapped, look>>

-----------------------------------------------------------------------------
(* The destructor: it frees every table and page it can reach.  It runs in *)
(* the exit event of the process, when no thread runs any more.            *)

InstalledTables == {id \in TableId : directory[id[1]] = id}
InstalledPages ==
    {id \in PageId : \E T \in InstalledTables : T[1] = id[1][1] /\ table[T][id[1][2]] = id}

Destroy ==
    /\ mapped
    /\ \A t \in Thread : step[t] \in Resting
    /\ tables' = tables \ InstalledTables
    /\ pages' = pages \ InstalledPages
    /\ mapped' = FALSE
    /\ UNCHANGED <<slots, page, look>>

ShadowNext ==
    \/ \E t \in Thread :
        \/ \E b \in Base, c \in BOOLEAN : Ask(t, b, c)
        \/ LookupStep(t)
        \/ \E a \in Addr : ReadCell(t, a)
        \/ \E a \in Addr, c \in Cell : WriteCell(t, a, c)
    \/ Destroy

shadowVars == <<memory, look>>

ShadowSpec == ShadowInit /\ [][ShadowNext]_shadowVars

-----------------------------------------------------------------------------
ShadowTypeOK ==
    /\ directory \in [DirSlot -> TableId \cup {NULL}]
    /\ table \in [TableId -> [TableSlot -> PageId \cup {NULL}]]
    /\ page \in [PageId -> [Offset -> Cell]]
    /\ tables \subseteq TableId
    /\ pages \subseteq PageId
    /\ mapped \in BOOLEAN
    /\ step \in [Thread -> Resting \cup Lookup]
    /\ at \in [Thread -> Base]
    /\ create \in [Thread -> BOOLEAN]
    /\ v1 \in [Thread -> TableId \cup {NULL}]
    /\ v2 \in [Thread -> PageId \cup {NULL}]
    /\ seen \in [Thread -> Cell]

SpareTables == {OwnTable(t) : t \in {u \in Thread : step[u] = "swap dir"}}
SparePages  == {OwnPage(t) : t \in {u \in Thread : step[u] = "swap table"}}

(* What is allocated is in a slot, or is the one table or page a thread is  *)
(* about to offer: nothing is lost when two threads fill the same slot,     *)
(* nothing in a slot has been freed, and nothing is left after the exit.    *)
PagesAccounted ==
    /\ tables = IF mapped THEN InstalledTables \cup SpareTables ELSE {}
    /\ pages = IF mapped THEN InstalledPages \cup SparePages ELSE {}

(* The cell of an address, whichever page it is on. *)
CellAt(a) ==
    LET T == directory[a[1]] IN
    IF T = NULL \/ table[T][a[2]] = NULL THEN Zero ELSE page[table[T][a[2]]][a[3]]

Cells == [a \in Addr |-> CellAt(a)]

(* How a look-up has been answered. *)
AnswerAt(s) ==
    IF s \in Lookup THEN "waiting" ELSE IF s = "idle" THEN "none" ELSE s

Answers == [t \in Thread |-> AnswerAt(step[t])]

Promise == INSTANCE AddressMap WITH
    cell <- Cells, asked <- at, answer <- Answers, open <- mapped

(* Threads that grow the memory together see one cell per address: what one *)
(* wrote is never on a page that only it can reach, and "missed" is only    *)
(* said where nothing was written.                                          *)
ActsAsMap == Promise!Spec
=============================================================================
